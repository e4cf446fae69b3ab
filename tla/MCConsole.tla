----------------------------- MODULE MCConsole -----------------------------
(***************************************************************************)
(* Two VMCs with a host each and one without; at most two VMCs, one VM on  *)
(* each; one or two commands, and at most one refused call or death; an    *)
(* AIDRS whose daemons run one command at a time, and at most two in all.  *)
(***************************************************************************)
EXTENDS Console

MCHostsOf == [va |-> << "h1" >>, vb |-> << "h2" >>, vc |-> << >>]
MCLimits  == [VMC |-> 2, VM |-> 2, nr_vms |-> 1, AIDRS |-> 1, daemon_parallelism |-> 1]
MCProcs   == {"p1", "p2", "p3", "p4"}

c(op, on)       == [op |-> op, on |-> on, force |-> FALSE, to |-> "none", of |-> "none",
                    children |-> {"p2"}, child |-> "p2", remover |-> "p3"]
To(op, on, t)   == [c(op, on) EXCEPT !.to = t]
Force(op, on)   == [c(op, on) EXCEPT !.force = TRUE]

Alone(n, w, c1)      == [world |-> w, runs |-> [p \in MCProcs |-> IF p = "p1" THEN c1 ELSE c("nothing", "none")],
                         children |-> {}, listed |-> {}, faults |-> n]
Both(n, w, c1, c2)   == [Alone(n, w, c1) EXCEPT !.runs["p2"] = c2]
Parent(n, w, c1, c2) == [Both(n, w, c1, c2) EXCEPT !.children = {"p2"}]

Migrate    == To("migrate", "vm", "h2")
Suspend    == To("vmrunstate", "vm", "suspend")
Resume     == To("vmrunstate", "vm", "attached")

(* Daemons, and what they start.                                           *)
Of(op, on, of) == [c(op, on) EXCEPT !.of = of]
Known(op, on, of) == [Of(op, on, of) EXCEPT !.force = TRUE]
Daemon(role, kids) == [To("daemon", "ad", role) EXCEPT !.children = kids]
Crew(n, w, cs, kids, l) ==
    [world |-> w, children |-> kids, listed |-> l, faults |-> n,
     runs |-> [p \in MCProcs |-> IF p \in DOMAIN cs THEN cs[p] ELSE c("nothing", "none")]]
AISubmit  == << "AIDRS", "D", "submit" >>
AIRemove  == << "AIDRS", "D", "remove" >>
Capturer  == << "VMCRS", "D", "submit" >>
DetachAidrs == c("aidrsdetach", "ad")

DaemonScenarios ==
    { Crew(1, "vmc", [p1 |-> c("aidrsattach", "ad"), p2 |-> Daemon("submit", {}),
                      p3 |-> Daemon("remove", {})], {"p2", "p3"}, {}),
      Crew(0, "cloud", [p1 |-> c("aidrsattach", "ad"), p2 |-> Daemon("submit", {}),
                        p3 |-> Daemon("remove", {})], {"p2", "p3"}, {}),
      Crew(0, "vmc", [p1 |-> c("firsattach", "ad"), p2 |-> Daemon("fault", {})], {"p2"}, {}),
      Crew(0, "ai", [p1 |-> c("vmcrsattach", "ad"), p2 |-> Daemon("capture", {})], {"p2"}, {}),
      Crew(0, "aidrs", [p1 |-> To("alterstate", "ad", "stopped"), p2 |-> Daemon("submit", {"p3", "p4"}),
                        p3 |-> Of("ai-attach", "aj", "J"), p4 |-> Of("ai-attach", "aj", "K")],
           {"p3", "p4"}, {AISubmit}),
      Crew(1, "aidrs", [p1 |-> Daemon("submit", {"p2", "p3"}),
                        p2 |-> Known("ai-attach", "aj", "J"), p3 |-> Of("ai-attach", "aj", "K")],
           {"p2", "p3"}, {AISubmit}),
      Crew(0, "aidrs", [p1 |-> DetachAidrs, p2 |-> Daemon("submit", {}),
                        p3 |-> To("alterstate", "ad", "attached")], {}, {AISubmit}),
      Crew(1, "overdue", [p1 |-> Daemon("remove", {"p2", "p3"}),
                          p2 |-> Of("ai-detach", "ai", "I"), p3 |-> Of("ai-detach", "ai", "I")],
           {"p2", "p3"}, {AIRemove}),
      Crew(0, "overdue", [p1 |-> Daemon("remove", {"p2"}), p2 |-> Of("ai-detach", "ai", "I"),
                          p3 |-> DetachAidrs], {"p2"}, {AIRemove}),
      Crew(1, "vmcrs", [p1 |-> Daemon("capture", {"p2"}), p2 |-> Of("vm-capture", "vm", "V")],
           {"p2"}, {Capturer}),
      Crew(0, "vmcrs", [p1 |-> Daemon("capture", {"p2"}), p2 |-> Of("vm-capture", "vm", "V"),
                        p3 |-> c("vmcrsdetach", "ad")], {"p2"}, {Capturer}),
      Alone(1, "vm", c("vmcapture", "vm")) }

MCScenarios == DaemonScenarios \cup
    { Both(0, "no cloud", c("cldattach", "none"), c("vmcattach", "va")),
      Both(1, "cloud", c("vmcattach", "va"), c("vmcattach", "va")),
      Both(0, "vmc", c("vmcattach", "vb"), c("vmcattach", "vc")),
      Both(1, "vmc", c("vmcdetach", "va"), c("vmcattach", "va")),
      Both(0, "vmc", c("vmcdetach", "va"), c("vmcdetach", "va")),
      Both(1, "vmc", c("vmcdetach", "va"), c("vmcattach", "vb")),
      Parent(1, "cloud", c("vmcattachall", "none"), c("vmcattach", "va")),
      Parent(1, "vmc", c("vmcdetachall", "none"), c("vmcdetach", "va")),
      Parent(1, "vm", c("vmdetachall", "none"), c("vmdetach", "vm")),
      Alone(1, "vm", c("clddetach", "none")),
      Both(0, "vm", c("clddetach", "none"), Suspend),
      Both(1, "vm", c("vmdetach", "vm"), Migrate),
      Both(1, "vm", c("vmcdetach", "va"), c("vmdetach", "vm")),
      Both(0, "vm", Force("vmcdetach", "va"), c("vmdetach", "vm")),
      Both(1, "vm", c("vmcdetach", "vb"), Migrate),
      Both(1, "vm", Suspend, Resume),
      Both(0, "vm", Suspend, c("vmdetach", "vm")),
      Both(0, "vm", c("vmccleanup", "va"), Migrate),
      Alone(1, "crowded", Migrate),
      Both(0, "ai", c("vmresize", "vm"), Suspend),
      Both(0, "ai", c("vmresize", "vm"), c("vmdetach", "vm")),
      Parent(1, "ai", To("airunstate", "ai", "suspend"), Suspend),
      Alone(1, "ai", To("airunstate", "ai", "attached")),
      Both(1, "vm", c("vmdetach", "vm"), c("vmdetach", "vm")),
      Both(1, "vm", c("vmcattach", "vc"), Migrate),
      Both(0, "vm", Migrate, Migrate) }
=============================================================================
