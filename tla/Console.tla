------------------------------ MODULE Console ------------------------------
(***************************************************************************)
(* Several commands of Commands.tla on one object store, at the same time  *)
(* and with nothing between them: objattach takes its lock for a VM or an  *)
(* AI only, and the other operations take none at all.                     *)
(*                                                                         *)
(* A process runs one command.  Whatever it does to the store is one step  *)
(* (a round trip to Redis), and the steps of the processes interleave;     *)
(* what it does with its local variables belongs to the step before.  The  *)
(* cloud may refuse a call, and the process may die between two steps.     *)
(* The daemons of Submitters.tla are processes as well, and so are the     *)
(* commands that they start.                                               *)
(***************************************************************************)
EXTENDS Submitters, SequencesExt, TLC

CONSTANTS
    Procs,              \* the processes
    Scenarios           \* what is there and what they run: records of the
                        \*   world, the commands (a function of the processes),
                        \*   the processes that a command starts, and the bound
                        \*   on refused calls and deaths

VMCs    == Procs \cup {"A", "B"}        \* a VMC attached by p has the uuid p
Typed   == [VMC |-> VMCs, HOST |-> Hosts, VM |-> {"V"}, AI |-> {"I", "J"}, AIDRS |-> {"D"}]
Objs    == VMCs \cup Hosts \cup {"V", "I", "J", "D"}
Names   == {"va", "vb", "vc", "vm", "ai", "aj", "ad"}
Keys    == Objs \cup Names \cup Hosts \cup {Cloud, "none"} \cup {Globals[k] : k \in 1..3}

VARIABLES
    scen,       \* the scenario
    pieces,     \* by key: what carries it
    points,     \* by name: the object that the pointer leads to
    attrs,      \* by object: its name, vmc, host and ai
    nr,         \* by VMC: nr_vms and scheduled_vms
    state,      \* by object: its STATE
    counter,    \* the counters of each type
    all,        \* all_vmcs_attached
    running,    \* running_processes: type, object and operation of each entry
    where,      \* in the cloud: the VMC on which the instance of the VM is
    r,          \* the processes
    with,       \* which processes have run at the same time
    faults

store == << pieces, points, attrs, nr, state, counter, all, running >>
vars  == << scen, store, where, r, with, faults >>

(* ---------------------------- the processes ---------------------------- *)

Program(p, c) ==
    CASE c.op = "cldattach"    -> cldattach
      [] c.op = "clddetach"    -> clddetach
      [] c.op = "vmcattach"    -> vmcattach(p, c.on)
      [] c.op = "vmcdetach"    -> vmcdetach(c.on, c.force)
      [] c.op = "vmcattachall" -> vmcattachall(c.children)
      [] c.op = "vmcdetachall" -> objdetachall("VMC", "A", c.child)
      [] c.op = "vmdetachall"  -> objdetachall("VM", "V", c.child)
      [] c.op = "vmccleanup"   -> vmccleanup(c.on)
      [] c.op = "vmdetach"     -> vmdetach(c.on, c.force)
      [] c.op = "migrate"      -> migrate(c.on, c.to)
      [] c.op = "vmresize"     -> vmresize(c.on)
      [] c.op = "vmrunstate"   -> vmrunstate(c.on, c.to)
      [] c.op = "airunstate"   -> airunstate(c.on, "V", c.child, c.to)
      [] c.op = "vmcapture"    -> vmcapture(c.on, "ai", "none")
      [] c.op = "alterstate"   -> alter_state(c.on, c.to)
      [] c.op = "aidrsattach"  -> aidrsattach("D", c.on, c)
      [] c.op = "vmcrsattach"  -> vmcrsattach("D", c.on, c)
      [] c.op = "firsattach"   -> firsattach("D", c.on, c)
      [] c.op = "aidrsdetach"  -> aidrsdetach(c.on)
      [] c.op = "vmcrsdetach"  -> vmcrsdetach(c.on)
      [] c.op = "daemon"       -> daemon("D", c.to, "I", c.children, [k \in Procs |-> scen.runs[k].of])
      [] c.op = "ai-attach"    -> aiattach(c.of, c.on, c.force)
      [] c.op = "ai-detach"    -> aidetach_daemon(c.of, c.on)
      [] c.op = "vm-capture"   -> vmcapture_daemon(c.of, c.on, "ai", "D")
      [] c.op = "nothing"      -> << >>

NoAttrs == [name |-> "none", vmc |-> "none", host |-> "none", ai |-> "none", aidrs |-> "none",
            nr_vms |-> 0]
Fresh == [todo |-> << >>, is |-> "ready", failed |-> FALSE, marks |-> {}, seen |-> "none",
          it |-> "none", copy |-> NoAttrs, dest |-> "none", dvmc |-> "none", was |-> "none", cloud |-> "none",
          over |-> FALSE, active |-> 0, children |-> {}, outer |-> << >>]
(* The local variables of a command, apart when it runs inside another.    *)
Locals(q) == [failed |-> q.failed, marks |-> q.marks, it |-> q.it, copy |-> q.copy, was |-> q.was]
Inner(q) == [q EXCEPT !.outer = << Locals(q) >> \o @, !.failed = FALSE, !.marks = {}, !.it = "none"]
Outer(q) == [q EXCEPT !.failed = Head(q.outer).failed, !.marks = Head(q.outer).marks,
                      !.it = Head(q.outer).it, !.copy = Head(q.outer).copy,
                      !.was = Head(q.outer).was, !.outer = Tail(q.outer)]

Holds(q, t) ==
    CASE t = "found"         -> q.seen # "none"
      [] t = "failed"        -> q.failed
      [] t = "known"         -> q.it # "none"
      [] t = "over limit"    -> q.over
      [] t \in Hosts        -> q.copy.host = t
      [] t = "has vms"       -> q.copy.nr_vms > 0
      [] t = "has ai"        -> q.copy.ai # "none"
      [] t = "has aidrs"     -> q.copy.aidrs # "none"
      [] t = "all attached"  -> q.cloud = "true"
      [] OTHER               -> t \in q.marks \cup {q.was}

(* What is left of the program when an exception is raised: what follows   *)
(* the next finally of this command, or of the command around it.          *)
RECURSIVE Handler(_, _)
Handler(q, depth) ==
    IF q.todo = << >> THEN [q EXCEPT !.marks = @ \cup {"escaped"}]
    ELSE LET i    == Head(q.todo).do
             rest == [q EXCEPT !.todo = Tail(@)]
         IN  CASE i = "begin"                -> Handler(rest, depth + 1)
               [] i = "end" /\ depth > 0     -> Handler(rest, depth - 1)
               [] i = "end" /\ depth = 0     -> Handler(Outer(rest), 0)
               [] i = "finally" /\ depth = 0 -> q
               [] OTHER                      -> Handler(rest, depth)
Thrown(q)   == [Handler(q, 0) EXCEPT !.failed = TRUE]
Onward(q)   == [q EXCEPT !.todo = Tail(@)]
Go(q, prog) == [q EXCEPT !.todo = prog \o Tail(@)]
RECURSIVE Left(_)
Left(todo) == IF Head(todo).do = "repeat" THEN Tail(todo) ELSE Left(Tail(todo))

HostsProgram(q, prog) ==
    IF q.copy.name \in DOMAIN HostsOf
    THEN FlattenSeq([k \in DOMAIN HostsOf[q.copy.name] |-> prog[HostsOf[q.copy.name][k]]])
    ELSE << >>
(* Nobody changes the cloud object and the GLOBAL objects but these; where *)
(* none of them runs, to read them, and to write back what was read, shows *)
(* nothing and changes nothing, and is no step of its own.                 *)
CloudChanges == \E p \in Procs : scen.runs[p].op \in {"cldattach", "clddetach", "vmcattachall", "vmcdetachall"}
Unseen(i) == /\ i.do \in {"need", "copy", "paste"} /\ ~CloudChanges
             /\ i.on \in {Cloud} \cup {Globals[k] : k \in 1..3}

RECURSIVE Settle(_)
(* What processes become by what they do with their local variables: a set *)
(* for a set, the elements of which TLC computes once.                     *)
Settle(Q) == UNION {
    IF q.todo = << >>
    THEN {[q EXCEPT !.is = IF "escaped" \in q.marks THEN "escaped"
                           ELSE IF q.failed THEN "failed" ELSE "succeeded"]}
    ELSE LET i == Head(q.todo) IN
         CASE i.do = "when"    -> Settle({Go(q, IF Holds(q, i.on) THEN i.then ELSE i.else)})
           [] i.do = "mark"    -> Settle({[Onward(q) EXCEPT !.marks = @ \cup {i.on}]})
           [] i.do = "raise"   -> Settle({Thrown(Onward(q))})
           [] i.do = "hosts"   -> Settle({Go(q, HostsProgram(q, i.for))})
           [] i.do = "listed"  -> Settle({[Onward(q) EXCEPT !.seen = i.on]})
           [] i.do = "lost"    -> Settle({[Onward(q) EXCEPT !.seen = "none"]})
           [] i.do = "begin"   -> Settle({Inner(Onward(q))})
           [] i.do = "end"     -> Settle({Outer(Onward(q))})
           [] i.do = "finally" -> Settle({Onward(q)})
           [] i.do = "repeat"  -> Settle({[q EXCEPT !.todo = i.then \o @, !.over = FALSE, !.active = 0, !.was = "none"]})
           [] i.do = "leave"   -> Settle({[q EXCEPT !.todo = Left(@)]})
           [] i.do = "full"    -> Settle({[Onward(q) EXCEPT !.over = TRUE]})
           [] Unseen(i) -> Settle({Onward(q)})
           [] OTHER -> {q} : q \in Q}

(* ----------------------------- the scenarios --------------------------- *)

CloudWhole == Whole \cup {"list", "views", "lists"}
ObjWhole   == Whole \cup {"list", "views"}
Has(o, world) ==
    CASE o \in {"A", "h1"} -> world \notin {"no cloud", "cloud"}
      [] o \in {"B", "h2"} -> world \in {"vm", "crowded", "ai"}
      [] o = "V"           -> world \in {"vm", "crowded", "ai", "vmcrs"}
      [] o = "I"           -> world \in {"ai", "overdue", "vmcrs"}
      [] o = "D"           -> world \in {"aidrs", "overdue", "vmcrs"}
      [] OTHER             -> FALSE
NameOf(o) == CASE o = "A" -> "va" [] o = "B" -> "vb" [] o = "V" -> "vm" [] o = "I" -> "ai"
               [] o = "D" -> "ad"
               [] o \in Hosts -> o [] OTHER -> "none"
Number(c, w) ==
    CASE c = << "VMC", "RESERVATIONS" >> -> Cardinality({o \in {"A", "B"} : Has(o, w)})
      [] c = << "VM", "RESERVATIONS" >>  -> Cardinality({o \in {"V"} : Has(o, w)})
      [] c = << "AIDRS", "RESERVATIONS" >> -> Cardinality({o \in {"D"} : Has(o, w)})
      [] OTHER -> 0

Stands(o, w) ==
    CASE o = Cloud -> IF w = "no cloud" THEN {} ELSE CloudWhole
      [] o \in {Globals[k] : k \in 1..3} -> IF w = "no cloud" THEN {} ELSE Whole \cup {"list"}
      [] o \in Hosts -> IF Has(o, w) THEN ObjWhole \cup {"tag", "RESERVATIONS"} ELSE {}
      [] o \in VMCs  -> IF Has(o, w) THEN ObjWhole \cup {"RESERVATIONS"} ELSE {}
      [] o \in Objs  -> (IF Has(o, w) THEN ObjWhole ELSE {})
                         \cup IF o = "I" /\ w = "overdue" THEN {"by aidrs"} ELSE {}
      [] o \in Names -> IF \E x \in Objs : Has(x, w) /\ NameOf(x) = o THEN {"tag"} ELSE {}
      [] OTHER -> {}

InitiallyNamed(n, w) ==
    IF \E x \in Objs : Has(x, w) /\ NameOf(x) = n
    THEN CHOOSE x \in Objs : Has(x, w) /\ NameOf(x) = n ELSE "none"

Crowd(o) == IF o = "B" /\ scen.world = "crowded" THEN 1 ELSE 0     \* a VM of somebody else

Init ==
    /\ scen \in Scenarios
    /\ pieces = [k \in Keys |-> Stands(k, scen.world)]
    /\ points = [n \in Names \cup Hosts |-> InitiallyNamed(n, scen.world)]
    /\ attrs = [o \in Objs |->
           [name |-> NameOf(o),
            vmc  |-> CASE o \in {"V", "h1"} -> "A" [] o = "h2" -> "B" [] OTHER -> "none",
            host |-> IF o = "V" THEN "h1" ELSE "none",
            ai   |-> IF o = "V" /\ scen.world \in {"ai", "vmcrs"} THEN "I" ELSE "none",
            aidrs |-> IF o = "I" /\ scen.world = "overdue" THEN "D" ELSE "none"]]
    /\ nr = [o \in VMCs |-> IF o = "A" /\ Has("V", scen.world) THEN 1 ELSE Crowd(o)]
    /\ state = [o \in Objs \cup {"none"} |-> IF o \in Objs /\ Has(o, scen.world) THEN "attached" ELSE "none"]
    /\ counter = [c \in {"VMC", "VM", "AI", "AIDRS"} \X {"RESERVATIONS", "ARRIVED", "DEPARTED", "FAILED"}
                     |-> Number(c, scen.world)]
    /\ all = "false"
    /\ running = scen.listed
    /\ where = IF Has("V", scen.world) THEN "va" ELSE "none"
    /\ r = [p \in Procs |-> [Fresh EXCEPT !.todo = Program(p, scen.runs[p]),
                              !.is = IF p \in scen.children THEN "waiting"
                                        ELSE IF scen.runs[p].op = "nothing" THEN "succeeded" ELSE "ready"]]
    /\ with = {} /\ faults = 0

(* --------------------------- one instruction --------------------------- *)

Running == {p \in Procs : r[p].is = "running"}
Current(p) == {r[p].todo[k] : k \in {1} \cap DOMAIN r[p].todo}
Key(q, k) ==
    CASE k = "it"              -> q.it
      [] k = "seen"            -> q.seen
      [] k = "its name"        -> q.copy.name
      [] k = "its vmc"         -> q.copy.vmc
      [] k = "its host"        -> q.copy.host
      [] k = "its ai"          -> q.copy.ai
      [] k = "destination"     -> q.dest
      [] k = "destination vmc" -> q.dvmc
      [] OTHER                 -> k
Piece(q, x) == IF x = "undergoing its state" THEN "undergoing " \o q.was ELSE x

Become(p, q) == \E s \in Settle({q}) : r' = [r EXCEPT ![p] = s]
Instruction(p, i, kinds) == p \in Running /\ i \in Current(p) /\ i.do \in kinds

Start(p) ==
    /\ r[p].is = "ready"
    /\ Become(p, [r[p] EXCEPT !.is = "running"])
    /\ with' = with \cup {{p, x} : x \in Running}
    /\ UNCHANGED << scen, store, where, faults >>

(* What is read: a command raises, branches or remembers.                  *)
Outcome(q, i, o) ==
    CASE i.do = "need"   -> IF i.has \cup {"list"} \subseteq pieces[o] THEN Onward(q) ELSE Thrown(q)
      [] i.do = "refuse" -> IF i.val \notin pieces[o] THEN Onward(q) ELSE Thrown(q)
      [] i.do = "if"     -> Go(q, IF i.val \in pieces[o] THEN i.then ELSE i.else)
      [] i.do = "follow" -> IF points[o] = "none" THEN Thrown(q)
                            ELSE [Onward(q) EXCEPT !.seen = points[o]]
      [] i.do = "state"  -> [Onward(q) EXCEPT !.was = state[o]]
      [] i.do = "any"    -> IF \E x \in Typed[o] : "list" \in pieces[x] THEN Onward(q) ELSE Thrown(q)
      [] i.do = "running" ->
           LET n == q.active + Cardinality({e \in running : e[1] \in {"AI", "AIDRS"} /\ e[3] = i.op})
           IN  [Onward(q) EXCEPT !.active = n, !.over = @ \/ n >= Limits.daemon_parallelism]
      [] i.do = "copy"   -> IF i.has \cup {"list"} \subseteq pieces[o]
                            THEN [Onward(q) EXCEPT !.cloud = all] ELSE Thrown(q)
      [] i.do = "get"    ->
           IF Whole \cup {"list"} \subseteq pieces[q.seen]
           THEN [Onward(q) EXCEPT !.it = q.seen,
                                !.copy = [n \in DOMAIN NoAttrs |->
                                    IF n # "nr_vms" THEN attrs[q.seen][n]
                                    ELSE IF q.seen \in VMCs THEN nr[q.seen] ELSE 0]]
           ELSE Thrown(q)
      [] i.do = "get destination" ->
           IF Whole \cup {"list"} \subseteq pieces[q.seen]
           THEN [Onward(q) EXCEPT !.dest = q.seen, !.dvmc = attrs[q.seen].vmc] ELSE Thrown(q)
Reads == {"need", "refuse", "if", "follow", "state", "any", "running", "copy", "get",
          "get destination"}
Read(p) ==
    \E i \in Current(p) :
    /\ Instruction(p, i, Reads)
    /\ Become(p, Outcome(r[p], i, IF i.do \in {"get", "get destination", "running"} THEN "none"
                                  ELSE Key(r[p], i.on)))
    /\ UNCHANGED << scen, store, where, with, faults >>

(* What carries the key of an object.                                      *)
Carry(p) ==
    \E i \in Current(p) :
    /\ Instruction(p, i, {"add", "drop"})
    /\ LET o == Key(r[p], i.on)
       IN  /\ pieces' = [pieces EXCEPT ![o] =
                  IF i.do = "add" THEN @ \cup {Piece(r[p], i.val)}
                  ELSE @ \ {Piece(r[p], x) : x \in i.has}]
           /\ nr' = IF i.do = "drop" /\ "attributes" \in i.has /\ o \in VMCs
                    THEN [nr EXCEPT ![o] = 0] ELSE nr
    /\ Become(p, Onward(r[p]))
    /\ UNCHANGED << scen, points, attrs, state, counter, all, running, where, with, faults >>

(* An attribute: the hash is there, be it for this attribute only.         *)
WriteAttribute(p) ==
    \E i \in Current(p) :
    /\ Instruction(p, i, {"write", "add up"})
    /\ LET o == Key(r[p], i.on)
       IN  /\ pieces' = [pieces EXCEPT ![o] = @ \cup {"attributes"}]
           /\ \/ /\ i.do = "write"
                 /\ attrs' = IF o \in Objs /\ i.field \in DOMAIN NoAttrs
                             THEN [attrs EXCEPT ![o][i.field] = Key(r[p], i.val)] ELSE attrs
                 /\ Become(p, Onward(r[p])) /\ UNCHANGED nr
              \/ /\ i.do = "add up" /\ i.field = "nr_vms"
                 /\ nr' = [nr EXCEPT ![o] = @ + i.by]
                 /\ Become(p, [Onward(r[p]) EXCEPT !.over = nr[o] + i.by > Limits.nr_vms])
                 /\ UNCHANGED attrs
              \/ /\ i.do = "add up" /\ i.field # "nr_vms"
                 /\ Become(p, Onward(r[p])) /\ UNCHANGED << attrs, nr >>
    /\ UNCHANGED << scen, points, state, counter, all, running, where, with, faults >>

PutState(p) ==
    \E i \in Current(p) :
    /\ Instruction(p, i, {"put"})
    /\ state' = [state EXCEPT ![Key(r[p], i.on)] = i.val]
    /\ Become(p, Onward(r[p]))
    /\ UNCHANGED << scen, pieces, points, attrs, nr, counter, all, running, where, with, faults >>

PointTo(p) ==
    \E i \in Current(p) :
    /\ Instruction(p, i, {"point"})
    /\ points' = [points EXCEPT ![Key(r[p], i.on)] = Key(r[p], i.val)]
    /\ Become(p, Onward(r[p]))
    /\ UNCHANGED << scen, pieces, attrs, nr, state, counter, all, running, where, with, faults >>

CountOn(p) ==
    \E i \in Current(p) :
    /\ Instruction(p, i, {"count", "zero"})
    /\ counter' = [counter EXCEPT ![i.counter] = IF i.do = "zero" THEN 0 ELSE @ + i.by]
    /\ Become(p, IF i.counter[2] # "RESERVATIONS" THEN Onward(r[p])
                 ELSE [Onward(r[p]) EXCEPT !.over = counter'[i.counter] > Limits[i.counter[1]]])
    /\ UNCHANGED << scen, pieces, points, attrs, nr, state, all, running, where, with, faults >>

(* The attributes of the cloud, as they were read or changed.              *)
Paste(p) ==
    \E i \in Current(p) :
    /\ Instruction(p, i, {"paste"})
    /\ all' = IF i.val = "as read" THEN r[p].cloud ELSE i.val
    /\ pieces' = [pieces EXCEPT ![Cloud] = @ \cup {"attributes"}]
    /\ Become(p, Onward(r[p]))
    /\ UNCHANGED << scen, points, attrs, nr, state, counter, running, where, with, faults >>

ListProcess(p) ==
    \E i \in Current(p) :
    /\ Instruction(p, i, {"list", "unlist"})
    /\ running' = IF i.do = "list" THEN running \cup {i.entry} ELSE running \ {i.entry}
    /\ Become(p, Onward(r[p]))
    /\ UNCHANGED << scen, pieces, points, attrs, nr, state, counter, all, where, with, faults >>

(* Whether an AIDRS has its max_ais, or all AIs are reserved (AILifecycle),*)
(* or a VMCRS its captures.                                                *)
MayBeFull(p) ==
    \E i \in Current(p) :
    /\ Instruction(p, i, {"perhaps full"})
    /\ \E b \in BOOLEAN : Become(p, [Onward(r[p]) EXCEPT !.over = b])
    /\ UNCHANGED << scen, store, where, with, faults >>

(* ----------------------- the cloud and the processes ------------------- *)

(* vmcregister and vmcunregister delete the instances on their VMC that    *)
(* carry the name of this experiment (CLEANUP_ON_ATTACH, _ON_DETACH).      *)
CloudDoes(p) ==
    \E i \in Current(p) :
    /\ Instruction(p, i, {"cloud"})
    /\ where' = CASE i.op \in {"vmcregister", "vmcunregister", "vmccleanup"} ->
                        IF where = Key(r[p], i.on) THEN "none" ELSE where
                  [] i.op = "vmdestroy" -> "none"
                  [] i.op = "vmmigrate" -> IF where = "none" THEN where ELSE NameOf(r[p].dvmc)
                  [] OTHER -> where
    /\ Become(p, IF i.op = "vmcregister" THEN [Onward(r[p]) EXCEPT !.copy.name = i.on]
                 ELSE Onward(r[p]))
    /\ UNCHANGED << scen, store, with, faults >>
CloudRefuses(p) ==
    \E i \in Current(p) :
    /\ Instruction(p, i, {"cloud"})
    /\ faults < scen.faults /\ faults' = faults + 1
    /\ Become(p, Thrown(r[p]))
    /\ UNCHANGED << scen, store, where, with >>

(* The objects that are listed when the loop begins, in any order.         *)
EachOf(p) ==
    \E i \in Current(p) :
    /\ Instruction(p, i, {"each"})
    /\ \E s \in SetToSeqs({o \in Typed[i.on] : "list" \in pieces[o]}) :
           Become(p, Go(r[p], FlattenSeq([k \in DOMAIN s |->
                                 << [do |-> "listed", on |-> s[k]] >> \o i.then])))
    /\ UNCHANGED << scen, store, where, with, faults >>

ForkOff(p) ==
    \E i \in Current(p) :
    /\ Instruction(p, i, {"fork"})
    /\ \E s \in Settle({[Onward(r[p]) EXCEPT !.children = i.kids]}) :
           r' = [x \in Procs |-> IF x = p THEN s
                                 ELSE IF x \in i.kids THEN [r[x] EXCEPT !.is = "ready"] ELSE r[x]]
    /\ UNCHANGED << scen, store, where, with, faults >>
(* A child that is started when the state of the daemon's object is not    *)
(* "attached" comes late.                                                  *)
SpawnOne(p) ==
    \E i \in Current(p) :
    /\ Instruction(p, i, {"spawn"})
    /\ LET free == {k \in i.kids : r[k].is = "waiting"}
           one  == CHOOSE k \in free : TRUE
       IN  IF free = {} THEN Become(p, Onward(r[p]))
           ELSE \E s \in Settle({Go(r[p], i.for[one])}) :
                r' = [r EXCEPT ![p] = s, ![one].is = "ready",
                               ![one].marks = IF state[i.of] = "attached" THEN {} ELSE {"late"}]
    /\ UNCHANGED << scen, store, where, with, faults >>
Over(p) == r[p].is \in {"succeeded", "failed", "escaped", "died"}
JoinAll(p) ==
    \E i \in Current(p) :
    /\ Instruction(p, i, {"join"})
    /\ \A c \in r[p].children : Over(c)
    /\ Become(p, IF \A c \in r[p].children : r[c].is = "succeeded" THEN Onward(r[p])
                 ELSE [Onward(r[p]) EXCEPT !.marks = @ \cup {"one failed"}])
    /\ UNCHANGED << scen, store, where, with, faults >>

Die(p) ==
    /\ p \in Running
    /\ faults < scen.faults /\ faults' = faults + 1
    /\ r' = [r EXCEPT ![p].todo = << >>, ![p].is = "died"]
    /\ UNCHANGED << scen, store, where, with >>

Instructions(p) ==
    \/ Read(p) \/ Carry(p) \/ WriteAttribute(p) \/ PutState(p) \/ PointTo(p) \/ CountOn(p)
    \/ Paste(p) \/ ListProcess(p) \/ MayBeFull(p) \/ CloudDoes(p) \/ EachOf(p) \/ ForkOff(p)
    \/ JoinAll(p) \/ SpawnOne(p)
Next == \E p \in Procs : Start(p) \/ Instructions(p) \/ CloudRefuses(p) \/ Die(p)

(* Weak fairness of each process: one that can take a step (what it waits  *)
(* for in a join is over) takes one.  It is WF_vars(Start(p) \/            *)
(* Instructions(p)) in terms that TLC evaluates at once; others change     *)
(* r[p] only once or twice, when they start p.                             *)
CanMove(p) ==
    r[p].is = "ready" \/ \E i \in Current(p) :
                            p \in Running /\ (i.do = "join" => \A c \in r[p].children : Over(c))
Moves(p)   == r'[p] # r[p]
Fair(p)    == []<>~CanMove(p) \/ []<><<Moves(p)>>_vars

Spec == Init /\ [][Next]_vars /\ \A p \in Procs : Fair(p)

(* ----------------------------- properties ------------------------------ *)

AtRest == \A p \in Procs : Over(p) \/ r[p].is = "waiting"
Calm   == AtRest /\ \A p \in Procs : r[p].is # "died"

(* What a command deals with, and what of it it makes or takes away.       *)
Touches(p) ==
    LET c == scen.runs[p]
    IN  CASE c.op \in {"vmcattach", "vmcdetach", "vmccleanup"} -> {c.on}
          [] c.op = "migrate"  -> {"va", "vb", "vm"}
          [] c.op = "vmdetach" -> {"va", "vm"}
          [] c.op \in {"vmresize", "vmrunstate"} -> {"vm"}
          [] c.op = "vmcapture"  -> {"va", "vm", "ai"}
          [] c.op = "vm-capture" -> {"va", "vm", "ai", "ad"}
          [] c.op \in {"aidrsattach", "aidrsdetach", "vmcrsattach", "vmcrsdetach", "firsattach",
                       "alterstate", "ai-attach", "ai-detach"} -> {c.on}
          [] c.op \in {"cldattach", "clddetach"} -> Names
          [] OTHER -> {}
Takes(p) ==
    LET c == scen.runs[p]
    IN  CASE c.op \in {"vmcattach", "vmcdetach", "vmdetach", "aidrsattach", "aidrsdetach",
                       "vmcrsattach", "vmcrsdetach", "firsattach", "ai-attach", "ai-detach"} -> {c.on}
          [] c.op \in {"vmcapture", "vm-capture"} -> {"vm", "ai"}
          [] c.op = "clddetach" -> Names
          [] OTHER -> {}

(* Two commands, one of each kind, ran at the same time.                   *)
Met(ops, others) ==
    \E p, q \in Procs : /\ p # q /\ {p, q} \in with
                        /\ scen.runs[p].op \in ops /\ scen.runs[q].op \in others

(* What one command makes or takes away while another is at it: nothing    *)
(* here is made for that, and parts of it may stay behind.  A detachment   *)
(* of a VM fails when its VMC is detached meanwhile, and leaves a part of  *)
(* the VM.                                                                 *)
Contested ==
    UNION {Takes(p) \cap Touches(q) : << p, q >> \in
               {x \in Procs \X Procs : x[1] # x[2] /\ {x[1], x[2]} \in with}}
    \cup (IF Met({"vmcdetach"}, {"vmdetach"}) THEN {"vm"} ELSE {})

(* The name of an object, and of a host that of its VMC.                   *)
Called(o) ==
    IF o \in Procs THEN scen.runs[o].on
    ELSE IF o \in Hosts THEN CHOOSE n \in Names : n \in DOMAIN HostsOf /\ Contains(HostsOf[n], o)
    ELSE NameOf(o)

Ran(op) == \E p \in Procs : scen.runs[p].op = op /\ r[p].is \notin {"ready", "waiting"}
Forced  == \E p \in Procs : scen.runs[p].op = "vmcdetach" /\ scen.runs[p].force

Listed(o)   == "list" \in pieces[o]
Remnants    == {"pending attributes", "undergoing migrate"}
WholeObj(o) ==
    /\ Whole \cup {"list", "views"} \subseteq pieces[o] /\ state[o] # "none"
    /\ "tag" \in pieces[attrs[o].name] /\ points[attrs[o].name] = o
GoneObj(o) ==
    /\ pieces[o] \ Remnants = {} /\ state[o] = "none"
    /\ \A n \in DOMAIN points : points[n] # o

(* Whoever finds an object by its name finds all its attributes, at every  *)
(* moment and whoever has died: an object gets its name after its          *)
(* attributes, and leaves the list before it loses them (create_object,    *)
(* destroy_object).  Hosts are left out: two attachments of one VMC create *)
(* the same hosts.                                                         *)
FoundIsWhole ==
    \A n \in Names :
        "tag" \in pieces[n] /\ points[n] # "none" /\ Listed(points[n])
            => Whole \subseteq pieces[points[n]]

(* When the commands are over, no object is half there, a host has its VMC *)
(* and a VMC its hosts, whatever the cloud refused and whatever ran at the *)
(* same time; but for the very objects that one command took away while    *)
(* another was at them (see README).                                       *)
WholeAtRest ==
    Calm => \A o \in {x \in Objs : Called(x) \notin Contested} :
        /\ WholeObj(o) \/ GoneObj(o)
        /\ o \in Hosts /\ Listed(o) => Listed(attrs[o].vmc)
        /\ o \in VMCs /\ Listed(o) => \A h \in {HostsOf[attrs[o].name][k] :
                                            k \in DOMAIN HostsOf[attrs[o].name]} : Listed(h)

(* RESERVATIONS and nr_vms are the number of VMCs and of VMs that there    *)
(* are: of those VMCs at least whose attachment went to its end, even when *)
(* two commands attach the same VMC.  Detaching it twice at the same time  *)
(* is counted twice, cldattach may set back to zero what a command has     *)
(* counted, and an exception in the cleanup loses a count.  A migration    *)
(* that a full VMC refuses leaves one too many there (admission_control    *)
(* has no way back), and a VM whose VMC was detached by force can neither  *)
(* be detached nor counted; nor one that is migrated, or detached again,   *)
(* or the VMC of which is detached, while it is detached itself.           *)
Refused(x) == \E p \in Procs : scen.runs[p].op = "migrate" /\ r[p].over /\ r[p].dvmc = x
DetachedTwice == Cardinality({p \in Procs : scen.runs[p].op = "vmcdetach"}) = 2
CountsAddUp ==
    Calm /\ Listed(Cloud) =>
        /\ ~DetachedTwice /\ ~Ran("cldattach") /\ (\A p \in Procs : r[p].is # "escaped") =>
              counter[<< "VMC", "RESERVATIONS" >>] = Cardinality({x \in VMCs : state[x] = "attached"})
        /\ ~Ran("cldattach") =>
              counter[<< "AIDRS", "RESERVATIONS" >>] = Cardinality({"D"} \cap {o \in Objs : Listed(o)})
        /\ ~Forced /\ ~Met({"vmdetach"}, {"vmdetach", "migrate", "vmcdetach"}) =>
              /\ counter[<< "VM", "RESERVATIONS" >>] = Cardinality({"V"} \cap {o \in Objs : Listed(o)})
              /\ \A x \in {y \in VMCs : Listed(y)} :
                    nr[x] = (IF Listed("V") /\ attrs["V"].vmc = x THEN 1 ELSE 0)
                            + Crowd(x) + (IF Refused(x) THEN 1 ELSE 0)

(* A VM of the store has its VMC in the store and its instance there in    *)
(* the cloud, unless the instances were cleaned up or the VMC was detached *)
(* by force: a VMC with VMs is not detached (pre_detach_vmc), and migrate  *)
(* writes what the driver did.  A vmcdetach asks for the VMs before it     *)
(* begins: one that arrives, or is detached, meanwhile is not seen.        *)
VmIsWhereItSays ==
    /\ Calm /\ ~Ran("vmccleanup") /\ ~Forced /\ ~Met({"vmcdetach"}, {"vmdetach", "migrate"})
    /\ Listed(Cloud) /\ Listed("V")
    => Listed(attrs["V"].vmc) /\ where = NameOf(attrs["V"].vmc)

(* When the commands are over, nothing is PENDING but an object that was   *)
(* contested, a VM that was migrated while a VMC was detached, and an AI   *)
(* the airunstate of which failed: what the cloud refuses, and what is not *)
(* found, leaves no entry.                                                 *)
NothingPending ==
    Calm => \A o \in Objs :
        pieces[o] \cap {"pending", "pending status"} # {} =>
            \/ Called(o) \in Contested
            \/ o = "V" /\ Met({"vmcdetach"}, {"migrate"})
            \/ \E p \in Procs : scen.runs[p].op = "airunstate" /\ r[p].is = "failed" /\ o = "I"

(* A cloud that is detached leaves nothing in the store but two kinds of   *)
(* remnant, what another command was at, and attributes of the cloud that  *)
(* another command wrote back (vmrunstate here): the cloud itself does not *)
(* come back, nor do the counters.                                         *)
WrittenBack == IF with # {} THEN {"attributes"} ELSE {}
CleanAfterDetach ==
    Calm /\ faults = 0 /\ ~Listed(Cloud) =>
        /\ pieces[Cloud] \subseteq WrittenBack
        /\ \A k \in Keys \ (Contested \cup {Cloud}) :
               (k \in Objs => Called(k) \notin Contested) => pieces[k] \subseteq Remnants
        /\ \A o \in Objs \cap DOMAIN state : Called(o) \notin Contested => state[o] = "none"
        /\ \A c \in {"VMC", "VM"} : counter[<< c, "RESERVATIONS" >>] = 0

(* A VM or an AI is in the list of those that are resized, suspended or    *)
(* captured just when its state says so, whatever failed and whatever ran  *)
(* at the same time; but a vmrunstate writes its list and its state apart  *)
(* from other commands that do.  An airunstate only sets the state of its  *)
(* AI, and a resized VM that is suspended stays in the list as well.  A    *)
(* migration that is over leaves the VM attached, unless the VM or a VMC   *)
(* was detached meanwhile.                                                 *)
StatesSettle ==
    /\ Calm /\ ~(Ran("vmresize") /\ Ran("vmrunstate"))
    /\ ~Met({"vmrunstate"}, {"vmrunstate", "vmdetach", "clddetach"})
    => /\ \A s \in {"resize", "suspend", "capture"} :
              /\ ("undergoing " \o s) \in pieces["V"] <=> state["V"] = s
              /\ ("undergoing " \o s) \in pieces["I"] => state["I"] = s
       /\ state["V"] = "migrate" => Met({"migrate"}, {"vmdetach", "vmcdetach"})

(* --------------------------- of the daemons ---------------------------- *)

Role(p) == IF scen.runs[p].op = "daemon" THEN scen.runs[p].to ELSE "none"

(* The AIs that an AIDRS attaches at the same time are never more than its *)
(* daemon_parallelism: aidsubmit puts each into running_processes before   *)
(* it counts again, and each takes itself out when it is over.             *)
ParallelismKept ==
    Cardinality({p \in Procs : scen.runs[p].op = "ai-attach" /\ r[p].is \in {"ready", "running"}})
        <= Limits.daemon_parallelism

(* A daemon starts at most one command after its AIDRS was told to stop or *)
(* has gone (the one that it had decided on): pre_detach_aidrs sets the    *)
(* state, and relies on the daemon to see it.                              *)
StopsInTime == Cardinality({p \in Procs : "late" \in r[p].marks}) <= 1

(* A daemon ends once its object is gone, and only then, but for aidremove *)
(* and vmcrsubmit, which end also when the AI that they have found is gone *)
(* when they look at it.                                                   *)
DaemonsLast ==
    /\ [](\A p \in Procs : Role(p) \in {"submit", "remove", "capture"} /\ Over(p) /\ r[p].is # "died"
             => ~Listed("D") \/ (Role(p) # "submit" /\ ~Listed("I")))
    /\ \A p \in Procs : Role(p) # "none" /\ r[p].is = "running" /\ ~Listed("D") ~> Over(p)

(* An AI whose lifetime is over is detached, and when the process that is  *)
(* to detach it dies, another is started, as long as it is in the view of  *)
(* its AIDRS; what fails after that is not tried again.                    *)
OverdueGoes ==
    "by aidrs" \in pieces["I"] /\ (\E p \in Procs : Role(p) = "remove" /\ r[p].is = "running")
        ~> \/ "by aidrs" \notin pieces["I"] \/ ~Listed("D")
           \/ \E p \in Procs : Role(p) = "remove" /\ r[p].is = "died"
=============================================================================
