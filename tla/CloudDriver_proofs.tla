-------------------------- MODULE CloudDriver_proofs --------------------------
(***************************************************************************)
(* Proofs about CloudDriver.tla: what a test has made sure of, what an     *)
(* undo, a detach and a cleanup leave behind, why a detach may fail, what  *)
(* a run state has told the instance, and what a capture gives up, for     *)
(* every set of drivers, every number of failing calls and every number of *)
(* attempts.                                                               *)
(*                                                                         *)
(* The programs of the drivers are read once.  First they are sorted: what *)
(* a program of each kind may contain (Permits), and that every driver's   *)
(* programs do contain no more (the lemmas ...Fit).  Then, for what must   *)
(* happen, that the instruction that does it lies ahead (Teaches, CanDrop, *)
(* ...): the program it starts with has it, and a step of the program      *)
(* leaves it ahead or has done it.                                         *)
(***************************************************************************)
EXTENDS CloudDriver, TLAPS

(* ------------------------ sequences of instructions -------------------- *)

IsSeq(p) == p \in Seq({p[k] : k \in DOMAIN p})

(* What is a sequence of something is a sequence of its own elements.      *)
LEMMA SeqOfItsOwn == ASSUME NEW S, NEW s \in Seq(S) PROVE IsSeq(s)
  BY DEF IsSeq

(* Its first instruction done, the others move up by one.                  *)
LEMMA TailOfSeq ==
  ASSUME NEW S, NEW s \in Seq(S), s # << >>
  PROVE  /\ Tail(s) \in Seq(S)
         /\ Len(Tail(s)) = Len(s) - 1
         /\ \A k \in 1..Len(s) - 1 : Tail(s)[k] = s[k+1]
  OBVIOUS

(* The same of a program that is known to be a sequence only.              *)
LEMMA TailIs ==
  ASSUME NEW s, IsSeq(s), s # << >>
  PROVE  /\ IsSeq(Tail(s))
         /\ Len(s) \in Nat \ {0} /\ DOMAIN s = 1..Len(s)
         /\ DOMAIN Tail(s) = 1..Len(s) - 1
         /\ \A k \in 1..Len(s) - 1 : Tail(s)[k] = s[k+1]
<1> DEFINE S == {s[k] : k \in DOMAIN s}
<1>1. s \in Seq(S)
  BY DEF IsSeq
<1> HIDE DEF S
<1>2. Len(s) \in Nat /\ DOMAIN s = 1..Len(s) /\ Len(s) # 0
  BY <1>1
<1>3. DOMAIN Tail(s) = 1..Len(Tail(s))
  BY <1>1, TailOfSeq
<1> QED
  BY <1>1, <1>2, <1>3, TailOfSeq, SeqOfItsOwn

(* An element of a sequence of S is in S.                                  *)
LEMMA ElementOf == ASSUME NEW S, NEW s \in Seq(S), NEW k \in DOMAIN s PROVE s[k] \in S
  OBVIOUS

(* ------------------- what the programs of a kind contain ---------------- *)

IsInstr(i) ==
    \E do, on, by, err, when :
        i = [do |-> do, on |-> on, by |-> by, err |-> err, when |-> when]

(* The things that vmcreate of driver d makes, and of which things it      *)
(* stores the ids (or, simulated, the host; or what a later operation asks *)
(* for).                                                                   *)
Owned(d) ==
    {r \in {"instance"} : d \notin {"nop", "sim"}}
    \cup {r \in {"volume"} : d \in {"osk", "ec2", "gce", "pdm", "plm", "lc"}}
    \cup {r \in {"boot volume"} : d = "plm"}
    \cup {r \in {"address"} : d \in {"osk", "as"}}
    \cup {r \in {"nic"} : d = "as"}
    \cup {r \in {"ports"} : d = "pcm"}
    \cup {r \in {"controller", "service"} : d = "kub"}
Known(d) ==
    {r \in {"instance"} : d \in {"ec2", "slr", "ntnx"}}
    \cup {r \in {"volume"} : d \in {"osk", "ec2", "pdm", "plm", "lc"}}
    \cup {r \in {"boot volume"} : d = "plm"}
    \cup {r \in Capacity : d = "sim"}
    \cup {r \in {"credentials_list"} : d \in {"lc", "as"}}

(* A lookup that sees the thing if it exists: by name for all but EC2, by  *)
(* id where vmcreate stores it.                                            *)
Findable(d, i) == \/ i.by = "name" /\ d # "ec2"
                  \/ i.by = "uuid" /\ i.on \in Known(d)

(* vmcreate: no condition, nothing made but what the driver owns, and an   *)
(* error over a thing whose id is stored ends it.                          *)
Teaching == Makes \cup {"tag", "learn", "forget"}
Builds(d, i) ==
    /\ i.when = {}
    /\ i.do \in {"call", "running", "take"} \cup Teaching
    /\ i.do \in Makes => i.on \in Owned(d)
    /\ i.do = "make bare" => d = "ec2"
    /\ i.do = "take" => d = "sim" /\ i.on \in Capacity /\ i.err = {"raise"}
    /\ i.do = "forget" => i.on \in Capacity
    /\ i.do \in Teaching /\ i.on \in Known(d) => "skip" \notin i.err
(* vmdestroy: nothing is made, nothing of another is deleted, and three    *)
(* drivers only ask for a thing that may have gone already.                *)
Removes(d, i) ==
    /\ i.do \in {"call", "find", "turn", "await", "give", "need id", "need found"} \cup Drops
    /\ i.do = "find" => i.on = "instance" /\ Findable(d, i)
    /\ i.do = "give" => d = "sim" /\ i.on \in Capacity /\ "skip" \notin i.err
    /\ i.do = "need id" => i.on \in {"instance", "credentials_list"} /\ i.on \in Known(d)
    /\ i.do = "need found" => d = "ntnx"
    /\ i.do = "drop or raise" => d = "plm" /\ i.on # "instance"
    /\ i.do \in Drops /\ i.on = "volume of another" => d = "csk"
(* vmrunstate, vmcapture, and vmcregister with its cleanup.                *)
Switches(d, i) ==
    /\ i.do \in {"call", "find", "need id", "need found", "turn", "impossible"}
    /\ i.do = "need id" => i.on \in Known(d)
    /\ i.do = "find" => i.on = "instance" /\ Findable(d, i)
Copies(d, i) ==
    /\ i.do \in {"call", "find", "need id", "need found", "turn", "impossible", "make"} \cup Drops
    /\ i.do = "need id" => i.on \in Known(d)
    /\ i.do = "make" => i.on \in {"image", "image name"}
    /\ i.do \in Drops => d = "gce" /\ i.on = "instance"
Sweeps(d, i) ==
    /\ i.do \in {"call", "find", "turn", "await", "impossible"} \cup Drops
    /\ i.do = "find" => i.on = "instance" /\ i.by = "name"
    /\ i.do \in Drops /\ i.on = "volume of another" => d = "csk"

(* test_vmc_connection, where it is not beyond doing anything.             *)
Tests(i) == i.do \in {"call", "check", "learn", "forget", "need id", "make", "make named"}

(* Whatever the program, it turns the instance nowhere but to w (kind      *)
(* "power"), does not lose the id of thing r (kind "keep"), or tests but   *)
(* takes r not for granted (kind "look"), with w or r in the place of the  *)
(* driver.                                                                 *)
Turns(w, i) == i.do = "turn" => i.on = w /\ i.by = "name"
Grants(r, i) == i.do = "learn" /\ i.on = r
Unlearns(r, i) == i.on = r /\ i.do \in {"make named", "make bare", "forget"}

Kinds == {"build", "remove", "switch", "copy", "sweep", "power", "keep"}
Permits(kind, d, i) ==
    /\ IsInstr(i)
    /\ kind = "build" => Builds(d, i)
    /\ kind = "remove" => Removes(d, i)
    /\ kind = "switch" => Switches(d, i)
    /\ kind = "copy" => Copies(d, i)
    /\ kind = "sweep" => Sweeps(d, i)
    /\ kind = "power" => Turns(d, i)
    /\ kind = "keep" => ~Unlearns(d, i)
    /\ kind \in {"test", "look"} => Tests(i)
    /\ kind = "look" => ~Grants(d, i)
Fits(kind, d, p) == IsSeq(p) /\ \A k \in DOMAIN p : Permits(kind, d, p[k])

(* ---------------- programs are put together from pieces ----------------- *)

LEMMA FitsSeq ==
  ASSUME NEW S, NEW s \in Seq(S), NEW kind, NEW d, \A i \in S : Permits(kind, d, i)
  PROVE  Fits(kind, d, s)
  BY SeqOfItsOwn, ElementOf DEF Fits

(* One program after the other.                                            *)
LEMMA FitsConcat ==
  ASSUME NEW kind, NEW d, NEW s, NEW t, Fits(kind, d, s), Fits(kind, d, t)
  PROVE  Fits(kind, d, s \o t)
<1> DEFINE S == {s[k] : k \in DOMAIN s} \cup {t[k] : k \in DOMAIN t}
<1>1. s \in Seq(S) /\ t \in Seq(S) /\ \A i \in S : Permits(kind, d, i)
  BY DEF IsSeq, Fits
<1> HIDE DEF S
<1>2. s \o t \in Seq(S)
  BY <1>1
<1> QED
  BY <1>1, <1>2, FitsSeq

(* A condition changes nothing else of an instruction.                     *)
LEMMA UnderIs ==
  ASSUME NEW c, NEW a, NEW b, NEW e, NEW f, NEW w
  PROVE  Under(c, [do |-> a, on |-> b, by |-> e, err |-> f, when |-> w])
         = [do |-> a, on |-> b, by |-> e, err |-> f, when |-> w \cup {c}]
  BY DEF Under

(* The same, for whatever instruction it is put to.                        *)
LEMMA UnderKeeps ==
  ASSUME NEW c, NEW i, IsInstr(i)
  PROVE  /\ IsInstr(Under(c, i))
         /\ Under(c, i).do = i.do /\ Under(c, i).on = i.on /\ Under(c, i).by = i.by
         /\ Under(c, i).err = i.err /\ Under(c, i).when = i.when \cup {c}
<1>1. PICK a, b, e, f, w : i = [do |-> a, on |-> b, by |-> e, err |-> f, when |-> w]
  BY DEF IsInstr
<1>2. Under(c, i) = [do |-> a, on |-> b, by |-> e, err |-> f, when |-> w \cup {c}]
  BY <1>1, UnderIs
<1>3. IsInstr(Under(c, i))
  BY <1>2 DEF IsInstr
<1> QED
  BY <1>1, <1>2, <1>3

(* Instr makes instructions.                                               *)
LEMMA AreInstr == ASSUME NEW a, NEW b, NEW e, NEW f PROVE IsInstr(Instr(a, b, e, f))
  BY DEF IsInstr, Instr

(* The conditional part of a program.                                      *)
LEMMA UnderPermits ==
  ASSUME NEW c, NEW i, NEW kind, NEW d, kind # "build", Permits(kind, d, i)
  PROVE  Permits(kind, d, Under(c, i))
<1>1. IsInstr(i)
  BY DEF Permits
<1>2. Under(c, i).do = i.do /\ Under(c, i).on = i.on /\ Under(c, i).by = i.by
      /\ Under(c, i).err = i.err
  BY <1>1, UnderKeeps
<1>3. IsInstr(Under(c, i))
  BY <1>1, UnderKeeps
<1>4. kind = "remove" => Removes(d, Under(c, i))
  BY <1>2 DEF Permits, Removes, Findable
<1>5. kind = "switch" => Switches(d, Under(c, i))
  BY <1>2 DEF Permits, Switches, Findable
<1>6. kind = "copy" => Copies(d, Under(c, i))
  BY <1>2 DEF Permits, Copies
<1>7. kind = "sweep" => Sweeps(d, Under(c, i))
  BY <1>2 DEF Permits, Sweeps
<1>8. kind = "keep" => ~Unlearns(d, Under(c, i))
  BY <1>2 DEF Permits, Unlearns
<1>9. kind = "power" => Turns(d, Under(c, i))
  BY <1>2 DEF Permits, Turns
<1>10. /\ kind \in {"test", "look"} => Tests(Under(c, i))
       /\ kind = "look" => ~Grants(d, Under(c, i))
  BY <1>2 DEF Permits, Tests, Grants
<1> QED
  BY <1>3, <1>4, <1>5, <1>6, <1>7, <1>8, <1>9, <1>10 DEF Permits

(* A conditional part fits where the part fits.                            *)
LEMMA IfFits ==
  ASSUME NEW c, NEW s, NEW kind, NEW d, kind # "build", Fits(kind, d, s)
  PROVE  Fits(kind, d, If(c, s))
  BY UnderPermits DEF Fits, If, IsSeq

(* A program that is written down: one lemma for each length.              *)
LEMMA List0 == ASSUME NEW kind, NEW d PROVE Fits(kind, d, << >>)
  BY DEF Fits, IsSeq

(* A program of one instruction.                                           *)
LEMMA List1 ==
  ASSUME NEW kind, NEW d, NEW a,
         Permits(kind, d, a)
  PROVE  Fits(kind, d, << a >>)
<1> DEFINE S == {a}
<1>1. << a >> \in Seq(S)
  OBVIOUS
<1>2. \A x \in S : Permits(kind, d, x)
  OBVIOUS
<1> HIDE DEF S
<1> QED
  BY <1>1, <1>2, FitsSeq

(* A program of two instructions.                                          *)
LEMMA List2 ==
  ASSUME NEW kind, NEW d, NEW a, NEW b,
         Permits(kind, d, a), Permits(kind, d, b)
  PROVE  Fits(kind, d, << a, b >>)
<1> DEFINE S == {a, b}
<1>1. << a, b >> \in Seq(S)
  OBVIOUS
<1>2. \A x \in S : Permits(kind, d, x)
  OBVIOUS
<1> HIDE DEF S
<1> QED
  BY <1>1, <1>2, FitsSeq

(* A program of three instructions.                                        *)
LEMMA List3 ==
  ASSUME NEW kind, NEW d, NEW a, NEW b, NEW c,
         Permits(kind, d, a), Permits(kind, d, b), Permits(kind, d, c)
  PROVE  Fits(kind, d, << a, b, c >>)
<1> DEFINE S == {a, b, c}
<1>1. << a, b, c >> \in Seq(S)
  OBVIOUS
<1>2. \A x \in S : Permits(kind, d, x)
  OBVIOUS
<1> HIDE DEF S
<1> QED
  BY <1>1, <1>2, FitsSeq

(* A program of four instructions.                                         *)
LEMMA List4 ==
  ASSUME NEW kind, NEW d, NEW a, NEW b, NEW c, NEW e,
         Permits(kind, d, a), Permits(kind, d, b), Permits(kind, d,
         c), Permits(kind, d, e)
  PROVE  Fits(kind, d, << a, b, c, e >>)
<1> DEFINE S == {a, b, c, e}
<1>1. << a, b, c, e >> \in Seq(S)
  OBVIOUS
<1>2. \A x \in S : Permits(kind, d, x)
  OBVIOUS
<1> HIDE DEF S
<1> QED
  BY <1>1, <1>2, FitsSeq

(* A program of five instructions.                                         *)
LEMMA List5 ==
  ASSUME NEW kind, NEW d, NEW a, NEW b, NEW c, NEW e, NEW f,
         Permits(kind, d, a), Permits(kind, d, b), Permits(kind, d,
         c), Permits(kind, d, e), Permits(kind, d, f)
  PROVE  Fits(kind, d, << a, b, c, e, f >>)
<1> DEFINE S == {a, b, c, e, f}
<1>1. << a, b, c, e, f >> \in Seq(S)
  OBVIOUS
<1>2. \A x \in S : Permits(kind, d, x)
  OBVIOUS
<1> HIDE DEF S
<1> QED
  BY <1>1, <1>2, FitsSeq

(* A program of six instructions.                                          *)
LEMMA List6 ==
  ASSUME NEW kind, NEW d, NEW a, NEW b, NEW c, NEW e, NEW f, NEW g,
         Permits(kind, d, a), Permits(kind, d, b), Permits(kind, d,
         c), Permits(kind, d, e), Permits(kind, d, f), Permits(kind,
         d, g)
  PROVE  Fits(kind, d, << a, b, c, e, f, g >>)
<1> DEFINE S == {a, b, c, e, f, g}
<1>1. << a, b, c, e, f, g >> \in Seq(S)
  OBVIOUS
<1>2. \A x \in S : Permits(kind, d, x)
  OBVIOUS
<1> HIDE DEF S
<1> QED
  BY <1>1, <1>2, FitsSeq

(* A program of seven instructions.                                        *)
LEMMA List7 ==
  ASSUME NEW kind, NEW d, NEW a, NEW b, NEW c, NEW e, NEW f, NEW g, NEW h,
         Permits(kind, d, a), Permits(kind, d, b), Permits(kind, d,
         c), Permits(kind, d, e), Permits(kind, d, f), Permits(kind,
         d, g), Permits(kind, d, h)
  PROVE  Fits(kind, d, << a, b, c, e, f, g, h >>)
<1> DEFINE S == {a, b, c, e, f, g, h}
<1>1. << a, b, c, e, f, g, h >> \in Seq(S)
  OBVIOUS
<1>2. \A x \in S : Permits(kind, d, x)
  OBVIOUS
<1> HIDE DEF S
<1> QED
  BY <1>1, <1>2, FitsSeq

(* A program of eight instructions.                                        *)
LEMMA List8 ==
  ASSUME NEW kind, NEW d, NEW a, NEW b, NEW c, NEW e, NEW f, NEW g, NEW h, NEW i,
         Permits(kind, d, a), Permits(kind, d, b), Permits(kind, d,
         c), Permits(kind, d, e), Permits(kind, d, f), Permits(kind,
         d, g), Permits(kind, d, h), Permits(kind, d, i)
  PROVE  Fits(kind, d, << a, b, c, e, f, g, h, i >>)
<1> DEFINE S == {a, b, c, e, f, g, h, i}
<1>1. << a, b, c, e, f, g, h, i >> \in Seq(S)
  OBVIOUS
<1>2. \A x \in S : Permits(kind, d, x)
  OBVIOUS
<1> HIDE DEF S
<1> QED
  BY <1>1, <1>2, FitsSeq

(* A program of nine instructions.                                         *)
LEMMA List9 ==
  ASSUME NEW kind, NEW d, NEW a, NEW b, NEW c, NEW e, NEW f, NEW g, NEW h, NEW i, NEW j,
         Permits(kind, d, a), Permits(kind, d, b), Permits(kind, d,
         c), Permits(kind, d, e), Permits(kind, d, f), Permits(kind,
         d, g), Permits(kind, d, h), Permits(kind, d, i),
         Permits(kind, d, j)
  PROVE  Fits(kind, d, << a, b, c, e, f, g, h, i, j >>)
<1> DEFINE S == {a, b, c, e, f, g, h, i, j}
<1>1. << a, b, c, e, f, g, h, i, j >> \in Seq(S)
  OBVIOUS
<1>2. \A x \in S : Permits(kind, d, x)
  OBVIOUS
<1> HIDE DEF S
<1> QED
  BY <1>1, <1>2, FitsSeq

(* ------------------- which instructions are permitted ------------------- *)

(* A question to the cloud may be asked anywhere.                          *)
LEMMA CallsPermitted ==
  ASSUME NEW kind \in Kinds, NEW d
  PROVE  \A x : /\ Permits(kind, d, Call(x)) /\ Permits(kind, d, Poll(x))
                /\ Permits(kind, d, Ask(x))
                /\ \A e : Permits(kind, d, Instr("call", x, "name", e))
<1> TAKE x
<1>1. /\ IsInstr(Call(x)) /\ IsInstr(Poll(x)) /\ IsInstr(Ask(x))
      /\ \A e : IsInstr(Instr("call", x, "name", e))
  BY AreInstr DEF Call, Poll, Ask
<1> QED
  BY <1>1 DEF Permits, Call, Poll, Ask, Instr, Builds, Removes, Switches, Copies, Sweeps,
              Turns, Drops, Makes, Teaching, Unlearns, Tests, Grants

(* The same, of no driver's but of a thing's program.                      *)
LEMMA CallsKept ==
  ASSUME NEW r
  PROVE  \A x : /\ Permits("keep", r, Call(x)) /\ Permits("keep", r, Poll(x))
                /\ Permits("keep", r, Ask(x))
                /\ \A e : Permits("keep", r, Instr("call", x, "name", e))
  BY CallsPermitted DEF Kinds

(* What vmcreate may do.                                                   *)
LEMMA BuildersPermitted ==
  ASSUME NEW d
  PROVE  /\ \A by, e : Permits("build", d, Running(by, e))
         /\ \A r \in Owned(d) : /\ Permits("build", d, Make(r))
                                /\ Permits("build", d, MakeNamed(r))
                                /\ d = "ec2" => Permits("build", d, MakeBare(r))
         /\ \A r : Permits("build", d, Tag(r)) /\ Permits("build", d, Learn(r))
         /\ \A r \in Capacity : Permits("build", d, Forget(r))
         /\ \A r \in Owned(d) \ Known(d) : \A e : Permits("build", d, Instr("make", r, "name", e))
         /\ \A r \in Capacity : d = "sim" => Permits("build", d, Take(r))
<1>1. \A r, by, e : /\ IsInstr(Running(by, e)) /\ IsInstr(Make(r)) /\ IsInstr(MakeNamed(r))
                    /\ IsInstr(MakeBare(r)) /\ IsInstr(Tag(r)) /\ IsInstr(Learn(r))
                    /\ IsInstr(Forget(r)) /\ IsInstr(Take(r))
                    /\ IsInstr(Instr("make", r, "name", e))
  BY AreInstr DEF Running, Make, MakeNamed, MakeBare, Tag, Learn, Forget, Take
<1>2. \A by, e : Permits("build", d, Running(by, e))
  BY <1>1 DEF Permits, Builds, Running, Instr, Makes, Teaching
<1>3. \A r \in Owned(d) : /\ Permits("build", d, Make(r)) /\ Permits("build", d, MakeNamed(r))
                          /\ d = "ec2" => Permits("build", d, MakeBare(r))
  BY <1>1 DEF Permits, Builds, Make, MakeNamed, MakeBare, Instr, Makes, Teaching
<1>4. /\ \A r : Permits("build", d, Tag(r)) /\ Permits("build", d, Learn(r))
      /\ \A r \in Capacity : Permits("build", d, Forget(r))
  BY <1>1 DEF Permits, Builds, Tag, Learn, Forget, Instr, Makes, Teaching
<1>5. \A r \in Capacity : d = "sim" => Permits("build", d, Take(r))
  BY <1>1 DEF Permits, Builds, Take, Instr, Makes, Teaching
<1>6. \A r \in Owned(d) \ Known(d) : \A e : Permits("build", d, Instr("make", r, "name", e))
  BY <1>1 DEF Permits, Builds, Instr, Makes, Teaching
<1> QED
  BY <1>2, <1>3, <1>4, <1>5, <1>6

(* What vmdestroy may do.                                                  *)
LEMMA RemoversPermitted ==
  ASSUME NEW d
  PROVE  /\ \A e : /\ d # "ec2" => Permits("remove", d, Find("name", e))
                   /\ "instance" \in Known(d) => Permits("remove", d, Find("uuid", e))
                   /\ Permits("remove", d, Await(e))
         /\ \A r, e : /\ Permits("remove", d, Turn(r, e))
                      /\ \A by : r # "volume of another" => Permits("remove", d, Drop(r, by, e))
         /\ d = "csk" => \A r, by, e : Permits("remove", d, Drop(r, by, e))
         /\ d = "plm" => /\ Permits("remove", d, DropOrRaise("boot volume"))
                         /\ Permits("remove", d, DropOrRaise("volume"))
         /\ "instance" \in Known(d) => Permits("remove", d, NeedId)
         /\ "credentials_list" \in Known(d) => Permits("remove", d, Insist("credentials_list"))
         /\ d = "ntnx" => Permits("remove", d, NeedFound)
         /\ \A r \in Capacity : d = "sim" => Permits("remove", d, Give(r))
<1>1. \A r, by, e : /\ IsInstr(Find(by, e)) /\ IsInstr(Await(e)) /\ IsInstr(Drop(r, by, e))
                    /\ IsInstr(Turn(r, e)) /\ IsInstr(DropOrRaise(r)) /\ IsInstr(NeedId)
                    /\ IsInstr(NeedFound) /\ IsInstr(Give(r)) /\ IsInstr(Insist(r))
  BY AreInstr DEF Find, Await, Drop, Turn, DropOrRaise, NeedId, NeedFound, Give, Insist
<1>2. \A e : /\ d # "ec2" => Permits("remove", d, Find("name", e))
             /\ "instance" \in Known(d) => Permits("remove", d, Find("uuid", e))
             /\ Permits("remove", d, Await(e))
  BY <1>1 DEF Permits, Removes, Find, Await, Instr, Drops, Findable
<1>3. \A r, by, e : /\ Permits("remove", d, Turn(r, e))
                    /\ r # "volume of another" \/ d = "csk" =>
                         Permits("remove", d, Drop(r, by, e))
  <2> TAKE r, by, e
  <2>1. ASSUME r # "volume of another" \/ d = "csk" PROVE Permits("remove", d, Drop(r, by, e))
    BY <1>1, <2>1 DEF Permits, Removes, Drop, Instr, Drops
  <2>2. Permits("remove", d, Turn(r, e))
    BY <1>1 DEF Permits, Removes, Turn, Instr, Drops
  <2> QED
    BY <2>1, <2>2
<1>4. d = "plm" => /\ Permits("remove", d, DropOrRaise("boot volume"))
                   /\ Permits("remove", d, DropOrRaise("volume"))
  BY <1>1 DEF Permits, Removes, DropOrRaise, Instr, Drops
<1>5. /\ "instance" \in Known(d) => Permits("remove", d, NeedId)
      /\ "credentials_list" \in Known(d) => Permits("remove", d, Insist("credentials_list"))
      /\ d = "ntnx" => Permits("remove", d, NeedFound)
  BY <1>1 DEF Permits, Removes, NeedId, NeedFound, Insist, Instr, Drops
<1>6. \A r \in Capacity : d = "sim" => Permits("remove", d, Give(r))
  BY <1>1 DEF Permits, Removes, Give, Instr, Drops
<1> QED
  BY <1>2, <1>3, <1>4, <1>5, <1>6

(* What vmrunstate, vmcapture and vmcregister may do.                      *)
LEMMA OthersPermitted ==
  ASSUME NEW d
  PROVE  /\ \A kind \in {"switch", "copy"} :
              /\ \A e : /\ d # "ec2" => Permits(kind, d, Find("name", e))
                        /\ "instance" \in Known(d) => Permits(kind, d, Find("uuid", e))
              /\ \A w, e : Permits(kind, d, Turn(w, e))
              /\ Permits(kind, d, NeedFound) /\ Permits(kind, d, Impossible)
              /\ "credentials_list" \in Known(d) =>
                   Permits(kind, d, Insist("credentials_list"))
         /\ \A r \in {"image", "image name"} :
              /\ Permits("copy", d, Make(r))
              /\ \A e : Permits("copy", d, Instr("make", r, "name", e))
         /\ d = "gce" => \A by, e : Permits("copy", d, Drop("instance", by, e))
         /\ \A r, e : /\ Permits("sweep", d, Turn(r, e)) /\ Permits("sweep", d, Await(e))
                      /\ Permits("sweep", d, Find("name", e))
                      /\ \A by : r # "volume of another" => Permits("sweep", d, Drop(r, by, e))
         /\ d = "csk" => \A r, by, e : Permits("sweep", d, Drop(r, by, e))
         /\ Permits("sweep", d, Impossible)
<1>1. \A r, by, e : /\ IsInstr(Find(by, e)) /\ IsInstr(Await(e)) /\ IsInstr(Drop(r, by, e))
                    /\ IsInstr(Turn(r, e)) /\ IsInstr(Make(r)) /\ IsInstr(Impossible)
                    /\ IsInstr(NeedFound) /\ IsInstr(Instr("make", r, "name", e))
                    /\ IsInstr(Insist(r))
  BY AreInstr DEF Find, Await, Drop, Turn, Make, Impossible, NeedFound, Insist
<1>2. \A kind \in {"switch", "copy"} :
         /\ \A e : /\ d # "ec2" => Permits(kind, d, Find("name", e))
                   /\ "instance" \in Known(d) => Permits(kind, d, Find("uuid", e))
         /\ \A w, e : Permits(kind, d, Turn(w, e))
         /\ Permits(kind, d, NeedFound) /\ Permits(kind, d, Impossible)
         /\ "credentials_list" \in Known(d) => Permits(kind, d, Insist("credentials_list"))
  <2> TAKE kind \in {"switch", "copy"}
  <2>1. ASSUME NEW e
        PROVE  /\ d # "ec2" => Permits(kind, d, Find("name", e))
               /\ "instance" \in Known(d) => Permits(kind, d, Find("uuid", e))
    BY <1>1 DEF Permits, Switches, Copies, Find, Findable, Instr, Drops
  <2>2. ASSUME NEW w, NEW e PROVE Permits(kind, d, Turn(w, e))
    BY <1>1 DEF Permits, Switches, Copies, Turn, Instr, Drops
  <2>3. Permits(kind, d, NeedFound) /\ Permits(kind, d, Impossible)
    BY <1>1 DEF Permits, Switches, Copies, NeedFound, Impossible, Instr, Drops
  <2>4. "credentials_list" \in Known(d) => Permits(kind, d, Insist("credentials_list"))
    BY <1>1 DEF Permits, Switches, Copies, Insist, Instr, Drops
  <2> QED
    BY <2>1, <2>2, <2>3, <2>4
<1>3. \A r \in {"image", "image name"} :
         /\ Permits("copy", d, Make(r))
         /\ \A e : Permits("copy", d, Instr("make", r, "name", e))
  <2> TAKE r \in {"image", "image name"}
  <2>1. ASSUME NEW e PROVE Permits("copy", d, Instr("make", r, "name", e))
    <3>1. LET i == Instr("make", r, "name", e) IN i.do = "make" /\ i.on = r
      BY DEF Instr
    <3>2. Copies(d, Instr("make", r, "name", e))
      BY <3>1 DEF Copies, Drops
    <3> QED
      BY <1>1, <3>2 DEF Permits
  <2> QED
    BY <2>1 DEF Make
<1>4. d = "gce" => \A by, e : Permits("copy", d, Drop("instance", by, e))
  BY ZenonT(40), <1>1 DEF Permits, Copies, Drop, Instr, Drops
<1>5. \A r, by, e : /\ Permits("sweep", d, Turn(r, e)) /\ Permits("sweep", d, Await(e))
                    /\ Permits("sweep", d, Find("name", e))
                    /\ r # "volume of another" \/ d = "csk" =>
                         Permits("sweep", d, Drop(r, by, e))
  <2> TAKE r, by, e
  <2>1. ASSUME r # "volume of another" \/ d = "csk" PROVE Permits("sweep", d, Drop(r, by, e))
    BY <1>1, <2>1 DEF Permits, Sweeps, Drop, Instr, Drops
  <2>2. Permits("sweep", d, Turn(r, e)) /\ Permits("sweep", d, Await(e))
    BY <1>1 DEF Permits, Sweeps, Turn, Await, Instr, Drops
  <2>3. Permits("sweep", d, Find("name", e))
    BY <1>1 DEF Permits, Sweeps, Find, Instr, Drops
  <2> QED
    BY <2>1, <2>2, <2>3
<1>6. Permits("sweep", d, Impossible)
  BY <1>1 DEF Permits, Sweeps, Impossible, Instr
<1> QED
  BY <1>2, <1>3, <1>4, <1>5, <1>6

(* What does not lose the id of r.                                         *)
LEMMA KeepersPermitted ==
  ASSUME NEW r
  PROVE  /\ \A x : /\ Permits("keep", r, Make(x)) /\ Permits("keep", r, Tag(x))
                   /\ Permits("keep", r, Learn(x)) /\ Permits("keep", r, Take(x))
                   /\ x # r => /\ Permits("keep", r, MakeNamed(x))
                               /\ Permits("keep", r, MakeBare(x))
                               /\ Permits("keep", r, Forget(x))
         /\ \A by, e : Permits("keep", r, Running(by, e)) /\ Permits("keep", r, Instr("make", by, "name", e))
<1>1. \A x, by, e : /\ IsInstr(Make(x)) /\ IsInstr(Tag(x)) /\ IsInstr(Learn(x)) /\ IsInstr(Take(x))
                    /\ IsInstr(MakeNamed(x)) /\ IsInstr(MakeBare(x)) /\ IsInstr(Forget(x))
                    /\ IsInstr(Running(by, e)) /\ IsInstr(Instr("make", by, "name", e))
  BY AreInstr DEF Make, Tag, Learn, Take, MakeNamed, MakeBare, Forget, Running
<1>2. \A x : /\ Permits("keep", r, Make(x)) /\ Permits("keep", r, Tag(x))
             /\ Permits("keep", r, Learn(x)) /\ Permits("keep", r, Take(x))
  BY <1>1 DEF Permits, Unlearns, Make, Tag, Learn, Take, Instr
<1>3. \A x : x # r => /\ Permits("keep", r, MakeNamed(x)) /\ Permits("keep", r, MakeBare(x))
                      /\ Permits("keep", r, Forget(x))
  BY <1>1 DEF Permits, Unlearns, MakeNamed, MakeBare, Forget, Instr
<1>4. \A by, e : Permits("keep", r, Running(by, e)) /\ Permits("keep", r, Instr("make", by, "name", e))
  BY <1>1 DEF Permits, Unlearns, Running, Instr
<1> QED
  BY <1>2, <1>3, <1>4

(* ----------------------- the programs of the drivers -------------------- *)

(* Every vmcreate makes only what its driver owns.                         *)
LEMMA CreateOf ==
  /\ vmcreate("osk") = osk_vmcreate
  /\ vmcreate("ec2") = ec2_vmcreate
  /\ vmcreate("gce") = gce_vmcreate
  /\ vmcreate("pdm") = pdm_vmcreate
  /\ vmcreate("pcm") = pcm_vmcreate
  /\ vmcreate("plm") = plm_vmcreate
  /\ vmcreate("slr") = slr_vmcreate
  /\ vmcreate("csk") = csk_vmcreate
  /\ vmcreate("ntnx") = ntnx_vmcreate
  /\ vmcreate("kub") = kub_vmcreate
  /\ vmcreate("lc") = lc_vmcreate(<< >>, lc_vvcreate)
  /\ vmcreate("as") = lc_vmcreate(as_pre_vmcreate_process, << >>)
  /\ vmcreate("nop") = nop_vmcreate
  /\ vmcreate("sim") = sim_vmcreate
  BY Zenon DEF vmcreate

(* It holds of each of the fourteen programs, piece by piece.              *)
LEMMA CreateFits ==
  ASSUME NEW d \in DriverNames
  PROVE  Fits("build", d, vmcreate(d))
<1>1. Fits("build", "osk", osk_vmcreate)
  BY CallsPermitted, BuildersPermitted, FitsConcat, List1, List2, List3, List7
     DEF Kinds, osk_vmcreate, osk_connect, osk_is_vm_running,
         osk_vm_placement, osk_get_flavors, osk_get_images, osk_get_networks,
         osk_floating_ip_allocate, osk_vvcreate, osk_floating_ip_attach,
         wait_for_instance_ready, osk_is_vm_ready, wait_for_instance_boot,
         osk_get_host_and_instance_name, osk_get_ip_address, Owned, Known,
         Capacity
<1>2. Fits("build", "ec2", ec2_vmcreate)
  BY CallsPermitted, BuildersPermitted, FitsConcat, List1, List2, List3, List6
     DEF Kinds, ec2_vmcreate, ec2_connect, ec2_is_vm_running, ec2_get_images,
         ec2_vvcreate, wait_for_instance_ready, ec2_is_vm_ready,
         wait_for_instance_boot, ec2_get_ip_address, Owned, Known, Capacity
<1>3. Fits("build", "gce", gce_vmcreate)
  BY CallsPermitted, BuildersPermitted, FitsConcat, List1, List2, List3
     DEF Kinds, gce_vmcreate, gce_connect, gce_is_vm_running, gce_get_images,
         gce_vvcreate, gce_wait_until_operation, ReadyAndBoot,
         gce_is_vm_ready, wait_for_instance_ready, wait_for_instance_boot,
         gce_get_ip_address, Owned, Known, Capacity
<1>4. Fits("build", "pdm", pdm_vmcreate)
  BY CallsPermitted, BuildersPermitted, FitsConcat, List1, List2, List4
     DEF Kinds, pdm_vmcreate, pdm_connect, pdm_is_vm_running,
         pdm_vm_placement, pdm_get_images, pdm_vvcreate, ReadyAndBoot,
         pdm_is_vm_ready, wait_for_instance_ready, wait_for_instance_boot,
         pdm_get_ip_address, Owned, Known, Capacity
<1>5. Fits("build", "pcm", pcm_vmcreate)
  BY CallsPermitted, BuildersPermitted, FitsConcat, List1, List2, List6
     DEF Kinds, pcm_vmcreate, pcm_connect, pcm_is_vm_running,
         pcm_vm_placement, pcm_get_images, wait_for_instance_ready,
         pcm_is_vm_ready, pcm_configure_port_mapping_setup,
         wait_for_instance_boot, pcm_get_ip_address, Owned, Known, Capacity
<1>6. Fits("build", "plm", plm_vmcreate)
  BY CallsPermitted, BuildersPermitted, FitsConcat, List1, List2, List3, List4
     DEF Kinds, plm_vmcreate, plm_connect, plm_is_vm_running, plm_get_images,
         plm_get_networks, plm_vvcreate, plm_ship_cloud_init_iso,
         ReadyAndBoot, plm_is_vm_ready, wait_for_instance_ready,
         wait_for_instance_boot, plm_get_ip_address, Owned, Known, Capacity
<1>7. Fits("build", "slr", slr_vmcreate)
  BY CallsPermitted, BuildersPermitted, FitsConcat, List1, List3, List6
     DEF Kinds, slr_vmcreate, slr_connect, slr_is_vm_running, slr_get_images,
         ReadyAndBoot, slr_is_vm_ready, wait_for_instance_ready,
         wait_for_instance_boot, slr_get_ip_address, Owned, Known, Capacity
<1>8. Fits("build", "csk", csk_vmcreate)
  BY CallsPermitted, BuildersPermitted, FitsConcat, List1, List2, List7
     DEF Kinds, csk_vmcreate, csk_connect, csk_get_zone, csk_is_vm_running,
         csk_get_sizes, csk_get_images, ReadyAndBoot, csk_is_vm_ready,
         wait_for_instance_ready, wait_for_instance_boot, csk_get_ip_address,
         Owned, Known, Capacity
<1>9. Fits("build", "ntnx", ntnx_vmcreate)
  BY CallsPermitted, BuildersPermitted, FitsConcat, List1, List2, List8
     DEF Kinds, ntnx_vmcreate, ntnx_connect, ntnx_is_vm_running,
         ntnx_get_images, ntnx_get_networks, ntnx_get_mac_address,
         ReadyAndBoot, ntnx_is_vm_ready, ntnx_get_host_and_instance_name,
         wait_for_instance_ready, wait_for_instance_boot, ntnx_get_ip_address,
         Owned, Known, Capacity
<1>10. Fits("build", "kub", kub_vmcreate)
  BY CallsPermitted, BuildersPermitted, FitsConcat, List1, List2, List5
     DEF Kinds, kub_vmcreate, kub_connect, kub_is_vm_running, ReadyAndBoot,
         kub_is_vm_ready, kub_get_extended_info, wait_for_instance_ready,
         wait_for_instance_boot, kub_get_ip_address, Owned, Known, Capacity
<1>11. Fits("build", "lc", lc_vmcreate(<< >>, lc_vvcreate))
  BY CallsPermitted, BuildersPermitted, FitsConcat, List0, List1, List2, List6
     DEF Kinds, lc_vmcreate, lc_vvcreate, lc_rotate_token, lc_connect,
         lc_is_vm_running, lc_get_images, wait_for_instance_ready,
         lc_is_vm_ready, wait_for_instance_boot, lc_get_ip_address, Owned,
         Known, Capacity
<1>12. Fits("build", "as", lc_vmcreate(as_pre_vmcreate_process, << >>))
  BY CallsPermitted, BuildersPermitted, FitsConcat, List0, List1, List2, List6
     DEF Kinds, lc_vmcreate, as_pre_vmcreate_process, lc_rotate_token,
         lc_connect, lc_is_vm_running, lc_get_images, wait_for_instance_ready,
         lc_is_vm_ready, wait_for_instance_boot, lc_get_ip_address, Owned,
         Known, Capacity
<1>13. Fits("build", "nop", nop_vmcreate)
  BY CallsPermitted, BuildersPermitted, FitsConcat, List1, List2
     DEF Kinds, nop_vmcreate, nop_vm_placement, nop_get_images, ReadyAndBoot,
         nop_is_vm_ready, wait_for_instance_ready, wait_for_instance_boot,
         nop_get_ip_address, Owned, Known, Capacity
<1>14. Fits("build", "sim", sim_vmcreate)
  BY CallsPermitted, BuildersPermitted, FitsConcat, List0, List1, List2,
     List3, List4
     DEF Kinds, sim_vmcreate, sim_get_virtual_hardware_config, sim_get_images,
         sim_vm_placement, ReadyAndBoot, sim_check_host_capacity,
         sim_host_resource_update_create, wait_for_instance_ready,
         wait_for_instance_boot, Owned, Known, Capacity
<1> QED
  BY <1>1, <1>2, <1>3, <1>4, <1>5, <1>6, <1>7, <1>8, <1>9, <1>10, <1>11,
     <1>12, <1>13, <1>14, CreateOf DEF DriverNames

(* No vmdestroy makes anything.                                            *)
LEMMA DestroyOf ==
  /\ \A failed : vmdestroy("osk", failed) = osk_vmdestroy(failed)
  /\ \A failed : vmdestroy("ec2", failed) = ec2_vmdestroy
  /\ \A failed : vmdestroy("gce", failed) = gce_vmdestroy
  /\ \A failed : vmdestroy("pdm", failed) = pdm_vmdestroy
  /\ \A failed : vmdestroy("pcm", failed) = pcm_vmdestroy
  /\ \A failed : vmdestroy("plm", failed) = plm_vmdestroy
  /\ \A failed : vmdestroy("slr", failed) = slr_vmdestroy
  /\ \A failed : vmdestroy("csk", failed) = csk_vmdestroy
  /\ \A failed : vmdestroy("ntnx", failed) = ntnx_vmdestroy(failed)
  /\ \A failed : vmdestroy("kub", failed) = kub_vmdestroy
  /\ \A failed : vmdestroy("lc", failed) = lc_vmdestroy(<< >>, << >>)
  /\ \A failed : vmdestroy("as", failed) = lc_vmdestroy(as_destroy_node, as_post_vmdelete_process)
  /\ \A failed : vmdestroy("nop", failed) = nop_vmdestroy
  /\ \A failed : vmdestroy("sim", failed) = sim_vmdestroy
  BY Zenon DEF vmdestroy

(* It holds of each of the fourteen programs, piece by piece.              *)
LEMMA DestroyFits ==
  ASSUME NEW d \in DriverNames, NEW failed
  PROVE  Fits("remove", d, vmdestroy(d, failed))
<1>1. Fits("remove", "osk", osk_vmdestroy(failed))
  BY CallsPermitted, RemoversPermitted, IfFits, FitsConcat, List1, List2,
     List3
     DEF Kinds, osk_vmdestroy, osk_instance_cleanup_on_failure, osk_connect,
         osk_get_instances, IfFound, osk_floating_ip_delete,
         osk_retriable_instance_delete, osk_vvdestroy, IfKnown, Owned, Known,
         Capacity
<1>2. Fits("remove", "ec2", ec2_vmdestroy)
  BY CallsPermitted, RemoversPermitted, IfFits, FitsConcat, List1, List2
     DEF Kinds, ec2_vmdestroy, ec2_connect, ec2_get_instances, IfFound,
         ec2_vvdestroy, IfKnown, Owned, Known, Capacity
<1>3. Fits("remove", "gce", gce_vmdestroy)
  BY CallsPermitted, RemoversPermitted, IfFits, FitsConcat, List1, List2,
     List3
     DEF Kinds, gce_vmdestroy, gce_connect, gce_get_instances, IfFound,
         gce_wait_until_operation, gce_vvdestroy, Owned, Known, Capacity
<1>4. Fits("remove", "pdm", pdm_vmdestroy)
  BY CallsPermitted, RemoversPermitted, IfFits, FitsConcat, List2
     DEF Kinds, pdm_vmdestroy, pdm_connect, pdm_get_instances, IfFound,
         pdm_vvdestroy, IfKnown, Owned, Known, Capacity
<1>5. Fits("remove", "pcm", pcm_vmdestroy)
  BY CallsPermitted, RemoversPermitted, IfFits, FitsConcat, List2, List3
     DEF Kinds, pcm_vmdestroy, pcm_connect, pcm_get_instances, IfFound,
         pcm_configure_port_mapping_teardown, Owned, Known, Capacity
<1>6. Fits("remove", "plm", plm_vmdestroy)
  BY CallsPermitted, RemoversPermitted, IfFits, FitsConcat, List2
     DEF Kinds, plm_vmdestroy, plm_connect, plm_get_instances, IfFound,
         plm_vvdestroy, IfKnown, Owned, Known, Capacity
<1>7. Fits("remove", "slr", slr_vmdestroy)
  BY CallsPermitted, RemoversPermitted, IfFits, FitsConcat, List2, List3
     DEF Kinds, slr_vmdestroy, slr_connect, slr_wait_until_transaction,
         IfFound, slr_get_instances, Owned, Known, Capacity
<1>8. Fits("remove", "csk", csk_vmdestroy)
  BY CallsPermitted, RemoversPermitted, IfFits, FitsConcat, List1, List2
     DEF Kinds, csk_vmdestroy, csk_connect, csk_get_vm_instance, IfFound,
         csk_free_volumes, Owned, Known, Capacity
<1>9. Fits("remove", "ntnx", ntnx_vmdestroy(failed))
  BY CallsPermitted, RemoversPermitted, IfFits, FitsConcat, List1, List5
     DEF Kinds, ntnx_vmdestroy, ntnx_instance_cleanup_on_failure,
         ntnx_connect, ntnx_get_instances, ntnx_retriable_instance_delete,
         IfFound, Owned, Known, Capacity
<1>10. Fits("remove", "kub", kub_vmdestroy)
  BY CallsPermitted, RemoversPermitted, IfFits, FitsConcat, List2, List4
     DEF Kinds, kub_vmdestroy, kub_connect, IfFound, kub_get_instances, Owned,
         Known, Capacity
<1>11. Fits("remove", "lc", lc_vmdestroy(<< >>, << >>))
  BY CallsPermitted, RemoversPermitted, IfFits, FitsConcat, List0, List1,
     List2, List3
     DEF Kinds, lc_vmdestroy, lc_credentials, lc_connect, lc_get_instances,
         IfFound, lc_power_on_node, lc_vvdestroy, IfKnown, Owned, Known,
         Capacity
<1>12. Fits("remove", "as", lc_vmdestroy(as_destroy_node, as_post_vmdelete_process))
  BY CallsPermitted, RemoversPermitted, IfFits, FitsConcat, List1, List2,
     List3
     DEF Kinds, lc_vmdestroy, as_destroy_node, as_post_vmdelete_process,
         lc_credentials, lc_connect, lc_get_instances, IfFound,
         lc_power_on_node, lc_vvdestroy, IfKnown, Owned, Known, Capacity
<1>13. Fits("remove", "nop", nop_vmdestroy)
  BY CallsPermitted, RemoversPermitted, FitsConcat, List1
     DEF Kinds, nop_vmdestroy, Owned, Known, Capacity
<1>14. Fits("remove", "sim", sim_vmdestroy)
  BY CallsPermitted, RemoversPermitted, IfFits, FitsConcat, List2
     DEF Kinds, sim_vmdestroy, sim_host_resource_update_destroy, IfKnown,
         Owned, Known, Capacity
<1> QED
  BY <1>1, <1>2, <1>3, <1>4, <1>5, <1>6, <1>7, <1>8, <1>9, <1>10, <1>11,
     <1>12, <1>13, <1>14, DestroyOf DEF DriverNames

(* What turns an instance on or off.                                       *)
LEMMA TurningFits ==
  ASSUME NEW d, NEW kind \in {"switch", "copy"}, NEW t, NEW c, NEW e
  PROVE  Fits(kind, d, Turning(t, c, e))
  BY OthersPermitted, List0, List1 DEF Turning

(* No vmrunstate makes or deletes anything.                                *)
LEMMA RunStateOf ==
  /\ \A t, c : vmrunstate("osk", t, c) = osk_vmrunstate(t, c)
  /\ \A t, c : vmrunstate("ec2", t, c) = ec2_vmrunstate(t, c)
  /\ \A t, c : vmrunstate("gce", t, c) = gce_vmrunstate(t, c)
  /\ \A t, c : vmrunstate("pdm", t, c) = pdm_vmrunstate(t, c)
  /\ \A t, c : vmrunstate("pcm", t, c) = pcm_vmrunstate(t, c)
  /\ \A t, c : vmrunstate("plm", t, c) = plm_vmrunstate(t, c)
  /\ \A t, c : vmrunstate("slr", t, c) = slr_vmrunstate(t, c)
  /\ \A t, c : vmrunstate("csk", t, c) = csk_vmrunstate(t, c)
  /\ \A t, c : vmrunstate("ntnx", t, c) = << >>
  /\ \A t, c : vmrunstate("kub", t, c) = kub_vmrunstate
  /\ \A t, c : vmrunstate("lc", t, c) = lc_vmrunstate(t, c)
  /\ \A t, c : vmrunstate("as", t, c) = lc_vmrunstate(t, c)
  /\ \A t, c : vmrunstate("nop", t, c) = << >>
  /\ \A t, c : vmrunstate("sim", t, c) = << >>
  BY Zenon DEF vmrunstate

(* It holds of each of the fourteen programs, piece by piece.              *)
LEMMA RunStateFits ==
  ASSUME NEW d \in DriverNames, NEW t, NEW c
  PROVE  Fits("switch", d, vmrunstate(d, t, c))
<1>1. Fits("switch", "osk", osk_vmrunstate(t, c))
  BY CallsPermitted, OthersPermitted, TurningFits, IfFits, FitsConcat, List2
     DEF Kinds, osk_vmrunstate, osk_connect, osk_get_instances, IfFound, Known
<1>2. Fits("switch", "ec2", ec2_vmrunstate(t, c))
  BY CallsPermitted, OthersPermitted, TurningFits, IfFits, FitsConcat, List2
     DEF Kinds, ec2_vmrunstate, ec2_connect, ec2_get_instances, IfFound, Known
<1>3. Fits("switch", "gce", gce_vmrunstate(t, c))
  BY CallsPermitted, OthersPermitted, TurningFits, IfFits, FitsConcat, List0,
     List1, List2
     DEF Kinds, gce_vmrunstate, gce_connect, gce_get_instances, IfFound,
         gce_wait_until_operation, Known
<1>4. Fits("switch", "pdm", pdm_vmrunstate(t, c))
  BY CallsPermitted, OthersPermitted, TurningFits, IfFits, FitsConcat, List2
     DEF Kinds, pdm_vmrunstate, pdm_connect, pdm_get_instances, IfFound, Known
<1>5. Fits("switch", "pcm", pcm_vmrunstate(t, c))
  BY CallsPermitted, OthersPermitted, TurningFits, IfFits, FitsConcat, List2
     DEF Kinds, pcm_vmrunstate, pcm_connect, pcm_get_instances, IfFound, Known
<1>6. Fits("switch", "plm", plm_vmrunstate(t, c))
  BY CallsPermitted, OthersPermitted, TurningFits, IfFits, FitsConcat, List0,
     List1, List2
     DEF Kinds, plm_vmrunstate, plm_connect, plm_get_instances, IfFound, Known
<1>7. Fits("switch", "slr", slr_vmrunstate(t, c))
  BY CallsPermitted, OthersPermitted, TurningFits, IfFits, FitsConcat, List0,
     List1, List2
     DEF Kinds, slr_vmrunstate, slr_connect, slr_get_instances, IfFound, Known
<1>8. Fits("switch", "csk", csk_vmrunstate(t, c))
  BY CallsPermitted, OthersPermitted, TurningFits, IfFits, FitsConcat, List2
     DEF Kinds, csk_vmrunstate, csk_connect, csk_get_vm_instance, IfFound,
         Known
<1>9. Fits("switch", "ntnx", << >>)
  BY CallsPermitted, OthersPermitted, FitsConcat, List0
     DEF Kinds, Known
<1>10. Fits("switch", "kub", kub_vmrunstate)
  BY CallsPermitted, OthersPermitted, FitsConcat, List2
     DEF Kinds, kub_vmrunstate, kub_connect, Known
<1>11. Fits("switch", "lc", lc_vmrunstate(t, c))
  BY CallsPermitted, OthersPermitted, TurningFits, FitsConcat, List0, List1,
     List3
     DEF Kinds, lc_vmrunstate, lc_credentials, lc_connect, lc_get_instances,
         lc_vmrunstate_do, Known
<1>12. Fits("switch", "as", lc_vmrunstate(t, c))
  BY CallsPermitted, OthersPermitted, TurningFits, FitsConcat, List0, List1,
     List3
     DEF Kinds, lc_vmrunstate, lc_credentials, lc_connect, lc_get_instances,
         lc_vmrunstate_do, Known
<1>13. Fits("switch", "nop", << >>)
  BY CallsPermitted, OthersPermitted, FitsConcat, List0
     DEF Kinds, Known
<1>14. Fits("switch", "sim", << >>)
  BY CallsPermitted, OthersPermitted, FitsConcat, List0
     DEF Kinds, Known
<1> QED
  BY <1>1, <1>2, <1>3, <1>4, <1>5, <1>6, <1>7, <1>8, <1>9, <1>10, <1>11,
     <1>12, <1>13, <1>14, RunStateOf DEF DriverNames

(* A vmcapture makes images, and only Google's deletes the instance.       *)
LEMMA CaptureOf ==
  /\ vmcapture("osk") = osk_vmcapture
  /\ vmcapture("ec2") = ec2_vmcapture
  /\ vmcapture("gce") = gce_vmcapture
  /\ vmcapture("pdm") = pdm_vmcapture
  /\ vmcapture("pcm") = pcm_vmcapture
  /\ vmcapture("plm") = plm_vmcapture
  /\ vmcapture("slr") = slr_vmcapture
  /\ vmcapture("csk") = csk_vmcapture
  /\ vmcapture("ntnx") = << Impossible >>
  /\ vmcapture("kub") = << Impossible >>
  /\ vmcapture("lc") = lc_vmcapture
  /\ vmcapture("as") = lc_vmcapture
  /\ vmcapture("nop") = nop_vmcapture
  /\ vmcapture("sim") = sim_vmcapture
  BY Zenon DEF vmcapture

(* It holds of each of the fourteen programs, piece by piece.              *)
LEMMA CaptureFits ==
  ASSUME NEW d \in DriverNames
  PROVE  Fits("copy", d, vmcapture(d))
<1>1. Fits("copy", "osk", osk_vmcapture)
  BY CallsPermitted, OthersPermitted, FitsConcat, List5
     DEF Kinds, osk_vmcapture, osk_connect, osk_get_instances, Known
<1>2. Fits("copy", "ec2", ec2_vmcapture)
  BY CallsPermitted, OthersPermitted, FitsConcat, List5
     DEF Kinds, ec2_vmcapture, ec2_connect, ec2_get_instances, Known
<1>3. Fits("copy", "gce", gce_vmcapture)
  BY CallsPermitted, OthersPermitted, FitsConcat, List7
     DEF Kinds, gce_vmcapture, gce_connect, gce_get_instances,
         gce_wait_until_operation, Known
<1>4. Fits("copy", "pdm", pdm_vmcapture)
  BY CallsPermitted, OthersPermitted, FitsConcat, List4
     DEF Kinds, pdm_vmcapture, pdm_connect, pdm_get_instances, Known
<1>5. Fits("copy", "pcm", pcm_vmcapture)
  BY CallsPermitted, OthersPermitted, FitsConcat, List5
     DEF Kinds, pcm_vmcapture, pcm_connect, pcm_get_instances, Known
<1>6. Fits("copy", "plm", plm_vmcapture)
  BY CallsPermitted, OthersPermitted, FitsConcat, List5
     DEF Kinds, plm_vmcapture, plm_connect, plm_get_instances, Known
<1>7. Fits("copy", "slr", slr_vmcapture)
  BY CallsPermitted, OthersPermitted, FitsConcat, List5
     DEF Kinds, slr_vmcapture, slr_connect, slr_get_instances, Known
<1>8. Fits("copy", "csk", csk_vmcapture)
  BY CallsPermitted, OthersPermitted, FitsConcat, List7
     DEF Kinds, csk_vmcapture, csk_connect, csk_get_vm_instance,
         csk_is_vm_stopped, Known
<1>9. Fits("copy", "ntnx", << Impossible >>)
  BY CallsPermitted, OthersPermitted, FitsConcat, List1
     DEF Kinds, Known
<1>10. Fits("copy", "kub", << Impossible >>)
  BY CallsPermitted, OthersPermitted, FitsConcat, List1
     DEF Kinds, Known
<1>11. Fits("copy", "lc", lc_vmcapture)
  BY CallsPermitted, OthersPermitted, FitsConcat, List6
     DEF Kinds, lc_vmcapture, lc_credentials, lc_connect, lc_get_instances,
         Known
<1>12. Fits("copy", "as", lc_vmcapture)
  BY CallsPermitted, OthersPermitted, FitsConcat, List6
     DEF Kinds, lc_vmcapture, lc_credentials, lc_connect, lc_get_instances,
         Known
<1>13. Fits("copy", "nop", nop_vmcapture)
  BY CallsPermitted, OthersPermitted, FitsConcat, List2
     DEF Kinds, nop_vmcapture, Known
<1>14. Fits("copy", "sim", sim_vmcapture)
  BY CallsPermitted, OthersPermitted, FitsConcat, List2
     DEF Kinds, sim_vmcapture, nop_vmcapture, Known
<1> QED
  BY <1>1, <1>2, <1>3, <1>4, <1>5, <1>6, <1>7, <1>8, <1>9, <1>10, <1>11,
     <1>12, <1>13, <1>14, CaptureOf DEF DriverNames

(* A vmccleanup makes nothing.                                             *)
LEMMA CleanupOf ==
  /\ vmccleanup("osk") = osk_vmccleanup
  /\ vmccleanup("ec2") = ec2_vmccleanup
  /\ vmccleanup("gce") = gce_vmccleanup
  /\ vmccleanup("pdm") = pdm_vmccleanup
  /\ vmccleanup("pcm") = pcm_vmccleanup
  /\ vmccleanup("plm") = plm_vmccleanup
  /\ vmccleanup("slr") = slr_vmccleanup
  /\ vmccleanup("csk") = csk_vmccleanup
  /\ vmccleanup("ntnx") = ntnx_vmccleanup
  /\ vmccleanup("kub") = kub_vmccleanup
  /\ vmccleanup("lc") = lc_vmccleanup(<< >>, << >>)
  /\ vmccleanup("as") = lc_vmccleanup(as_destroy_node, as_extra_vmccleanup)
  /\ vmccleanup("nop") = nop_vmccleanup
  /\ vmccleanup("sim") = sim_vmccleanup
  BY Zenon DEF vmccleanup

(* It holds of each of the fourteen programs, piece by piece.              *)
LEMMA CleanupFits ==
  ASSUME NEW d \in DriverNames
  PROVE  Fits("sweep", d, vmccleanup(d))
<1>1. Fits("sweep", "osk", osk_vmccleanup)
  BY CallsPermitted, OthersPermitted, IfFits, FitsConcat, List1, List2
     DEF Kinds, osk_vmccleanup, osk_connect, IfFound, IfOn
<1>2. Fits("sweep", "ec2", ec2_vmccleanup)
  BY CallsPermitted, OthersPermitted, IfFits, FitsConcat, List1, List2
     DEF Kinds, ec2_vmccleanup, ec2_connect, IfFound, IfOn
<1>3. Fits("sweep", "gce", gce_vmccleanup)
  BY CallsPermitted, OthersPermitted, IfFits, FitsConcat, List1, List2
     DEF Kinds, gce_vmccleanup, gce_connect, IfFound, IfOn
<1>4. Fits("sweep", "pdm", pdm_vmccleanup)
  BY CallsPermitted, OthersPermitted, IfFits, FitsConcat, List1, List2
     DEF Kinds, pdm_vmccleanup, IfFound
<1>5. Fits("sweep", "pcm", pcm_vmccleanup)
  BY CallsPermitted, OthersPermitted, IfFits, FitsConcat, List2
     DEF Kinds, pcm_vmccleanup, IfFound
<1>6. Fits("sweep", "plm", plm_vmccleanup)
  BY CallsPermitted, OthersPermitted, IfFits, FitsConcat, List1, List2
     DEF Kinds, plm_vmccleanup, IfFound
<1>7. Fits("sweep", "slr", slr_vmccleanup)
  BY CallsPermitted, OthersPermitted, IfFits, FitsConcat, List2
     DEF Kinds, slr_vmccleanup, slr_connect, IfFound
<1>8. Fits("sweep", "csk", csk_vmccleanup)
  BY CallsPermitted, OthersPermitted, IfFits, FitsConcat, List1, List2
     DEF Kinds, csk_vmccleanup, csk_connect, IfFound, csk_free_volumes
<1>9. Fits("sweep", "ntnx", ntnx_vmccleanup)
  BY CallsPermitted, OthersPermitted, IfFits, FitsConcat, List1, List2
     DEF Kinds, ntnx_vmccleanup, ntnx_connect, IfFound, IfOn
<1>10. Fits("sweep", "kub", kub_vmccleanup)
  BY CallsPermitted, OthersPermitted, FitsConcat, List5
     DEF Kinds, kub_vmccleanup, kub_connect
<1>11. Fits("sweep", "lc", lc_vmccleanup(<< >>, << >>))
  BY CallsPermitted, OthersPermitted, IfFits, FitsConcat, List0, List1, List2
     DEF Kinds, lc_vmccleanup, lc_connect, IfFound, lc_power_on_node
<1>12. Fits("sweep", "as", lc_vmccleanup(as_destroy_node, as_extra_vmccleanup))
  BY CallsPermitted, OthersPermitted, IfFits, FitsConcat, List1, List2
     DEF Kinds, lc_vmccleanup, as_destroy_node, as_extra_vmccleanup,
         lc_connect, IfFound, lc_power_on_node
<1>13. Fits("sweep", "nop", nop_vmccleanup)
  BY CallsPermitted, OthersPermitted, FitsConcat, List0
     DEF Kinds, nop_vmccleanup
<1>14. Fits("sweep", "sim", sim_vmccleanup)
  BY CallsPermitted, OthersPermitted, FitsConcat, List0
     DEF Kinds, sim_vmccleanup
<1> QED
  BY <1>1, <1>2, <1>3, <1>4, <1>5, <1>6, <1>7, <1>8, <1>9, <1>10, <1>11,
     <1>12, <1>13, <1>14, CleanupOf DEF DriverNames

(* A vmcunregister in a process that is connected is the cleanup, for every *)
(* driver.                                                                 *)
LEMMA UnregisterIs == ASSUME NEW d \in DriverNames PROVE vmcunregister(d, TRUE) = vmccleanup(d)
  BY Zenon, CleanupOf
     DEF vmcunregister, pdm_vmcunregister, pcm_vmcunregister, plm_vmcunregister, DriverNames

(* A vmcregister makes nothing.                                            *)
LEMMA RegisterOf ==
  /\ \A discover : vmcregister("osk", discover) = osk_vmcregister(discover)
  /\ \A discover : vmcregister("ec2", discover) = ec2_vmcregister(discover)
  /\ \A discover : vmcregister("gce", discover) = gce_vmcregister(discover)
  /\ \A discover : vmcregister("pdm", discover) = pdm_vmcregister(discover)
  /\ \A discover : vmcregister("pcm", discover) = pcm_vmcregister(discover)
  /\ \A discover : vmcregister("plm", discover) = plm_vmcregister(discover)
  /\ \A discover : vmcregister("slr", discover) = slr_vmcregister(discover)
  /\ \A discover : vmcregister("csk", discover) = csk_vmcregister(discover)
  /\ \A discover : vmcregister("ntnx", discover) = ntnx_vmcregister(discover)
  /\ \A discover : vmcregister("kub", discover) = kub_vmcregister(discover)
  /\ \A discover : vmcregister("lc", discover) = lc_vmcregister(vmccleanup("lc"), discover)
  /\ \A discover : vmcregister("as", discover) = lc_vmcregister(vmccleanup("as"), discover)
  /\ \A discover : vmcregister("nop", discover) = nop_vmcregister(discover)
  /\ \A discover : vmcregister("sim", discover) = sim_vmcregister(discover)
  BY Zenon DEF vmcregister

(* It holds of each of the fourteen programs, piece by piece.              *)
LEMMA RegisterFits ==
  ASSUME NEW d \in DriverNames, NEW discover
  PROVE  Fits("sweep", d, vmcregister(d, discover))
<1>1. Fits("sweep", "osk", osk_vmcregister(discover))
  BY CallsPermitted, OthersPermitted, IfFits, FitsConcat, List0, List1, List2,
     List3
     DEF Kinds, osk_vmcregister, osk_vmccleanup, osk_connect, hostname2ip,
         osk_discover_hosts, osk_get_network_list, IfFound, IfOn,
         osk_build_host_map, osk_add_host, additional_host_discovery,
         populate_interface, osk_get_service_list, osk_get_service_host
<1>2. Fits("sweep", "ec2", ec2_vmcregister(discover))
  BY CallsPermitted, OthersPermitted, IfFits, FitsConcat, List0, List1, List2
     DEF Kinds, ec2_vmcregister, ec2_vmccleanup, ec2_connect, hostname2ip,
         ec2_discover_hosts, IfFound, IfOn
<1>3. Fits("sweep", "gce", gce_vmcregister(discover))
  BY CallsPermitted, OthersPermitted, IfFits, FitsConcat, List0, List1, List2
     DEF Kinds, gce_vmcregister, gce_vmccleanup, gce_connect, hostname2ip,
         gce_discover_hosts, IfFound, IfOn
<1>4. Fits("sweep", "pdm", pdm_vmcregister(discover))
  BY CallsPermitted, OthersPermitted, IfFits, FitsConcat, List0, List1, List2,
     List4
     DEF Kinds, pdm_vmcregister, pdm_connect, pdm_vmccleanup, hostname2ip,
         pdm_discover_hosts, IfFound, additional_host_discovery
<1>5. Fits("sweep", "pcm", pcm_vmcregister(discover))
  BY CallsPermitted, OthersPermitted, IfFits, FitsConcat, List0, List1, List2
     DEF Kinds, pcm_vmcregister, pcm_connect, pcm_vmccleanup, hostname2ip,
         pcm_discover_hosts, IfFound, additional_host_discovery
<1>6. Fits("sweep", "plm", plm_vmcregister(discover))
  BY CallsPermitted, OthersPermitted, IfFits, FitsConcat, List0, List1, List2
     DEF Kinds, plm_vmcregister, plm_connect, plm_vmccleanup, hostname2ip,
         plm_discover_hosts, IfFound, additional_host_discovery
<1>7. Fits("sweep", "slr", slr_vmcregister(discover))
  BY CallsPermitted, OthersPermitted, IfFits, FitsConcat, List0, List1, List2
     DEF Kinds, slr_vmcregister, slr_vmccleanup, slr_connect, hostname2ip,
         slr_discover_hosts, IfFound
<1>8. Fits("sweep", "csk", csk_vmcregister(discover))
  BY CallsPermitted, OthersPermitted, IfFits, FitsConcat, List0, List1, List2,
     List3
     DEF Kinds, csk_vmcregister, csk_vmccleanup, csk_connect, csk_get_zone,
         hostname2ip, csk_discover_hosts, IfFound, csk_free_volumes,
         additional_host_discovery
<1>9. Fits("sweep", "ntnx", ntnx_vmcregister(discover))
  BY CallsPermitted, OthersPermitted, IfFits, FitsConcat, List0, List1, List2
     DEF Kinds, ntnx_vmcregister, ntnx_vmccleanup, ntnx_connect, hostname2ip,
         ntnx_discover_hosts, IfFound, IfOn
<1>10. Fits("sweep", "kub", kub_vmcregister(discover))
  BY CallsPermitted, OthersPermitted, FitsConcat, List0, List1, List2, List5
     DEF Kinds, kub_vmcregister, kub_connect, kub_vmccleanup, kub_try_dns,
         kub_discover_hosts, additional_host_discovery
<1>11. Fits("sweep", "lc", lc_vmcregister(vmccleanup("lc"), discover))
  BY CallsPermitted, OthersPermitted, IfFits, FitsConcat, List0, List1, List2,
     List5
     DEF Kinds, lc_vmcregister, vmccleanup, lc_connect, hostname2ip,
         lc_discover_hosts, osk_vmccleanup, ec2_vmccleanup, gce_vmccleanup,
         pdm_vmccleanup, pcm_vmccleanup, plm_vmccleanup, slr_vmccleanup,
         csk_vmccleanup, ntnx_vmccleanup, kub_vmccleanup, lc_vmccleanup,
         as_destroy_node, as_extra_vmccleanup, nop_vmccleanup, sim_vmccleanup,
         osk_connect, IfFound, IfOn, ec2_connect, gce_connect, slr_connect,
         csk_connect, csk_free_volumes, ntnx_connect, kub_connect,
         lc_power_on_node
<1>12. Fits("sweep", "as", lc_vmcregister(vmccleanup("as"), discover))
  BY CallsPermitted, OthersPermitted, IfFits, FitsConcat, List0, List1, List2,
     List5
     DEF Kinds, lc_vmcregister, vmccleanup, lc_connect, hostname2ip,
         lc_discover_hosts, osk_vmccleanup, ec2_vmccleanup, gce_vmccleanup,
         pdm_vmccleanup, pcm_vmccleanup, plm_vmccleanup, slr_vmccleanup,
         csk_vmccleanup, ntnx_vmccleanup, kub_vmccleanup, lc_vmccleanup,
         as_destroy_node, as_extra_vmccleanup, nop_vmccleanup, sim_vmccleanup,
         osk_connect, IfFound, IfOn, ec2_connect, gce_connect, slr_connect,
         csk_connect, csk_free_volumes, ntnx_connect, kub_connect,
         lc_power_on_node
<1>13. Fits("sweep", "nop", nop_vmcregister(discover))
  BY CallsPermitted, OthersPermitted, FitsConcat, List0, List1, List2
     DEF Kinds, nop_vmcregister, nop_vmccleanup, hostname2ip,
         nop_discover_hosts, additional_host_discovery
<1>14. Fits("sweep", "sim", sim_vmcregister(discover))
  BY CallsPermitted, OthersPermitted, FitsConcat, List0, List3
     DEF Kinds, sim_vmcregister, sim_vmccleanup, sim_discover_hosts,
         sim_create_simulated_hosts, additional_host_discovery,
         populate_interface
<1> QED
  BY <1>1, <1>2, <1>3, <1>4, <1>5, <1>6, <1>7, <1>8, <1>9, <1>10, <1>11,
     <1>12, <1>13, <1>14, RegisterOf DEF DriverNames

(* ------------------------ what a step of CloudDriver is ------------------ *)

Settled == {"up", "attached", "destroying", "detaching", "changing state", "capturing"}
Before  == {"unregistered", "registering", "new"}
Undoing == {"own undo", "undoing", "rolling back"}
After   == {"failed", "left", "gone", "crashed"}
Ending  == {"cleaning", "cleaned"}
VMPhases == Settled \cup Before \cup Undoing \cup After \cup Ending \cup {"creating"}

(* No program runs, and a program is started.                              *)
Idle == {"unregistered", "new", "up", "attached", "cleaned"} \cup After
Begun == broken' = FALSE /\ found' = FALSE /\ slipped' = FALSE
Over  == todo = << >>

(* The steps between two programs: where they lead, what they start, and   *)
(* what they rest on.  None touches the cloud.                             *)
ToTest     == /\ at = "untested" /\ at' = "testing"
              /\ Begun /\ todo' \in test_vmc_connection(drv) /\ ids' = ids
ToTested   == /\ at = "testing" /\ Over /\ ~broken /\ at' = "tested"
              /\ todo' = todo /\ slipped' = slipped
ToRegister == /\ at = "unregistered" /\ at' = "registering"
              /\ Begun /\ \E discover \in BOOLEAN : todo' = vmcregister(drv, discover)
              /\ UNCHANGED << ids, cstat >>
ToNew      == at = "registering" /\ at' = "new" /\ Over /\ todo' = todo
              /\ UNCHANGED << ids, cstat >>
ToCreate   == /\ at = "new" \/ (at = "destroying" /\ Over /\ (~broken \/ tries = 1))
              /\ at' = "creating" /\ Begun /\ todo' = vmcreate(drv)
              /\ UNCHANGED << ids, cstat >>
ToUp       == /\ at = "creating" /\ Over /\ ~broken /\ at' = "up"
              /\ todo' = todo /\ ids' = ids /\ cstat' = FALSE
ToDestroy  == /\ \/ at = "up" /\ at' = "destroying"
                 \/ at \in {"attached", "capturing"} /\ at' = "detaching"
                 \/ at' = at /\ at \in {"destroying", "detaching"}
              /\ at = "capturing" => Over /\ ~broken
              /\ at' = at => Over /\ broken /\ tries # 1
              /\ Begun /\ todo' = vmdestroy(drv, cstat) /\ UNCHANGED << ids, cstat >>
              /\ tries' = IF at' # at THEN detach_attempts(drv)
                          ELSE IF tries = -1 THEN -1 ELSE tries - 1
ToUndo     == /\ at \in Undoing \cup {"creating", "up"} /\ at' \in Undoing
              /\ Begun /\ \E failed : todo' = vmdestroy(drv, failed)
              /\ ids' = ids
              /\ \/ tries' = detach_attempts(drv)
                 \/ drv = "csk" /\ tries' = 1
                 \/ at' = at /\ tries' = IF tries = -1 THEN -1 ELSE tries - 1
ToAttached == /\ at \in {"up", "detaching", "changing state", "capturing"}
              /\ at # "up" => Over
              /\ at' = "attached" /\ todo' = todo /\ UNCHANGED << ids, cstat, tries >>
ToState    == /\ at = "attached" /\ at' = "changing state"
              /\ Begun /\ todo' = vmrunstate(drv, target', state)
              /\ UNCHANGED << ids, cstat, state >>
ToCapture  == /\ at = "attached" /\ at' = "capturing"
              /\ Begun /\ todo' = vmcapture(drv) /\ UNCHANGED << ids, cstat >>
ToGone     == /\ at = "detaching" /\ Over /\ ~broken
              /\ at' = "gone" /\ todo' = todo /\ slipped' = slipped /\ ids' = ids
ToFailed   == /\ at \in Undoing \cup {"creating"} /\ Over /\ at' \in {"failed", "left"}
              /\ at = "creating" => at' = "left"
              /\ at # "creating" => ~broken \/ tries = 1
              /\ todo' = todo /\ slipped' = slipped /\ ids' = ids
ToCrashed  == /\ at \in Settled \cup Undoing \cup {"creating"} /\ at' = "crashed"
              /\ todo' = << >> /\ ids' = {}
ToClean    == /\ at \in After /\ at' = "cleaning"
              /\ Begun /\ todo' \in {vmcunregister(drv, TRUE), vmcregister(drv, FALSE)}
              /\ ids' = ids
ToCleaned  == /\ at = "cleaning" /\ Over /\ at' = "cleaned"
              /\ UNCHANGED << todo, broken, slipped, ids >>
Elsewhere  == at' \in {"refused", "not registered", "deleting image", "image deleted",
                       "cleaning blindly", "unregistered blindly"}
Move ==
    /\ UNCHANGED << drv, leave, cloud >>
    /\ \/ ToTest \/ ToTested \/ ToRegister \/ ToNew \/ ToCreate \/ ToUp \/ ToDestroy
       \/ ToUndo \/ ToAttached \/ ToState \/ ToCapture \/ ToGone \/ ToFailed
       \/ ToCrashed \/ ToClean \/ ToCleaned \/ Elsewhere

(* The step of a program.  It goes on or ends with an error.               *)
Run ==
    /\ UNCHANGED << drv, leave, at, tries, cstat, store >>
    /\ todo # << >>
    /\ \/ todo' = Tail(todo) /\ broken' = broken
       \/ todo' = << >> /\ broken' = TRUE
RunAction == StepOver \/ Step \/ Refuse \/ TimeOut \/ Fault

(* Each of the five actions of a program does so.                          *)
LEMMA RunIs == ASSUME RunAction PROVE Run
<1>1. \A i \in Current : todo # << >>
  BY DEF Current
<1>2. CASE StepOver
  BY <1>1, <1>2 DEF StepOver, Run, Proceed, vm, store
<1>3. CASE Step
  BY <1>1, <1>3 DEF Step, Run, Proceed, vm, store
<1>4. CASE Refuse
  BY <1>1, <1>4 DEF Refuse, Run, Leave, vm, store
<1>5. CASE TimeOut
  BY <1>1, <1>5 DEF TimeOut, Run, Fail, Proceed, Leave, vm, store
<1>6. CASE Fault
  BY <1>1, <1>6 DEF Fault, Run, Fail, Proceed, Leave, vm, store
<1> QED
  BY <1>2, <1>3, <1>4, <1>5, <1>6 DEF RunAction

(* Every step is one of a program, a move, or a deletion that ends.        *)
LEMMA StepsAre ==
  ASSUME Next PROVE RunAction \/ Move \/ Vanish
<1>1. CASE Test
  <2>1. UNCHANGED << drv, leave, cloud >>
    BY <1>1
      DEF Test, Start, vm, store, program, cloud
  <2>2. ToTest
    BY <1>1
      DEF Test, Start, ToTest, Begun, Over, Settled, Undoing, After, vm,
          store, program
  <2> QED
    BY <2>1, <2>2 DEF Move
<1>2. CASE Register
  <2>1. UNCHANGED << drv, leave, cloud >>
    BY <1>2
      DEF Register, Start, vm, store, program, cloud
  <2>2. ToRegister
    BY <1>2
      DEF Register, Start, ToRegister, Begun, Over, Settled, Undoing, After,
          vm, store, program
  <2> QED
    BY <2>1, <2>2 DEF Move
<1>3. CASE Attach
  <2>1. UNCHANGED << drv, leave, cloud >>
    BY <1>3
      DEF Attach, StartCreate, Start, vm, store, program, cloud
  <2>2. ToCreate
    BY <1>3
      DEF Attach, StartCreate, Start, ToCreate, Begun, Over, Settled, Undoing,
          After, vm, store, program
  <2> QED
    BY <2>1, <2>2 DEF Move
<1>4. CASE Recreate
  <2>1. UNCHANGED << drv, leave, cloud >>
    BY <1>4
      DEF Recreate, StartDestroy, Start, vm, store, program, cloud
  <2>2. ToDestroy
    BY <1>4
      DEF Recreate, StartDestroy, Start, ToDestroy, Begun, Over, Settled,
          Undoing, After, vm, store, program
  <2> QED
    BY <2>1, <2>2 DEF Move
<1>5. CASE AttachFailed
  <2>1. UNCHANGED << drv, leave, cloud >>
    BY <1>5
      DEF AttachFailed, StartDestroy, Start, vm, store, program, cloud
  <2>2. ToUndo
    BY <1>5
      DEF AttachFailed, StartDestroy, Start, ToUndo, Begun, Over, Settled,
          Undoing, After, vm, store, program
  <2> QED
    BY <2>1, <2>2 DEF Move
<1>6. CASE Attached
  <2>1. UNCHANGED << drv, leave, cloud >>
    BY <1>6
      DEF Attached, Rest, vm, store, program, cloud
  <2>2. ToAttached
    BY <1>6
      DEF Attached, Rest, ToAttached, Begun, Over, Settled, Undoing, After,
          vm, store, program
  <2> QED
    BY <2>1, <2>2 DEF Move
<1>7. CASE Created
  <2>1. UNCHANGED << drv, leave, cloud >>
    BY <1>7
      DEF Created, Ended, Rest, vm, store, program, cloud
  <2>2. ToUp
    BY <1>7
      DEF Created, Ended, Rest, ToUp, Begun, Over, Settled, Undoing, After,
          vm, store, program
  <2> QED
    BY <2>1, <2>2 DEF Move
<1>8. CASE CreateFailed
  <2>1. UNCHANGED << drv, leave, cloud >>
    BY <1>8
      DEF CreateFailed, Ended, OwnUndo, Start, CommonUndo, StartDestroy,
          Raised, Rest, vm, store, program, cloud
  <2>2. ToUndo \/ ToFailed
    BY <1>8
      DEF CreateFailed, Ended, OwnUndo, Start, CommonUndo, StartDestroy,
          Raised, Rest, ToUndo, ToFailed, Begun, Over, Settled, Undoing,
          After, vm, store, program
  <2> QED
    BY <2>1, <2>2 DEF Move
<1>9. CASE AfterOwnUndo
  <2>1. UNCHANGED << drv, leave, cloud >>
    BY <1>9
      DEF AfterOwnUndo, Destroyed, CommonUndo, StartDestroy, Raised, Rest,
          Start, Ended, vm, store, program, cloud
  <2>2. ToUndo \/ ToFailed
    BY <1>9
      DEF AfterOwnUndo, Destroyed, CommonUndo, StartDestroy, Raised, Rest,
          Start, Ended, ToUndo, ToFailed, Begun, Over, Settled, Undoing,
          After, vm, store, program
  <2> QED
    BY <2>1, <2>2 DEF Move
<1>10. CASE AfterUndo
  <2>1. UNCHANGED << drv, leave, cloud >>
    BY <1>10
      DEF AfterUndo, Destroyed, Raised, StartDestroy, Rest, Start, Ended, vm,
          store, program, cloud
  <2>2. ToUndo \/ ToFailed
    BY <1>10
      DEF AfterUndo, Destroyed, Raised, StartDestroy, Rest, Start, Ended,
          ToUndo, ToFailed, Begun, Over, Settled, Undoing, After, vm, store,
          program
  <2> QED
    BY <2>1, <2>2 DEF Move
<1>11. CASE AfterRollback
  <2>1. UNCHANGED << drv, leave, cloud >>
    BY <1>11
      DEF AfterRollback, Destroyed, Rest, Ended, vm, store, program, cloud
  <2>2. ToFailed
    BY <1>11
      DEF AfterRollback, Destroyed, Rest, Ended, ToFailed, Begun, Over,
          Settled, Undoing, After, vm, store, program
  <2> QED
    BY <2>1, <2>2 DEF Move
<1>12. CASE Tested
  <2>1. UNCHANGED << drv, leave, cloud >>
    BY <1>12
      DEF Tested, Ended, Rest, vm, store, program, cloud
  <2>2. ToTested \/ Elsewhere
    BY <1>12
      DEF Tested, Ended, Rest, ToTested, Elsewhere, Begun, Over, Settled,
          Undoing, After, vm, store, program
  <2> QED
    BY <2>1, <2>2 DEF Move
<1>13. CASE Registered
  <2>1. UNCHANGED << drv, leave, cloud >>
    BY <1>13
      DEF Registered, Ended, Rest, vm, store, program, cloud
  <2>2. ToNew \/ Elsewhere
    BY <1>13
      DEF Registered, Ended, Rest, ToNew, Elsewhere, Begun, Over, Settled,
          Undoing, After, vm, store, program
  <2> QED
    BY <2>1, <2>2 DEF Move
<1>14. CASE DestroyAgain
  <2>1. UNCHANGED << drv, leave, cloud >>
    BY <1>14
      DEF DestroyAgain, Destroying, Start, vm, store, program, cloud
  <2>2. ToDestroy \/ ToUndo
    BY <1>14
      DEF DestroyAgain, Destroying, Start, ToDestroy, ToUndo, Begun, Over,
          Settled, Undoing, After, vm, store, program
  <2> QED
    BY <2>1, <2>2 DEF Move
<1>15. CASE CreateAgain
  <2>1. UNCHANGED << drv, leave, cloud >>
    BY <1>15
      DEF CreateAgain, Destroyed, StartCreate, Start, Ended, vm, store,
          program, cloud
  <2>2. ToCreate
    BY <1>15
      DEF CreateAgain, Destroyed, StartCreate, Start, Ended, ToCreate, Begun,
          Over, Settled, Undoing, After, vm, store, program
  <2> QED
    BY <2>1, <2>2 DEF Move
<1>16. CASE Detached
  <2>1. UNCHANGED << drv, leave, cloud >>
    BY <1>16
      DEF Detached, Destroyed, Rest, Ended, vm, store, program, cloud
  <2>2. ToAttached \/ ToGone
    BY <1>16
      DEF Detached, Destroyed, Rest, Ended, ToAttached, ToGone, Begun, Over,
          Settled, Undoing, After, vm, store, program
  <2> QED
    BY <2>1, <2>2 DEF Move
<1>17. CASE RunStateChanged
  <2>1. UNCHANGED << drv, leave, cloud >>
    BY <1>17
      DEF RunStateChanged, Ended, Rest, vm, store, program, cloud
  <2>2. ToAttached
    BY <1>17
      DEF RunStateChanged, Ended, Rest, ToAttached, Begun, Over, Settled,
          Undoing, After, vm, store, program
  <2> QED
    BY <2>1, <2>2 DEF Move
<1>18. CASE Captured
  <2>1. UNCHANGED << drv, leave, cloud >>
    BY <1>18
      DEF Captured, Ended, StartDestroy, Rest, Start, vm, store, program,
          cloud
  <2>2. ToDestroy \/ ToAttached
    BY <1>18
      DEF Captured, Ended, StartDestroy, Rest, Start, ToDestroy, ToAttached,
          Begun, Over, Settled, Undoing, After, vm, store, program
  <2> QED
    BY <2>1, <2>2 DEF Move
<1>19. CASE ImageDeleted
  <2>1. UNCHANGED << drv, leave, cloud >>
    BY <1>19
      DEF ImageDeleted, Ended, Rest, vm, store, program, cloud
  <2>2. Elsewhere
    BY <1>19
      DEF ImageDeleted, Ended, Rest, Elsewhere, Begun, Over, Settled, Undoing,
          After, vm, store, program
  <2> QED
    BY <2>1, <2>2 DEF Move
<1>20. CASE Cleaned
  <2>1. UNCHANGED << drv, leave, cloud >>
    BY <1>20
      DEF Cleaned, Ended, Rest, vm, store, program, cloud
  <2>2. ToCleaned \/ Elsewhere
    BY <1>20
      DEF Cleaned, Ended, Rest, ToCleaned, Elsewhere, Begun, Over, Settled,
          Undoing, After, vm, store, program
  <2> QED
    BY <2>1, <2>2 DEF Move
<1>21. CASE Detach
  <2>1. UNCHANGED << drv, leave, cloud >>
    BY <1>21
      DEF Detach, StartDestroy, Start, vm, store, program, cloud
  <2>2. ToDestroy
    BY <1>21
      DEF Detach, StartDestroy, Start, ToDestroy, Begun, Over, Settled,
          Undoing, After, vm, store, program
  <2> QED
    BY <2>1, <2>2 DEF Move
<1>22. CASE RunState
  <2>1. UNCHANGED << drv, leave, cloud >>
    BY <1>22
      DEF RunState, Start, vm, store, program, cloud
  <2>2. ToState
    BY <1>22
      DEF RunState, Start, ToState, Begun, Over, Settled, Undoing, After, vm,
          store, program
  <2> QED
    BY <2>1, <2>2 DEF Move
<1>23. CASE Capture
  <2>1. UNCHANGED << drv, leave, cloud >>
    BY <1>23
      DEF Capture, Start, vm, store, program, cloud
  <2>2. ToCapture
    BY <1>23
      DEF Capture, Start, ToCapture, Begun, Over, Settled, Undoing, After, vm,
          store, program
  <2> QED
    BY <2>1, <2>2 DEF Move
<1>24. CASE DeleteImage
  <2>1. UNCHANGED << drv, leave, cloud >>
    BY <1>24
      DEF DeleteImage, Start, vm, store, program, cloud
  <2>2. Elsewhere
    BY <1>24
      DEF DeleteImage, Start, Elsewhere, Begun, Over, Settled, Undoing, After,
          vm, store, program
  <2> QED
    BY <2>1, <2>2 DEF Move
<1>25. CASE Crash
  <2>1. UNCHANGED << drv, leave, cloud >>
    BY <1>25
      DEF Crash, Destroying, vm, store, program, cloud
  <2>2. ToCrashed
    BY <1>25
      DEF Crash, Destroying, ToCrashed, Begun, Over, Settled, Undoing, After,
          vm, store, program
  <2> QED
    BY <2>1, <2>2 DEF Move
<1>26. CASE Cleanup
  <2>1. UNCHANGED << drv, leave, cloud >>
    BY <1>26
      DEF Cleanup, Start, vm, store, program, cloud
  <2>2. ToClean \/ Elsewhere
    BY <1>26
      DEF Cleanup, Start, ToClean, Elsewhere, Begun, Over, Settled, Undoing,
          After, vm, store, program
  <2> QED
    BY <2>1, <2>2 DEF Move
<1> QED
  BY <1>1, <1>2, <1>3, <1>4, <1>5, <1>6, <1>7, <1>8, <1>9, <1>10, <1>11,
     <1>12, <1>13, <1>14, <1>15, <1>16, <1>17, <1>18, <1>19, <1>20, <1>21,
     <1>22, <1>23, <1>24, <1>25, <1>26
     DEF Next, Program, PostAttach, Following, RunAction

(* What the step of a program does to the cloud and to the ids that the VM *)
(* knows, by the instruction that it runs.                                 *)
RunEffects(i) ==
    /\ i.do \notin Makes => things' \subseteq things
    /\ things' \subseteq things \cup {i.on}
    /\ i.do \notin Drops => things \subseteq things'
    /\ things \ {i.on} \subseteq things'
    /\ i.do # "make bare" => named \subseteq named' /\ things' \ things \subseteq named'
    /\ named \ {i.on} \subseteq named'
    /\ i.do \notin Makes \cup {"forget"} => ids \subseteq ids'
    /\ ids \ {i.on} \subseteq ids'
    /\ i.do \notin {"take", "give"} => held' = held
    /\ i.do = "take" => \/ held' = held
                        \/ held' = [held EXCEPT ![i.on] = @ + 1]
    /\ i.do = "give" => \/ held' = held
                        \/ held' = [held EXCEPT ![i.on] = @ - 1]
    /\ i.do \notin Makes \cup {"turn"} => power' = power

(* Whichever action runs it, and whether its call fails or not.            *)
LEMMA EffectsAre ==
  ASSUME RunAction, IsSeq(todo)
  PROVE  RunEffects(todo[1])
<1> DEFINE i == todo[1]
<1>1. todo # << >>
  BY RunIs DEF Run
<1>2. Current = {i}
  BY <1>1, TailIs DEF Current
<1> SUFFICES RunEffects(i)
  OBVIOUS
<1> HIDE DEF i
<1>3. ASSUME Effect(i)
      PROVE  /\ i.do \notin Makes => things' \subseteq things
             /\ things' \subseteq things \cup {i.on}
             /\ i.do \notin Drops => things \subseteq things'
             /\ things \ {i.on} \subseteq things'
             /\ i.do # "make bare" => named \subseteq named' /\ things' \ things \subseteq named'
             /\ named \ {i.on} \subseteq named'
             /\ i.do \notin {"take", "give"} => held' = held
             /\ i.do = "take" => held' = [held EXCEPT ![i.on] = @ + 1]
             /\ i.do = "give" => held' = [held EXCEPT ![i.on] = @ - 1]
             /\ i.do \notin Makes \cup {"turn"} => power' = power
  <2>1. CASE Making(i)
    BY <2>1 DEF Making, Makes, Drops
  <2>2. CASE Tagging(i)
    BY <2>2 DEF Tagging, Makes, Drops
  <2>3. CASE Dropping(i)
    BY <2>3 DEF Dropping, Makes, Drops
  <2>4. CASE Powering(i)
    BY <2>4 DEF Powering, Makes, Drops
  <2>5. CASE Accounting(i)
    BY <2>5 DEF Accounting, Makes, Drops
  <2>6. CASE Looking(i)
    BY <2>6 DEF Looking, Makes, Drops, cloud
  <2> QED
    BY <1>3, <2>1, <2>2, <2>3, <2>4, <2>5, <2>6 DEF Effect
<1>4. CASE Step
  <2>1. Effect(i)
    BY <1>2, <1>4 DEF Step
  <2>2. /\ i.do \notin Makes \cup {"forget"} => ids \subseteq ids'
        /\ ids \ {i.on} \subseteq ids'
    BY <1>2, <1>4 DEF Step, Makes
  <2> QED
    BY <1>3, <2>1, <2>2 DEF RunEffects
<1>5. CASE Fault
  <2>1. Effect(i) \/ UNCHANGED cloud
    BY <1>2, <1>5 DEF Fault
  <2>2. /\ i.do \notin Makes \cup {"forget"} => ids \subseteq ids'
        /\ ids \ {i.on} \subseteq ids'
    BY <1>2, <1>5 DEF Fault, Makes
  <2>3. CASE Effect(i)
    BY <1>3, <2>2, <2>3 DEF RunEffects
  <2>4. CASE UNCHANGED cloud
    BY <2>2, <2>4 DEF RunEffects, cloud
  <2> QED
    BY <2>1, <2>3, <2>4
<1>6. CASE StepOver \/ Refuse \/ TimeOut
  <2>1. UNCHANGED cloud /\ ids' = ids
    BY <1>6 DEF StepOver, Refuse, TimeOut, vm
  <2> QED
    BY <2>1 DEF RunEffects, cloud
<1> QED
  BY <1>4, <1>5, <1>6 DEF RunAction

(* An instruction without a condition, whose errors are not swallowed: when *)
(* the program goes on, it was carried out.                                *)
LEMMA CarriedOut ==
  ASSUME RunAction, IsSeq(todo), ~broken', Applies(todo[1]), "skip" \notin todo[1].err
  PROVE  Step /\ ~Refused(todo[1])
<1>1. todo # << >>
  BY RunIs DEF Run
<1>2. Current = {todo[1]}
  BY <1>1, TailIs DEF Current
<1>3. ~StepOver
  BY <1>2 DEF StepOver
<1>4. ~Refuse
  BY <1>2 DEF Refuse, Leave
<1>5. ~Fault
  BY <1>2 DEF Fault, Fail, Leave
<1>6. ~TimeOut
  BY <1>2 DEF TimeOut, Fail, Leave
<1> QED
  BY <1>2, <1>3, <1>4, <1>5, <1>6 DEF RunAction, Step

(* An instruction without conditions applies.                              *)
LEMMA Unconditional == ASSUME NEW i, i.when = {} PROVE Applies(i)
  BY DEF Applies

(* ------------------- every running program is of its kind ---------------- *)

Shape ==
    /\ drv \in DriverNames
    /\ at \in Idle => Over
    /\ at \in {"registering", "cleaning"} => Fits("sweep", drv, todo)
    /\ at = "creating" => Fits("build", drv, todo)
    /\ at \in Destroying => Fits("remove", drv, todo)
    /\ at = "changing state" => Fits("switch", drv, todo)
    /\ at = "capturing" => Fits("copy", drv, todo)
    /\ drv = "sim" /\ at \in Destroying => tries = -1

(* A program that left with an error has nothing more to do.               *)
Stopped == at \in VMPhases /\ broken => Over

(* What is left of a program fits where the program does.                  *)
LEMMA FitsTail ==
  ASSUME NEW kind, NEW d, NEW s, Fits(kind, d, s), s # << >>
  PROVE  Fits(kind, d, Tail(s)) /\ Permits(kind, d, s[1])
  BY TailIs DEF Fits

(* No program runs at first.                                               *)
LEMMA ShapeInit == ASSUME Init PROVE Shape
  BY NamesAssumption DEF Init, Shape, Destroying, Idle, After, Over

(* A step starts a program of its phase, or leaves the tail of one.        *)
LEMMA ShapeStep == ASSUME Shape, [Next]_vars PROVE Shape'
<1>1. CASE RunAction
  <2>1. Run
    BY <1>1, RunIs
  <2> QED
    BY <2>1, FitsTail, List0 DEF Shape, Run, Over
<1>2. CASE Move
  <2> USE DEF Shape, Move, Destroying, Idle, After, Over
  <2>1. CASE ToRegister
    BY <1>2, <2>1, RegisterFits DEF ToRegister
  <2>2. CASE ToCreate
    BY <1>2, <2>2, CreateFits DEF ToCreate
  <2>3. CASE ToDestroy
    BY <1>2, <2>3, DestroyFits DEF ToDestroy, detach_attempts
  <2>4. CASE ToUndo
    BY <1>2, <2>4, DestroyFits DEF ToUndo, detach_attempts, Undoing
  <2>5. CASE ToState
    BY <1>2, <2>5, RunStateFits DEF ToState
  <2>6. CASE ToCapture
    BY <1>2, <2>6, CaptureFits DEF ToCapture
  <2>7. CASE ToTest \/ ToTested \/ ToNew \/ ToUp \/ ToAttached \/ ToGone
    BY <1>2, <2>7 DEF ToTest, ToTested, ToNew, ToUp, ToAttached, ToGone
  <2>8. CASE ToFailed \/ ToCrashed \/ ToCleaned \/ Elsewhere
    BY <1>2, <2>8 DEF ToFailed, ToCrashed, ToCleaned, Elsewhere
  <2>9. CASE ToClean
    <3>1. Fits("sweep", drv, todo')
      BY <2>9, RegisterFits, CleanupFits, UnregisterIs DEF ToClean
    <3> QED
      BY <1>2, <2>9, <3>1 DEF ToClean
  <2> QED
    BY <1>2, <2>1, <2>2, <2>3, <2>4, <2>5, <2>6, <2>7, <2>8, <2>9
<1>3. CASE Vanish
  BY <1>3 DEF Vanish, Shape, program, Over
<1>4. CASE UNCHANGED vars
  BY <1>4 DEF vars, Shape, program, Over
<1> QED
  BY <1>1, <1>2, <1>3, <1>4, StepsAre

(* A step ends a program that fails, and no other program starts broken.   *)
LEMMA StoppedStep == ASSUME Shape, Stopped, [Next]_vars PROVE Stopped'
<1>1. CASE RunAction
  BY <1>1, RunIs DEF Run, Stopped, Over
<1>2. CASE Move /\ at' \in VMPhases \ Idle
  <2>1. ToRegister \/ ToCreate \/ ToDestroy \/ ToUndo \/ ToState \/ ToCapture \/ ToClean
    BY <1>2 DEF Move, ToTest, ToTested, ToNew, ToUp, ToAttached, ToGone, ToFailed, ToCrashed,
                ToCleaned, Elsewhere, Idle, After, VMPhases, Settled, Before, Undoing, Ending
  <2>2. ~broken'
    BY <2>1 DEF ToRegister, ToCreate, ToDestroy, ToUndo, ToState, ToCapture, ToClean, Begun
  <2> QED
    BY <2>2 DEF Stopped
<1>3. CASE at' \in Idle
  BY <1>3, ShapeStep DEF Stopped, Shape
<1>4. CASE Vanish
  BY <1>4 DEF Vanish, Stopped, program, Over
<1>5. CASE UNCHANGED vars
  BY <1>5 DEF vars, Stopped, program, Over
<1> QED
  BY <1>1, <1>2, <1>3, <1>4, <1>5, StepsAre DEF Stopped

(* ---------------- the ids of what vmdestroy looks for by id -------------- *)

(* A VM that is being created, or was, did not fail before.                *)
Healthy == at \in Settled \cup Before \cup {"creating"} => cstat = FALSE

(* Only CommonUndo sets it, on the way to an attach that fails.            *)
LEMMA HealthyStep == ASSUME Healthy, [Next]_vars PROVE Healthy'
<1>1. CASE RunAction
  BY <1>1, RunIs DEF Run, Healthy
<1>2. CASE Move
  <2> USE DEF Healthy, Move, Settled, Before
  <2>1. CASE ToRegister \/ ToNew \/ ToCreate \/ ToUp \/ ToDestroy
    BY <1>2, <2>1 DEF ToRegister, ToNew, ToCreate, ToUp, ToDestroy
  <2>2. CASE ToAttached \/ ToState \/ ToCapture
    BY <1>2, <2>2 DEF ToAttached, ToState, ToCapture
  <2>3. CASE ToTest \/ ToTested \/ ToGone \/ ToUndo \/ ToFailed
    BY <1>2, <2>3 DEF ToTest, ToTested, ToGone, ToUndo, ToFailed, Undoing
  <2>4. CASE ToCrashed \/ ToClean \/ ToCleaned \/ Elsewhere
    BY <1>2, <2>4 DEF ToCrashed, ToClean, ToCleaned, Elsewhere
  <2> QED
    BY <1>2, <2>1, <2>2, <2>3, <2>4
<1>3. CASE Vanish
  BY <1>3 DEF Vanish, Healthy, vm
<1>4. CASE UNCHANGED vars
  BY <1>4 DEF vars, Healthy, vm
<1> QED
  BY <1>1, <1>2, <1>3, <1>4, StepsAre

(* The program has still to store the id of r, and will not lose it again. *)
Teaches(r, p) ==
    \E k \in DOMAIN p :
        /\ p[k].on = r /\ p[k].do \in {"make", "learn"}
        /\ \A j \in DOMAIN p : j > k => ~Unlearns(r, p[j])
Keeps(r, p) == \A k \in DOMAIN p : ~Unlearns(r, p[k])

(* Whatever became of earlier attempts: a VM that was created has the ids  *)
(* of all that its vmdestroy finds by their ids.                           *)
KnowsIds ==
    /\ at \in Settled => Known(drv) \subseteq ids
    /\ at = "creating" /\ ~broken =>
         \A r \in Known(drv) : Teaches(r, todo) \/ (r \in ids /\ Keeps(r, todo))

(* The parts of a program before and after the one that stores the id.     *)
LEMMA ConcatIs ==
  ASSUME NEW s, NEW t, IsSeq(s), IsSeq(t)
  PROVE  /\ DOMAIN s = 1..Len(s) /\ DOMAIN t = 1..Len(t)
         /\ Len(s) \in Nat /\ Len(t) \in Nat
         /\ DOMAIN (s \o t) = 1..Len(s) + Len(t)
         /\ \A k \in 1..Len(s) : (s \o t)[k] = s[k]
         /\ \A k \in 1..Len(t) : (s \o t)[Len(s) + k] = t[k]
<1> DEFINE S == {s[k] : k \in DOMAIN s} \cup {t[k] : k \in DOMAIN t}
<1>1. s \in Seq(S) /\ t \in Seq(S)
  BY DEF IsSeq
<1> HIDE DEF S
<1> QED
  BY <1>1

(* The id is stored in the first part, and the second keeps it.            *)
LEMMA TeachesBefore ==
  ASSUME NEW r, NEW s, NEW t, IsSeq(s), Teaches(r, s), Fits("keep", r, t)
  PROVE  Teaches(r, s \o t)
<1>1. PICK k \in DOMAIN s : /\ s[k].on = r /\ s[k].do \in {"make", "learn"}
                            /\ \A j \in DOMAIN s : j > k => ~Unlearns(r, s[j])
  BY DEF Teaches
<1>2. IsSeq(t) /\ \A j \in DOMAIN t : ~Unlearns(r, t[j])
  BY DEF Fits, Permits
<1>3. ASSUME NEW j \in DOMAIN (s \o t), j > k PROVE ~Unlearns(r, (s \o t)[j])
  <2>1. CASE j \in 1..Len(s)
    BY <1>1, <1>2, <1>3, <2>1, ConcatIs
  <2>2. CASE j \notin 1..Len(s)
    <3>1. j - Len(s) \in 1..Len(t) /\ j = Len(s) + (j - Len(s))
      BY <1>2, <2>2, ConcatIs
    <3>2. (s \o t)[j] = t[j - Len(s)]
      BY <1>2, <3>1, ConcatIs
    <3> QED
      BY <1>2, <3>1, <3>2, ConcatIs
  <2> QED
    BY <2>1, <2>2
<1>4. k \in DOMAIN (s \o t) /\ (s \o t)[k] = s[k]
  BY <1>1, <1>2, ConcatIs
<1> QED
  BY <1>1, <1>3, <1>4 DEF Teaches

(* The id is stored in the second part.                                    *)
LEMMA TeachesAfter ==
  ASSUME NEW r, NEW s, NEW t, IsSeq(s), IsSeq(t), Teaches(r, t)
  PROVE  Teaches(r, s \o t)
<1>1. PICK k \in DOMAIN t : /\ t[k].on = r /\ t[k].do \in {"make", "learn"}
                            /\ \A j \in DOMAIN t : j > k => ~Unlearns(r, t[j])
  BY DEF Teaches
<1>2. Len(s) + k \in DOMAIN (s \o t) /\ (s \o t)[Len(s) + k] = t[k]
  BY <1>1, ConcatIs
<1>3. ASSUME NEW j \in DOMAIN (s \o t), j > Len(s) + k PROVE ~Unlearns(r, (s \o t)[j])
  <2>1. j - Len(s) \in 1..Len(t) /\ j = Len(s) + (j - Len(s)) /\ j - Len(s) > k
    BY <1>1, <1>3, ConcatIs
  <2>2. (s \o t)[j] = t[j - Len(s)]
    BY <2>1, ConcatIs
  <2> QED
    BY <1>1, <2>1, <2>2, ConcatIs
<1> QED
  BY <1>1, <1>2, <1>3 DEF Teaches

(* A program that fits is a sequence.                                      *)
LEMMA FitsIsSeq == ASSUME NEW kind, NEW d, NEW s, Fits(kind, d, s) PROVE IsSeq(s)
  BY DEF Fits

(* The instruction with which they do, the last for that id.               *)
LEMMA TeachesIf ==
  ASSUME NEW r, NEW p, NEW k \in DOMAIN p, p[k] = Make(r) \/ p[k] = Learn(r),
         \A j \in DOMAIN p : j > k => ~Unlearns(r, p[j])
  PROVE  Teaches(r, p)
  BY DEF Teaches, Make, Learn, Instr

(* A question keeps what is known.                                         *)
LEMMA CallsKeep ==
  ASSUME NEW r
  PROVE  /\ \A x : ~Unlearns(r, Call(x)) /\ ~Unlearns(r, Ask(x))
         /\ \A by, e : ~Unlearns(r, Running(by, e))
  BY DEF Unlearns, Call, Ask, Running, Instr

(* The parts of vmcreate that store ids.                                   *)
LEMMA TeachingPieces ==
  /\ Teaches("volume", osk_vvcreate)
  /\ Teaches("instance", << ec2_connect, ec2_is_vm_running, ec2_get_images,
         MakeBare("instance"), Tag("instance"), Learn("instance") >>)
  /\ Teaches("volume", ec2_vvcreate)
  /\ Teaches("volume", pdm_vvcreate)
  /\ Teaches("boot volume", plm_vvcreate("boot volume"))
  /\ Teaches("volume", plm_vvcreate("volume"))
  /\ Teaches("instance", << slr_connect, slr_is_vm_running, slr_get_images,
         Call("keys"), MakeNamed("instance"), Learn("instance") >>)
  /\ Teaches("instance", << ntnx_connect, ntnx_is_vm_running, ntnx_get_images,
         ntnx_get_networks, MakeNamed("instance"), Call("lookup"),
         Learn("instance"), ntnx_get_mac_address >>)
  /\ Teaches("volume", lc_vvcreate)
  /\ Teaches("cores", sim_check_host_capacity)
  /\ Teaches("memory", sim_check_host_capacity)
  /\ Teaches("credentials_list", << lc_rotate_token, Learn("credentials_list"),
         lc_connect, lc_is_vm_running, lc_get_images, Call("keys") >>)
<1>1. Teaches("volume", osk_vvcreate)
  <2> DEFINE p == osk_vvcreate
  <2> SUFFICES Teaches("volume", p)
    OBVIOUS
  <2>1. DOMAIN p = 1..2 /\ p[1] = Make("volume")
    BY DEF osk_vvcreate
  <2>12. ~Unlearns("volume", p[2])
    <3>1. p[2] = Call("volume available")
      BY DEF osk_vvcreate
    <3> HIDE DEF p
    <3> QED
      BY Zenon, <3>1, CallsKeep
  <2> HIDE DEF p
  <2> QED
    BY <2>1, <2>12, TeachesIf
<1>2. Teaches("instance", << ec2_connect, ec2_is_vm_running, ec2_get_images,
         MakeBare("instance"), Tag("instance"), Learn("instance") >>)
  <2> DEFINE p == << ec2_connect, ec2_is_vm_running, ec2_get_images,
         MakeBare("instance"), Tag("instance"), Learn("instance") >>
  <2> SUFFICES Teaches("instance", p)
    OBVIOUS
  <2>1. DOMAIN p = 1..6 /\ p[6] = Learn("instance")
    OBVIOUS
  <2> HIDE DEF p
  <2> QED
    BY <2>1, TeachesIf
<1>3. Teaches("volume", ec2_vvcreate)
  <2> DEFINE p == ec2_vvcreate
  <2> SUFFICES Teaches("volume", p)
    OBVIOUS
  <2>1. DOMAIN p = 1..3 /\ p[3] = Learn("volume")
    BY DEF ec2_vvcreate
  <2> HIDE DEF p
  <2> QED
    BY <2>1, TeachesIf
<1>4. Teaches("volume", pdm_vvcreate)
  <2> DEFINE p == pdm_vvcreate
  <2> SUFFICES Teaches("volume", p)
    OBVIOUS
  <2>1. DOMAIN p = 1..2 /\ p[2] = Make("volume")
    BY DEF pdm_vvcreate
  <2> HIDE DEF p
  <2> QED
    BY <2>1, TeachesIf
<1>5. ASSUME NEW v PROVE Teaches(v, plm_vvcreate(v))
  <2> DEFINE p == plm_vvcreate(v)
  <2> SUFFICES Teaches(v, p)
    OBVIOUS
  <2>1. DOMAIN p = 1..2 /\ p[2] = Make(v)
    BY DEF plm_vvcreate
  <2> HIDE DEF p
  <2> QED
    BY <2>1, TeachesIf
<1>7. Teaches("instance", << slr_connect, slr_is_vm_running, slr_get_images,
         Call("keys"), MakeNamed("instance"), Learn("instance") >>)
  <2> DEFINE p == << slr_connect, slr_is_vm_running, slr_get_images, Call("keys"),
         MakeNamed("instance"), Learn("instance") >>
  <2> SUFFICES Teaches("instance", p)
    OBVIOUS
  <2>1. DOMAIN p = 1..6 /\ p[6] = Learn("instance")
    OBVIOUS
  <2> HIDE DEF p
  <2> QED
    BY <2>1, TeachesIf
<1>8. Teaches("instance", << ntnx_connect, ntnx_is_vm_running, ntnx_get_images,
         ntnx_get_networks, MakeNamed("instance"), Call("lookup"),
         Learn("instance"), ntnx_get_mac_address >>)
  <2> DEFINE p == << ntnx_connect, ntnx_is_vm_running, ntnx_get_images,
         ntnx_get_networks, MakeNamed("instance"), Call("lookup"),
         Learn("instance"), ntnx_get_mac_address >>
  <2> SUFFICES Teaches("instance", p)
    OBVIOUS
  <2>1. DOMAIN p = 1..8 /\ p[7] = Learn("instance")
    BY DEF ntnx_get_mac_address
  <2>18. ~Unlearns("instance", p[8])
    <3>1. p[8] = Ask("mac address")
      BY DEF ntnx_get_mac_address
    <3> HIDE DEF p
    <3> QED
      BY Zenon, <3>1, CallsKeep
  <2> HIDE DEF p
  <2> QED
    BY <2>1, <2>18, TeachesIf
<1>9. Teaches("volume", lc_vvcreate)
  <2> DEFINE p == lc_vvcreate
  <2> SUFFICES Teaches("volume", p)
    OBVIOUS
  <2>1. DOMAIN p = 1..1 /\ p[1] = Make("volume")
    BY DEF lc_vvcreate
  <2> HIDE DEF p
  <2> QED
    BY <2>1, TeachesIf
<1>10. Teaches("cores", sim_check_host_capacity)
  <2> DEFINE p == sim_check_host_capacity
  <2> SUFFICES Teaches("cores", p)
    OBVIOUS
  <2>1. DOMAIN p = 1..3 /\ p[2] = Learn("cores")
    BY DEF sim_check_host_capacity
  <2>13. ~Unlearns("cores", p[3])
    <3>1. p[3] = Learn("memory")
      BY DEF sim_check_host_capacity
    <3> HIDE DEF p
    <3> QED
      BY <3>1 DEF Learn, Instr, Unlearns
  <2> HIDE DEF p
  <2> QED
    BY <2>1, <2>13, TeachesIf
<1>11. Teaches("memory", sim_check_host_capacity)
  <2> DEFINE p == sim_check_host_capacity
  <2> SUFFICES Teaches("memory", p)
    OBVIOUS
  <2>1. DOMAIN p = 1..3 /\ p[3] = Learn("memory")
    BY DEF sim_check_host_capacity
  <2> HIDE DEF p
  <2> QED
    BY <2>1, TeachesIf
<1>12. Teaches("credentials_list", << lc_rotate_token, Learn("credentials_list"),
         lc_connect, lc_is_vm_running, lc_get_images, Call("keys") >>)
  <2> DEFINE p == << lc_rotate_token, Learn("credentials_list"), lc_connect,
         lc_is_vm_running, lc_get_images, Call("keys") >>
  <2> SUFFICES Teaches("credentials_list", p)
    OBVIOUS
  <2>1. DOMAIN p = 1..6 /\ p[2] = Learn("credentials_list")
    BY DEF lc_connect, lc_get_images, lc_is_vm_running
  <2>13. ~Unlearns("credentials_list", p[3])
    <3>1. p[3] = Call("connect")
      BY DEF lc_connect, lc_get_images, lc_is_vm_running
    <3> HIDE DEF p
    <3> QED
      BY Zenon, <3>1, CallsKeep
  <2>14. ~Unlearns("credentials_list", p[4])
    <3>1. p[4] = Running("name", Stop)
      BY DEF lc_connect, lc_get_images, lc_is_vm_running
    <3> HIDE DEF p
    <3> QED
      BY Zenon, <3>1, CallsKeep
  <2>15. ~Unlearns("credentials_list", p[5])
    <3>1. p[5] = Call("images")
      BY DEF lc_connect, lc_get_images, lc_is_vm_running
    <3> HIDE DEF p
    <3> QED
      BY Zenon, <3>1, CallsKeep
  <2>16. ~Unlearns("credentials_list", p[6])
    <3>1. p[6] = Call("keys")
      BY DEF lc_connect, lc_get_images, lc_is_vm_running
    <3> HIDE DEF p
    <3> QED
      BY Zenon, <3>1, CallsKeep
  <2> HIDE DEF p
  <2> QED
    BY <2>1, <2>13, <2>14, <2>15, <2>16, TeachesIf
<1> QED
  BY <1>1, <1>2, <1>3, <1>4, <1>5, <1>7, <1>8, <1>9, <1>10, <1>11, <1>12

(* Every vmcreate stores the id of each, after it has made it.             *)
LEMMA CreateTeaches ==
  ASSUME NEW d \in DriverNames, NEW r \in Known(d)
  PROVE  Teaches(r, vmcreate(d))
<1>1. Teaches("volume", osk_vmcreate)
  BY ZenonT(40), TeachingPieces, TeachesBefore, TeachesAfter, FitsIsSeq,
     CallsKept, KeepersPermitted, FitsConcat, List1, List2, List3, List7
     DEF osk_vmcreate, osk_connect, osk_is_vm_running, osk_vm_placement,
         osk_get_flavors, osk_get_images, osk_get_networks,
         osk_floating_ip_allocate, osk_vvcreate, osk_floating_ip_attach,
         wait_for_instance_ready, osk_is_vm_ready, wait_for_instance_boot,
         osk_get_host_and_instance_name, osk_get_ip_address
<1>2. Teaches("instance", ec2_vmcreate)
  <2>2. Fits("build", "ec2", << ec2_connect, ec2_is_vm_running, ec2_get_images,
         MakeBare("instance"), Tag("instance"), Learn("instance") >>)
    BY CallsPermitted, BuildersPermitted, List1, List2, List3, List6
       DEF Kinds, Owned, Known, Capacity, ec2_connect, ec2_is_vm_running,
           ec2_get_images, ec2_vvcreate, wait_for_instance_ready,
           ec2_is_vm_ready, wait_for_instance_boot, ec2_get_ip_address
  <2>3. Teaches("instance", << ec2_connect, ec2_is_vm_running, ec2_get_images,
         MakeBare("instance"), Tag("instance"), Learn("instance") >>) /\ IsSeq(<<
         ec2_connect, ec2_is_vm_running, ec2_get_images, MakeBare("instance"),
         Tag("instance"), Learn("instance") >>)
    BY <2>2, TeachingPieces, FitsIsSeq
  <2>4. Fits("keep", "instance", ec2_vvcreate)
    BY CallsPermitted, KeepersPermitted, FitsConcat, List1, List2, List3,
       List6
       DEF Kinds, ec2_connect, ec2_is_vm_running, ec2_get_images,
           ec2_vvcreate, wait_for_instance_ready, ec2_is_vm_ready,
           wait_for_instance_boot, ec2_get_ip_address
  <2>5. Fits("build", "ec2", ec2_vvcreate)
    BY CallsPermitted, BuildersPermitted, FitsConcat, List1, List2, List3,
       List6
       DEF Kinds, Owned, Known, Capacity, ec2_connect, ec2_is_vm_running,
           ec2_get_images, ec2_vvcreate, wait_for_instance_ready,
           ec2_is_vm_ready, wait_for_instance_boot, ec2_get_ip_address
  <2>6. Teaches("instance", (<< ec2_connect, ec2_is_vm_running, ec2_get_images,
         MakeBare("instance"), Tag("instance"), Learn("instance") >>) \o
         ec2_vvcreate) /\ IsSeq((<< ec2_connect, ec2_is_vm_running, ec2_get_images,
         MakeBare("instance"), Tag("instance"), Learn("instance") >>) \o
         ec2_vvcreate)
    BY <2>2, <2>3, <2>5, <2>4, TeachesBefore, FitsIsSeq, FitsConcat
  <2>7. Fits("keep", "instance", wait_for_instance_ready(ec2_is_vm_ready))
    BY CallsPermitted, KeepersPermitted, FitsConcat, List1, List2, List3,
       List6
       DEF Kinds, ec2_connect, ec2_is_vm_running, ec2_get_images,
           ec2_vvcreate, wait_for_instance_ready, ec2_is_vm_ready,
           wait_for_instance_boot, ec2_get_ip_address
  <2>8. Fits("build", "ec2", wait_for_instance_ready(ec2_is_vm_ready))
    BY CallsPermitted, BuildersPermitted, FitsConcat, List1, List2, List3,
       List6
       DEF Kinds, Owned, Known, Capacity, ec2_connect, ec2_is_vm_running,
           ec2_get_images, ec2_vvcreate, wait_for_instance_ready,
           ec2_is_vm_ready, wait_for_instance_boot, ec2_get_ip_address
  <2>9. Teaches("instance", ((<< ec2_connect, ec2_is_vm_running, ec2_get_images,
         MakeBare("instance"), Tag("instance"), Learn("instance") >>) \o
         ec2_vvcreate) \o wait_for_instance_ready(ec2_is_vm_ready)) /\ IsSeq(((<<
         ec2_connect, ec2_is_vm_running, ec2_get_images, MakeBare("instance"),
         Tag("instance"), Learn("instance") >>) \o ec2_vvcreate) \o
         wait_for_instance_ready(ec2_is_vm_ready))
    BY <2>2, <2>6, <2>5, <2>8, <2>7, TeachesBefore, FitsIsSeq, FitsConcat
  <2>10. Fits("keep", "instance", << Call("attach volume"), wait_for_instance_boot >>)
    BY CallsPermitted, KeepersPermitted, FitsConcat, List1, List2, List3,
       List6
       DEF Kinds, ec2_connect, ec2_is_vm_running, ec2_get_images,
           ec2_vvcreate, wait_for_instance_ready, ec2_is_vm_ready,
           wait_for_instance_boot, ec2_get_ip_address
  <2>11. Fits("build", "ec2", << Call("attach volume"), wait_for_instance_boot >>)
    BY CallsPermitted, BuildersPermitted, FitsConcat, List1, List2, List3,
       List6
       DEF Kinds, Owned, Known, Capacity, ec2_connect, ec2_is_vm_running,
           ec2_get_images, ec2_vvcreate, wait_for_instance_ready,
           ec2_is_vm_ready, wait_for_instance_boot, ec2_get_ip_address
  <2>12. Teaches("instance", (((<< ec2_connect, ec2_is_vm_running, ec2_get_images,
         MakeBare("instance"), Tag("instance"), Learn("instance") >>) \o
         ec2_vvcreate) \o wait_for_instance_ready(ec2_is_vm_ready)) \o <<
         Call("attach volume"), wait_for_instance_boot >>) /\ IsSeq((((<<
         ec2_connect, ec2_is_vm_running, ec2_get_images, MakeBare("instance"),
         Tag("instance"), Learn("instance") >>) \o ec2_vvcreate) \o
         wait_for_instance_ready(ec2_is_vm_ready)) \o << Call("attach volume"),
         wait_for_instance_boot >>)
    BY <2>2, <2>9, <2>5, <2>8, <2>11, <2>10, TeachesBefore, FitsIsSeq, FitsConcat
  <2> QED
    BY <2>12 DEF ec2_vmcreate
<1>3. Teaches("volume", ec2_vmcreate)
  <2>1. Fits("build", "ec2", << ec2_connect, ec2_is_vm_running, ec2_get_images,
         MakeBare("instance"), Tag("instance"), Learn("instance") >>)
    BY CallsPermitted, BuildersPermitted, FitsConcat, List1, List2, List3,
       List6
       DEF Kinds, Owned, Known, Capacity, ec2_connect, ec2_is_vm_running,
           ec2_get_images, ec2_vvcreate, wait_for_instance_ready,
           ec2_is_vm_ready, wait_for_instance_boot, ec2_get_ip_address
  <2>2. Fits("build", "ec2", ec2_vvcreate)
    BY CallsPermitted, BuildersPermitted, List1, List2, List3, List6
       DEF Kinds, Owned, Known, Capacity, ec2_connect, ec2_is_vm_running,
           ec2_get_images, ec2_vvcreate, wait_for_instance_ready,
           ec2_is_vm_ready, wait_for_instance_boot, ec2_get_ip_address
  <2>3. Teaches("volume", (<< ec2_connect, ec2_is_vm_running, ec2_get_images,
         MakeBare("instance"), Tag("instance"), Learn("instance") >>) \o
         ec2_vvcreate) /\ IsSeq((<< ec2_connect, ec2_is_vm_running, ec2_get_images,
         MakeBare("instance"), Tag("instance"), Learn("instance") >>) \o
         ec2_vvcreate)
    BY <2>1, <2>2, TeachingPieces, TeachesAfter, FitsIsSeq, FitsConcat
  <2>4. Fits("keep", "volume", wait_for_instance_ready(ec2_is_vm_ready))
    BY CallsPermitted, KeepersPermitted, FitsConcat, List1, List2, List3,
       List6
       DEF Kinds, ec2_connect, ec2_is_vm_running, ec2_get_images,
           ec2_vvcreate, wait_for_instance_ready, ec2_is_vm_ready,
           wait_for_instance_boot, ec2_get_ip_address
  <2>5. Fits("build", "ec2", wait_for_instance_ready(ec2_is_vm_ready))
    BY CallsPermitted, BuildersPermitted, FitsConcat, List1, List2, List3,
       List6
       DEF Kinds, Owned, Known, Capacity, ec2_connect, ec2_is_vm_running,
           ec2_get_images, ec2_vvcreate, wait_for_instance_ready,
           ec2_is_vm_ready, wait_for_instance_boot, ec2_get_ip_address
  <2>6. Teaches("volume", ((<< ec2_connect, ec2_is_vm_running, ec2_get_images,
         MakeBare("instance"), Tag("instance"), Learn("instance") >>) \o
         ec2_vvcreate) \o wait_for_instance_ready(ec2_is_vm_ready)) /\ IsSeq(((<<
         ec2_connect, ec2_is_vm_running, ec2_get_images, MakeBare("instance"),
         Tag("instance"), Learn("instance") >>) \o ec2_vvcreate) \o
         wait_for_instance_ready(ec2_is_vm_ready))
    BY <2>1, <2>2, <2>3, <2>5, <2>4, TeachesBefore, FitsIsSeq, FitsConcat
  <2>7. Fits("keep", "volume", << Call("attach volume"), wait_for_instance_boot >>)
    BY CallsPermitted, KeepersPermitted, FitsConcat, List1, List2, List3,
       List6
       DEF Kinds, ec2_connect, ec2_is_vm_running, ec2_get_images,
           ec2_vvcreate, wait_for_instance_ready, ec2_is_vm_ready,
           wait_for_instance_boot, ec2_get_ip_address
  <2>8. Fits("build", "ec2", << Call("attach volume"), wait_for_instance_boot >>)
    BY CallsPermitted, BuildersPermitted, FitsConcat, List1, List2, List3,
       List6
       DEF Kinds, Owned, Known, Capacity, ec2_connect, ec2_is_vm_running,
           ec2_get_images, ec2_vvcreate, wait_for_instance_ready,
           ec2_is_vm_ready, wait_for_instance_boot, ec2_get_ip_address
  <2>9. Teaches("volume", (((<< ec2_connect, ec2_is_vm_running, ec2_get_images,
         MakeBare("instance"), Tag("instance"), Learn("instance") >>) \o
         ec2_vvcreate) \o wait_for_instance_ready(ec2_is_vm_ready)) \o <<
         Call("attach volume"), wait_for_instance_boot >>) /\ IsSeq((((<<
         ec2_connect, ec2_is_vm_running, ec2_get_images, MakeBare("instance"),
         Tag("instance"), Learn("instance") >>) \o ec2_vvcreate) \o
         wait_for_instance_ready(ec2_is_vm_ready)) \o << Call("attach volume"),
         wait_for_instance_boot >>)
    BY <2>1, <2>2, <2>6, <2>5, <2>8, <2>7, TeachesBefore, FitsIsSeq, FitsConcat
  <2> QED
    BY <2>9 DEF ec2_vmcreate
<1>4. Teaches("volume", pdm_vmcreate)
  BY TeachingPieces, TeachesBefore, TeachesAfter, FitsIsSeq, CallsKept,
     KeepersPermitted, FitsConcat, List1, List2, List4
     DEF pdm_vmcreate, pdm_connect, pdm_is_vm_running, pdm_vm_placement,
         pdm_get_images, pdm_vvcreate, ReadyAndBoot, pdm_is_vm_ready,
         wait_for_instance_ready, wait_for_instance_boot, pdm_get_ip_address
<1>5. Teaches("boot volume", plm_vmcreate)
  BY TeachingPieces, TeachesBefore, TeachesAfter, FitsIsSeq, CallsKept,
     KeepersPermitted, FitsConcat, List1, List2, List3, List4
     DEF plm_vmcreate, plm_connect, plm_is_vm_running, plm_get_images,
         plm_get_networks, plm_vvcreate, plm_ship_cloud_init_iso,
         ReadyAndBoot, plm_is_vm_ready, wait_for_instance_ready,
         wait_for_instance_boot, plm_get_ip_address
<1>6. Teaches("volume", plm_vmcreate)
  BY TeachingPieces, TeachesBefore, TeachesAfter, FitsIsSeq, CallsKept,
     KeepersPermitted, FitsConcat, List1, List2, List3, List4
     DEF plm_vmcreate, plm_connect, plm_is_vm_running, plm_get_images,
         plm_get_networks, plm_vvcreate, plm_ship_cloud_init_iso,
         ReadyAndBoot, plm_is_vm_ready, wait_for_instance_ready,
         wait_for_instance_boot, plm_get_ip_address
<1>7. Teaches("instance", slr_vmcreate)
  <2>2. Fits("build", "slr", << slr_connect, slr_is_vm_running, slr_get_images,
         Call("keys"), MakeNamed("instance"), Learn("instance") >>)
    BY CallsPermitted, BuildersPermitted, List1, List3, List6
       DEF Kinds, Owned, Known, Capacity, slr_connect, slr_is_vm_running,
           slr_get_images, ReadyAndBoot, slr_is_vm_ready,
           wait_for_instance_ready, wait_for_instance_boot, slr_get_ip_address
  <2>3. Teaches("instance", << slr_connect, slr_is_vm_running, slr_get_images,
         Call("keys"), MakeNamed("instance"), Learn("instance") >>) /\ IsSeq(<<
         slr_connect, slr_is_vm_running, slr_get_images, Call("keys"),
         MakeNamed("instance"), Learn("instance") >>)
    BY <2>2, TeachingPieces, FitsIsSeq
  <2>4. Fits("keep", "instance", ReadyAndBoot(slr_is_vm_ready))
    BY CallsPermitted, KeepersPermitted, FitsConcat, List1, List3, List6
       DEF Kinds, slr_connect, slr_is_vm_running, slr_get_images,
           ReadyAndBoot, slr_is_vm_ready, wait_for_instance_ready,
           wait_for_instance_boot, slr_get_ip_address
  <2>5. Fits("build", "slr", ReadyAndBoot(slr_is_vm_ready))
    BY CallsPermitted, BuildersPermitted, FitsConcat, List1, List3, List6
       DEF Kinds, Owned, Known, Capacity, slr_connect, slr_is_vm_running,
           slr_get_images, ReadyAndBoot, slr_is_vm_ready,
           wait_for_instance_ready, wait_for_instance_boot, slr_get_ip_address
  <2>6. Teaches("instance", (<< slr_connect, slr_is_vm_running, slr_get_images,
         Call("keys"), MakeNamed("instance"), Learn("instance") >>) \o
         ReadyAndBoot(slr_is_vm_ready)) /\ IsSeq((<< slr_connect, slr_is_vm_running,
         slr_get_images, Call("keys"), MakeNamed("instance"), Learn("instance") >>)
         \o ReadyAndBoot(slr_is_vm_ready))
    BY <2>2, <2>3, <2>5, <2>4, TeachesBefore, FitsIsSeq, FitsConcat
  <2> QED
    BY <2>6 DEF slr_vmcreate
<1>8. Teaches("instance", ntnx_vmcreate)
  <2>2. Fits("build", "ntnx", << ntnx_connect, ntnx_is_vm_running, ntnx_get_images,
         ntnx_get_networks, MakeNamed("instance"), Call("lookup"),
         Learn("instance"), ntnx_get_mac_address >>)
    BY CallsPermitted, BuildersPermitted, List1, List2, List8
       DEF Kinds, Owned, Known, Capacity, ntnx_connect, ntnx_is_vm_running,
           ntnx_get_images, ntnx_get_networks, ntnx_get_mac_address,
           ReadyAndBoot, ntnx_is_vm_ready, ntnx_get_host_and_instance_name,
           wait_for_instance_ready, wait_for_instance_boot,
           ntnx_get_ip_address
  <2>3. Teaches("instance", << ntnx_connect, ntnx_is_vm_running, ntnx_get_images,
         ntnx_get_networks, MakeNamed("instance"), Call("lookup"),
         Learn("instance"), ntnx_get_mac_address >>) /\ IsSeq(<< ntnx_connect,
         ntnx_is_vm_running, ntnx_get_images, ntnx_get_networks,
         MakeNamed("instance"), Call("lookup"), Learn("instance"),
         ntnx_get_mac_address >>)
    BY <2>2, TeachingPieces, FitsIsSeq
  <2>4. Fits("keep", "instance", ReadyAndBoot(ntnx_is_vm_ready))
    BY CallsPermitted, KeepersPermitted, FitsConcat, List1, List2, List8
       DEF Kinds, ntnx_connect, ntnx_is_vm_running, ntnx_get_images,
           ntnx_get_networks, ntnx_get_mac_address, ReadyAndBoot,
           ntnx_is_vm_ready, ntnx_get_host_and_instance_name,
           wait_for_instance_ready, wait_for_instance_boot,
           ntnx_get_ip_address
  <2>5. Fits("build", "ntnx", ReadyAndBoot(ntnx_is_vm_ready))
    BY CallsPermitted, BuildersPermitted, FitsConcat, List1, List2, List8
       DEF Kinds, Owned, Known, Capacity, ntnx_connect, ntnx_is_vm_running,
           ntnx_get_images, ntnx_get_networks, ntnx_get_mac_address,
           ReadyAndBoot, ntnx_is_vm_ready, ntnx_get_host_and_instance_name,
           wait_for_instance_ready, wait_for_instance_boot,
           ntnx_get_ip_address
  <2>6. Teaches("instance", (<< ntnx_connect, ntnx_is_vm_running, ntnx_get_images,
         ntnx_get_networks, MakeNamed("instance"), Call("lookup"),
         Learn("instance"), ntnx_get_mac_address >>) \o
         ReadyAndBoot(ntnx_is_vm_ready)) /\ IsSeq((<< ntnx_connect,
         ntnx_is_vm_running, ntnx_get_images, ntnx_get_networks,
         MakeNamed("instance"), Call("lookup"), Learn("instance"),
         ntnx_get_mac_address >>) \o ReadyAndBoot(ntnx_is_vm_ready))
    BY <2>2, <2>3, <2>5, <2>4, TeachesBefore, FitsIsSeq, FitsConcat
  <2>7. Fits("keep", "instance", << ntnx_get_host_and_instance_name >>)
    BY CallsPermitted, KeepersPermitted, FitsConcat, List1, List2, List8
       DEF Kinds, ntnx_connect, ntnx_is_vm_running, ntnx_get_images,
           ntnx_get_networks, ntnx_get_mac_address, ReadyAndBoot,
           ntnx_is_vm_ready, ntnx_get_host_and_instance_name,
           wait_for_instance_ready, wait_for_instance_boot,
           ntnx_get_ip_address
  <2>8. Fits("build", "ntnx", << ntnx_get_host_and_instance_name >>)
    BY CallsPermitted, BuildersPermitted, FitsConcat, List1, List2, List8
       DEF Kinds, Owned, Known, Capacity, ntnx_connect, ntnx_is_vm_running,
           ntnx_get_images, ntnx_get_networks, ntnx_get_mac_address,
           ReadyAndBoot, ntnx_is_vm_ready, ntnx_get_host_and_instance_name,
           wait_for_instance_ready, wait_for_instance_boot,
           ntnx_get_ip_address
  <2>9. Teaches("instance", ((<< ntnx_connect, ntnx_is_vm_running, ntnx_get_images,
         ntnx_get_networks, MakeNamed("instance"), Call("lookup"),
         Learn("instance"), ntnx_get_mac_address >>) \o
         ReadyAndBoot(ntnx_is_vm_ready)) \o << ntnx_get_host_and_instance_name >>)
         /\ IsSeq(((<< ntnx_connect, ntnx_is_vm_running, ntnx_get_images,
         ntnx_get_networks, MakeNamed("instance"), Call("lookup"),
         Learn("instance"), ntnx_get_mac_address >>) \o
         ReadyAndBoot(ntnx_is_vm_ready)) \o << ntnx_get_host_and_instance_name >>)
    BY <2>2, <2>6, <2>5, <2>8, <2>7, TeachesBefore, FitsIsSeq, FitsConcat
  <2> QED
    BY <2>9 DEF ntnx_vmcreate
<1>9. Teaches("volume", lc_vmcreate(<< >>, lc_vvcreate))
  <2>1. Fits("build", "lc", << lc_rotate_token, Learn("credentials_list"),
         lc_connect, lc_is_vm_running, lc_get_images, Call("keys") >> \o << >>)
    BY CallsPermitted, BuildersPermitted, FitsConcat, List0, List1, List2,
       List6
       DEF Kinds, Owned, Known, Capacity, lc_vvcreate, lc_rotate_token,
           lc_connect, lc_is_vm_running, lc_get_images,
           wait_for_instance_ready, lc_is_vm_ready, wait_for_instance_boot,
           lc_get_ip_address
  <2>2. Fits("build", "lc", lc_vvcreate)
    BY CallsPermitted, BuildersPermitted, List0, List1, List2, List6
       DEF Kinds, Owned, Known, Capacity, lc_vvcreate, lc_rotate_token,
           lc_connect, lc_is_vm_running, lc_get_images,
           wait_for_instance_ready, lc_is_vm_ready, wait_for_instance_boot,
           lc_get_ip_address
  <2>3. Teaches("volume", (<< lc_rotate_token, Learn("credentials_list"),
         lc_connect, lc_is_vm_running, lc_get_images, Call("keys") >> \o << >>) \o
         lc_vvcreate) /\ IsSeq((<< lc_rotate_token, Learn("credentials_list"),
         lc_connect, lc_is_vm_running, lc_get_images, Call("keys") >> \o << >>) \o
         lc_vvcreate)
    BY <2>1, <2>2, TeachingPieces, TeachesAfter, FitsIsSeq, FitsConcat
  <2>4. Fits("keep", "volume", << MakeNamed("instance"), Learn("instance") >>)
    BY CallsPermitted, KeepersPermitted, FitsConcat, List0, List1, List2,
       List6
       DEF Kinds, lc_vvcreate, lc_rotate_token, lc_connect, lc_is_vm_running,
           lc_get_images, wait_for_instance_ready, lc_is_vm_ready,
           wait_for_instance_boot, lc_get_ip_address
  <2>5. Fits("build", "lc", << MakeNamed("instance"), Learn("instance") >>)
    BY CallsPermitted, BuildersPermitted, FitsConcat, List0, List1, List2,
       List6
       DEF Kinds, Owned, Known, Capacity, lc_vvcreate, lc_rotate_token,
           lc_connect, lc_is_vm_running, lc_get_images,
           wait_for_instance_ready, lc_is_vm_ready, wait_for_instance_boot,
           lc_get_ip_address
  <2>6. Teaches("volume", ((<< lc_rotate_token, Learn("credentials_list"),
         lc_connect, lc_is_vm_running, lc_get_images, Call("keys") >> \o << >>) \o
         lc_vvcreate) \o << MakeNamed("instance"), Learn("instance") >>) /\
         IsSeq(((<< lc_rotate_token, Learn("credentials_list"), lc_connect,
         lc_is_vm_running, lc_get_images, Call("keys") >> \o << >>) \o lc_vvcreate)
         \o << MakeNamed("instance"), Learn("instance") >>)
    BY <2>1, <2>2, <2>3, <2>5, <2>4, TeachesBefore, FitsIsSeq, FitsConcat
  <2>7. Fits("keep", "volume", wait_for_instance_ready(lc_is_vm_ready))
    BY CallsPermitted, KeepersPermitted, FitsConcat, List0, List1, List2,
       List6
       DEF Kinds, lc_vvcreate, lc_rotate_token, lc_connect, lc_is_vm_running,
           lc_get_images, wait_for_instance_ready, lc_is_vm_ready,
           wait_for_instance_boot, lc_get_ip_address
  <2>8. Fits("build", "lc", wait_for_instance_ready(lc_is_vm_ready))
    BY CallsPermitted, BuildersPermitted, FitsConcat, List0, List1, List2,
       List6
       DEF Kinds, Owned, Known, Capacity, lc_vvcreate, lc_rotate_token,
           lc_connect, lc_is_vm_running, lc_get_images,
           wait_for_instance_ready, lc_is_vm_ready, wait_for_instance_boot,
           lc_get_ip_address
  <2>9. Teaches("volume", (((<< lc_rotate_token, Learn("credentials_list"),
         lc_connect, lc_is_vm_running, lc_get_images, Call("keys") >> \o << >>) \o
         lc_vvcreate) \o << MakeNamed("instance"), Learn("instance") >>) \o
         wait_for_instance_ready(lc_is_vm_ready)) /\ IsSeq((((<< lc_rotate_token,
         Learn("credentials_list"), lc_connect, lc_is_vm_running, lc_get_images,
         Call("keys") >> \o << >>) \o lc_vvcreate) \o << MakeNamed("instance"),
         Learn("instance") >>) \o wait_for_instance_ready(lc_is_vm_ready))
    BY <2>1, <2>2, <2>6, <2>5, <2>8, <2>7, TeachesBefore, FitsIsSeq, FitsConcat
  <2>10. Fits("keep", "volume", << Call("attach volume"), wait_for_instance_boot >>)
    BY CallsPermitted, KeepersPermitted, FitsConcat, List0, List1, List2,
       List6
       DEF Kinds, lc_vvcreate, lc_rotate_token, lc_connect, lc_is_vm_running,
           lc_get_images, wait_for_instance_ready, lc_is_vm_ready,
           wait_for_instance_boot, lc_get_ip_address
  <2>11. Fits("build", "lc", << Call("attach volume"), wait_for_instance_boot >>)
    BY CallsPermitted, BuildersPermitted, FitsConcat, List0, List1, List2,
       List6
       DEF Kinds, Owned, Known, Capacity, lc_vvcreate, lc_rotate_token,
           lc_connect, lc_is_vm_running, lc_get_images,
           wait_for_instance_ready, lc_is_vm_ready, wait_for_instance_boot,
           lc_get_ip_address
  <2>12. Teaches("volume", ((((<< lc_rotate_token, Learn("credentials_list"),
         lc_connect, lc_is_vm_running, lc_get_images, Call("keys") >> \o << >>) \o
         lc_vvcreate) \o << MakeNamed("instance"), Learn("instance") >>) \o
         wait_for_instance_ready(lc_is_vm_ready)) \o << Call("attach volume"),
         wait_for_instance_boot >>) /\ IsSeq(((((<< lc_rotate_token,
         Learn("credentials_list"), lc_connect, lc_is_vm_running, lc_get_images,
         Call("keys") >> \o << >>) \o lc_vvcreate) \o << MakeNamed("instance"),
         Learn("instance") >>) \o wait_for_instance_ready(lc_is_vm_ready)) \o <<
         Call("attach volume"), wait_for_instance_boot >>)
    BY <2>1, <2>2, <2>9, <2>5, <2>8, <2>11, <2>10, TeachesBefore, FitsIsSeq, FitsConcat
  <2> QED
    BY <2>12 DEF lc_vmcreate
<1>10. Teaches("credentials_list", lc_vmcreate(<< >>, lc_vvcreate))
  <2>2. Fits("build", "lc", << lc_rotate_token, Learn("credentials_list"),
         lc_connect, lc_is_vm_running, lc_get_images, Call("keys") >>)
    BY CallsPermitted, BuildersPermitted, List0, List1, List2, List6
       DEF Kinds, Owned, Known, Capacity, lc_vvcreate, lc_rotate_token,
           lc_connect, lc_is_vm_running, lc_get_images,
           wait_for_instance_ready, lc_is_vm_ready, wait_for_instance_boot,
           lc_get_ip_address
  <2>3. Teaches("credentials_list", << lc_rotate_token, Learn("credentials_list"),
         lc_connect, lc_is_vm_running, lc_get_images, Call("keys") >>) /\ IsSeq(<<
         lc_rotate_token, Learn("credentials_list"), lc_connect, lc_is_vm_running,
         lc_get_images, Call("keys") >>)
    BY <2>2, TeachingPieces, FitsIsSeq
  <2>4. Fits("keep", "credentials_list", << >>)
    BY CallsPermitted, KeepersPermitted, FitsConcat, List0, List1, List2,
       List6
       DEF Kinds, lc_vvcreate, lc_rotate_token, lc_connect, lc_is_vm_running,
           lc_get_images, wait_for_instance_ready, lc_is_vm_ready,
           wait_for_instance_boot, lc_get_ip_address
  <2>5. Fits("build", "lc", << >>)
    BY CallsPermitted, BuildersPermitted, FitsConcat, List0, List1, List2,
       List6
       DEF Kinds, Owned, Known, Capacity, lc_vvcreate, lc_rotate_token,
           lc_connect, lc_is_vm_running, lc_get_images,
           wait_for_instance_ready, lc_is_vm_ready, wait_for_instance_boot,
           lc_get_ip_address
  <2>6. Teaches("credentials_list", (<< lc_rotate_token, Learn("credentials_list"),
         lc_connect, lc_is_vm_running, lc_get_images, Call("keys") >>) \o << >>) /\
         IsSeq((<< lc_rotate_token, Learn("credentials_list"), lc_connect,
         lc_is_vm_running, lc_get_images, Call("keys") >>) \o << >>)
    BY <2>2, <2>3, <2>5, <2>4, TeachesBefore, FitsIsSeq, FitsConcat
  <2>7. Fits("keep", "credentials_list", lc_vvcreate)
    BY CallsPermitted, KeepersPermitted, FitsConcat, List0, List1, List2,
       List6
       DEF Kinds, lc_vvcreate, lc_rotate_token, lc_connect, lc_is_vm_running,
           lc_get_images, wait_for_instance_ready, lc_is_vm_ready,
           wait_for_instance_boot, lc_get_ip_address
  <2>8. Fits("build", "lc", lc_vvcreate)
    BY CallsPermitted, BuildersPermitted, FitsConcat, List0, List1, List2,
       List6
       DEF Kinds, Owned, Known, Capacity, lc_vvcreate, lc_rotate_token,
           lc_connect, lc_is_vm_running, lc_get_images,
           wait_for_instance_ready, lc_is_vm_ready, wait_for_instance_boot,
           lc_get_ip_address
  <2>9. Teaches("credentials_list", ((<< lc_rotate_token, Learn("credentials_list"),
         lc_connect, lc_is_vm_running, lc_get_images, Call("keys") >>) \o << >>) \o
         lc_vvcreate) /\ IsSeq(((<< lc_rotate_token, Learn("credentials_list"),
         lc_connect, lc_is_vm_running, lc_get_images, Call("keys") >>) \o << >>) \o
         lc_vvcreate)
    BY <2>2, <2>6, <2>5, <2>8, <2>7, TeachesBefore, FitsIsSeq, FitsConcat
  <2>10. Fits("keep", "credentials_list", << MakeNamed("instance"), Learn("instance") >>)
    BY CallsPermitted, KeepersPermitted, FitsConcat, List0, List1, List2,
       List6
       DEF Kinds, lc_vvcreate, lc_rotate_token, lc_connect, lc_is_vm_running,
           lc_get_images, wait_for_instance_ready, lc_is_vm_ready,
           wait_for_instance_boot, lc_get_ip_address
  <2>11. Fits("build", "lc", << MakeNamed("instance"), Learn("instance") >>)
    BY CallsPermitted, BuildersPermitted, FitsConcat, List0, List1, List2,
       List6
       DEF Kinds, Owned, Known, Capacity, lc_vvcreate, lc_rotate_token,
           lc_connect, lc_is_vm_running, lc_get_images,
           wait_for_instance_ready, lc_is_vm_ready, wait_for_instance_boot,
           lc_get_ip_address
  <2>12. Teaches("credentials_list", (((<< lc_rotate_token,
         Learn("credentials_list"), lc_connect, lc_is_vm_running, lc_get_images,
         Call("keys") >>) \o << >>) \o lc_vvcreate) \o << MakeNamed("instance"),
         Learn("instance") >>) /\ IsSeq((((<< lc_rotate_token,
         Learn("credentials_list"), lc_connect, lc_is_vm_running, lc_get_images,
         Call("keys") >>) \o << >>) \o lc_vvcreate) \o << MakeNamed("instance"),
         Learn("instance") >>)
    BY <2>2, <2>9, <2>5, <2>8, <2>11, <2>10, TeachesBefore, FitsIsSeq, FitsConcat
  <2>13. Fits("keep", "credentials_list", wait_for_instance_ready(lc_is_vm_ready))
    BY CallsPermitted, KeepersPermitted, FitsConcat, List0, List1, List2,
       List6
       DEF Kinds, lc_vvcreate, lc_rotate_token, lc_connect, lc_is_vm_running,
           lc_get_images, wait_for_instance_ready, lc_is_vm_ready,
           wait_for_instance_boot, lc_get_ip_address
  <2>14. Fits("build", "lc", wait_for_instance_ready(lc_is_vm_ready))
    BY CallsPermitted, BuildersPermitted, FitsConcat, List0, List1, List2,
       List6
       DEF Kinds, Owned, Known, Capacity, lc_vvcreate, lc_rotate_token,
           lc_connect, lc_is_vm_running, lc_get_images,
           wait_for_instance_ready, lc_is_vm_ready, wait_for_instance_boot,
           lc_get_ip_address
  <2>15. Teaches("credentials_list", ((((<< lc_rotate_token,
         Learn("credentials_list"), lc_connect, lc_is_vm_running, lc_get_images,
         Call("keys") >>) \o << >>) \o lc_vvcreate) \o << MakeNamed("instance"),
         Learn("instance") >>) \o wait_for_instance_ready(lc_is_vm_ready)) /\
         IsSeq(((((<< lc_rotate_token, Learn("credentials_list"), lc_connect,
         lc_is_vm_running, lc_get_images, Call("keys") >>) \o << >>) \o lc_vvcreate)
         \o << MakeNamed("instance"), Learn("instance") >>) \o
         wait_for_instance_ready(lc_is_vm_ready))
    BY <2>2, <2>12, <2>5, <2>8, <2>11, <2>14, <2>13, TeachesBefore, FitsIsSeq, FitsConcat
  <2>16. Fits("keep", "credentials_list", << Call("attach volume"), wait_for_instance_boot >>)
    BY CallsPermitted, KeepersPermitted, FitsConcat, List0, List1, List2,
       List6
       DEF Kinds, lc_vvcreate, lc_rotate_token, lc_connect, lc_is_vm_running,
           lc_get_images, wait_for_instance_ready, lc_is_vm_ready,
           wait_for_instance_boot, lc_get_ip_address
  <2>17. Fits("build", "lc", << Call("attach volume"), wait_for_instance_boot >>)
    BY CallsPermitted, BuildersPermitted, FitsConcat, List0, List1, List2,
       List6
       DEF Kinds, Owned, Known, Capacity, lc_vvcreate, lc_rotate_token,
           lc_connect, lc_is_vm_running, lc_get_images,
           wait_for_instance_ready, lc_is_vm_ready, wait_for_instance_boot,
           lc_get_ip_address
  <2>18. Teaches("credentials_list", (((((<< lc_rotate_token,
         Learn("credentials_list"), lc_connect, lc_is_vm_running, lc_get_images,
         Call("keys") >>) \o << >>) \o lc_vvcreate) \o << MakeNamed("instance"),
         Learn("instance") >>) \o wait_for_instance_ready(lc_is_vm_ready)) \o <<
         Call("attach volume"), wait_for_instance_boot >>) /\ IsSeq((((((<<
         lc_rotate_token, Learn("credentials_list"), lc_connect, lc_is_vm_running,
         lc_get_images, Call("keys") >>) \o << >>) \o lc_vvcreate) \o <<
         MakeNamed("instance"), Learn("instance") >>) \o
         wait_for_instance_ready(lc_is_vm_ready)) \o << Call("attach volume"),
         wait_for_instance_boot >>)
    BY <2>2, <2>15, <2>5, <2>8, <2>11, <2>14, <2>17, <2>16, TeachesBefore, FitsIsSeq, FitsConcat
  <2> QED
    BY <2>18 DEF lc_vmcreate
<1>11. Teaches("credentials_list", lc_vmcreate(as_pre_vmcreate_process, << >>))
  <2>2. Fits("build", "as", << lc_rotate_token, Learn("credentials_list"),
         lc_connect, lc_is_vm_running, lc_get_images, Call("keys") >>)
    BY CallsPermitted, BuildersPermitted, List0, List1, List2, List6
       DEF Kinds, Owned, Known, Capacity, as_pre_vmcreate_process,
           lc_rotate_token, lc_connect, lc_is_vm_running, lc_get_images,
           wait_for_instance_ready, lc_is_vm_ready, wait_for_instance_boot,
           lc_get_ip_address
  <2>3. Teaches("credentials_list", << lc_rotate_token, Learn("credentials_list"),
         lc_connect, lc_is_vm_running, lc_get_images, Call("keys") >>) /\ IsSeq(<<
         lc_rotate_token, Learn("credentials_list"), lc_connect, lc_is_vm_running,
         lc_get_images, Call("keys") >>)
    BY <2>2, TeachingPieces, FitsIsSeq
  <2>4. Fits("keep", "credentials_list", as_pre_vmcreate_process)
    BY CallsPermitted, KeepersPermitted, FitsConcat, List0, List1, List2,
       List6
       DEF Kinds, as_pre_vmcreate_process, lc_rotate_token, lc_connect,
           lc_is_vm_running, lc_get_images, wait_for_instance_ready,
           lc_is_vm_ready, wait_for_instance_boot, lc_get_ip_address
  <2>5. Fits("build", "as", as_pre_vmcreate_process)
    BY CallsPermitted, BuildersPermitted, FitsConcat, List0, List1, List2,
       List6
       DEF Kinds, Owned, Known, Capacity, as_pre_vmcreate_process,
           lc_rotate_token, lc_connect, lc_is_vm_running, lc_get_images,
           wait_for_instance_ready, lc_is_vm_ready, wait_for_instance_boot,
           lc_get_ip_address
  <2>6. Teaches("credentials_list", (<< lc_rotate_token, Learn("credentials_list"),
         lc_connect, lc_is_vm_running, lc_get_images, Call("keys") >>) \o
         as_pre_vmcreate_process) /\ IsSeq((<< lc_rotate_token,
         Learn("credentials_list"), lc_connect, lc_is_vm_running, lc_get_images,
         Call("keys") >>) \o as_pre_vmcreate_process)
    BY <2>2, <2>3, <2>5, <2>4, TeachesBefore, FitsIsSeq, FitsConcat
  <2>7. Fits("keep", "credentials_list", << >>)
    BY CallsPermitted, KeepersPermitted, FitsConcat, List0, List1, List2,
       List6
       DEF Kinds, as_pre_vmcreate_process, lc_rotate_token, lc_connect,
           lc_is_vm_running, lc_get_images, wait_for_instance_ready,
           lc_is_vm_ready, wait_for_instance_boot, lc_get_ip_address
  <2>8. Fits("build", "as", << >>)
    BY CallsPermitted, BuildersPermitted, FitsConcat, List0, List1, List2,
       List6
       DEF Kinds, Owned, Known, Capacity, as_pre_vmcreate_process,
           lc_rotate_token, lc_connect, lc_is_vm_running, lc_get_images,
           wait_for_instance_ready, lc_is_vm_ready, wait_for_instance_boot,
           lc_get_ip_address
  <2>9. Teaches("credentials_list", ((<< lc_rotate_token, Learn("credentials_list"),
         lc_connect, lc_is_vm_running, lc_get_images, Call("keys") >>) \o
         as_pre_vmcreate_process) \o << >>) /\ IsSeq(((<< lc_rotate_token,
         Learn("credentials_list"), lc_connect, lc_is_vm_running, lc_get_images,
         Call("keys") >>) \o as_pre_vmcreate_process) \o << >>)
    BY <2>2, <2>6, <2>5, <2>8, <2>7, TeachesBefore, FitsIsSeq, FitsConcat
  <2>10. Fits("keep", "credentials_list", << MakeNamed("instance"), Learn("instance") >>)
    BY CallsPermitted, KeepersPermitted, FitsConcat, List0, List1, List2,
       List6
       DEF Kinds, as_pre_vmcreate_process, lc_rotate_token, lc_connect,
           lc_is_vm_running, lc_get_images, wait_for_instance_ready,
           lc_is_vm_ready, wait_for_instance_boot, lc_get_ip_address
  <2>11. Fits("build", "as", << MakeNamed("instance"), Learn("instance") >>)
    BY CallsPermitted, BuildersPermitted, FitsConcat, List0, List1, List2,
       List6
       DEF Kinds, Owned, Known, Capacity, as_pre_vmcreate_process,
           lc_rotate_token, lc_connect, lc_is_vm_running, lc_get_images,
           wait_for_instance_ready, lc_is_vm_ready, wait_for_instance_boot,
           lc_get_ip_address
  <2>12. Teaches("credentials_list", (((<< lc_rotate_token,
         Learn("credentials_list"), lc_connect, lc_is_vm_running, lc_get_images,
         Call("keys") >>) \o as_pre_vmcreate_process) \o << >>) \o <<
         MakeNamed("instance"), Learn("instance") >>) /\ IsSeq((((<<
         lc_rotate_token, Learn("credentials_list"), lc_connect, lc_is_vm_running,
         lc_get_images, Call("keys") >>) \o as_pre_vmcreate_process) \o << >>) \o <<
         MakeNamed("instance"), Learn("instance") >>)
    BY <2>2, <2>9, <2>5, <2>8, <2>11, <2>10, TeachesBefore, FitsIsSeq, FitsConcat
  <2>13. Fits("keep", "credentials_list", wait_for_instance_ready(lc_is_vm_ready))
    BY CallsPermitted, KeepersPermitted, FitsConcat, List0, List1, List2,
       List6
       DEF Kinds, as_pre_vmcreate_process, lc_rotate_token, lc_connect,
           lc_is_vm_running, lc_get_images, wait_for_instance_ready,
           lc_is_vm_ready, wait_for_instance_boot, lc_get_ip_address
  <2>14. Fits("build", "as", wait_for_instance_ready(lc_is_vm_ready))
    BY CallsPermitted, BuildersPermitted, FitsConcat, List0, List1, List2,
       List6
       DEF Kinds, Owned, Known, Capacity, as_pre_vmcreate_process,
           lc_rotate_token, lc_connect, lc_is_vm_running, lc_get_images,
           wait_for_instance_ready, lc_is_vm_ready, wait_for_instance_boot,
           lc_get_ip_address
  <2>15. Teaches("credentials_list", ((((<< lc_rotate_token,
         Learn("credentials_list"), lc_connect, lc_is_vm_running, lc_get_images,
         Call("keys") >>) \o as_pre_vmcreate_process) \o << >>) \o <<
         MakeNamed("instance"), Learn("instance") >>) \o
         wait_for_instance_ready(lc_is_vm_ready)) /\ IsSeq(((((<< lc_rotate_token,
         Learn("credentials_list"), lc_connect, lc_is_vm_running, lc_get_images,
         Call("keys") >>) \o as_pre_vmcreate_process) \o << >>) \o <<
         MakeNamed("instance"), Learn("instance") >>) \o
         wait_for_instance_ready(lc_is_vm_ready))
    BY <2>2, <2>12, <2>5, <2>8, <2>11, <2>14, <2>13, TeachesBefore, FitsIsSeq, FitsConcat
  <2>16. Fits("keep", "credentials_list", << Call("attach volume"), wait_for_instance_boot >>)
    BY CallsPermitted, KeepersPermitted, FitsConcat, List0, List1, List2,
       List6
       DEF Kinds, as_pre_vmcreate_process, lc_rotate_token, lc_connect,
           lc_is_vm_running, lc_get_images, wait_for_instance_ready,
           lc_is_vm_ready, wait_for_instance_boot, lc_get_ip_address
  <2>17. Fits("build", "as", << Call("attach volume"), wait_for_instance_boot >>)
    BY CallsPermitted, BuildersPermitted, FitsConcat, List0, List1, List2,
       List6
       DEF Kinds, Owned, Known, Capacity, as_pre_vmcreate_process,
           lc_rotate_token, lc_connect, lc_is_vm_running, lc_get_images,
           wait_for_instance_ready, lc_is_vm_ready, wait_for_instance_boot,
           lc_get_ip_address
  <2>18. Teaches("credentials_list", (((((<< lc_rotate_token,
         Learn("credentials_list"), lc_connect, lc_is_vm_running, lc_get_images,
         Call("keys") >>) \o as_pre_vmcreate_process) \o << >>) \o <<
         MakeNamed("instance"), Learn("instance") >>) \o
         wait_for_instance_ready(lc_is_vm_ready)) \o << Call("attach volume"),
         wait_for_instance_boot >>) /\ IsSeq((((((<< lc_rotate_token,
         Learn("credentials_list"), lc_connect, lc_is_vm_running, lc_get_images,
         Call("keys") >>) \o as_pre_vmcreate_process) \o << >>) \o <<
         MakeNamed("instance"), Learn("instance") >>) \o
         wait_for_instance_ready(lc_is_vm_ready)) \o << Call("attach volume"),
         wait_for_instance_boot >>)
    BY <2>2, <2>15, <2>5, <2>8, <2>11, <2>14, <2>17, <2>16, TeachesBefore, FitsIsSeq, FitsConcat
  <2> QED
    BY <2>18 DEF lc_vmcreate
<1>12. Teaches("cores", sim_vmcreate)
  <2> DEFINE s == << Forget("cores"), Forget("memory"), sim_get_virtual_hardware_config,
                     sim_get_images >>
             c == sim_check_host_capacity
             u == sim_host_resource_update_create
             y == ReadyAndBoot(<< >>)
  <2>1. Fits("build", "sim", s) /\ Fits("build", "sim", c) /\ Fits("build", "sim", u)
        /\ Fits("build", "sim", y)
    BY CallsPermitted, BuildersPermitted, FitsConcat, List0, List1, List2,
       List3, List4
       DEF Kinds, Owned, Known, Capacity, sim_get_virtual_hardware_config,
           sim_get_images, ReadyAndBoot, sim_check_host_capacity,
           sim_host_resource_update_create, wait_for_instance_ready,
           wait_for_instance_boot
  <2>2. Fits("keep", "cores", u) /\ Fits("keep", "cores", y)
    BY CallsPermitted, KeepersPermitted, FitsConcat, List0, List1, List2,
       List3, List4
       DEF Kinds, sim_get_virtual_hardware_config, sim_get_images,
           ReadyAndBoot, sim_check_host_capacity,
           sim_host_resource_update_create, wait_for_instance_ready,
           wait_for_instance_boot
  <2>3. Teaches("cores", c)
    BY TeachingPieces
  <2> HIDE DEF s, c, u, y
  <2>4. Teaches("cores", c \o u) /\ IsSeq(c \o u) /\ Fits("build", "sim", c \o u)
    BY <2>1, <2>2, <2>3, TeachesBefore, FitsIsSeq, FitsConcat
  <2>5. Teaches("cores", s \o (c \o u)) /\ IsSeq(s \o (c \o u))
    BY <2>1, <2>4, TeachesAfter, FitsIsSeq, FitsConcat
  <2>6. Teaches("cores", (s \o (c \o u)) \o y)
    BY <2>2, <2>5, TeachesBefore, FitsIsSeq
  <2> QED
    BY <2>6 DEF s, c, u, y, sim_vmcreate, sim_vm_placement
<1>13. Teaches("memory", sim_vmcreate)
  <2> DEFINE s == << Forget("cores"), Forget("memory"), sim_get_virtual_hardware_config,
                     sim_get_images >>
             c == sim_check_host_capacity
             u == sim_host_resource_update_create
             y == ReadyAndBoot(<< >>)
  <2>1. Fits("build", "sim", s) /\ Fits("build", "sim", c) /\ Fits("build", "sim", u)
        /\ Fits("build", "sim", y)
    BY CallsPermitted, BuildersPermitted, FitsConcat, List0, List1, List2,
       List3, List4
       DEF Kinds, Owned, Known, Capacity, sim_get_virtual_hardware_config,
           sim_get_images, ReadyAndBoot, sim_check_host_capacity,
           sim_host_resource_update_create, wait_for_instance_ready,
           wait_for_instance_boot
  <2>2. Fits("keep", "memory", u) /\ Fits("keep", "memory", y)
    BY CallsPermitted, KeepersPermitted, FitsConcat, List0, List1, List2,
       List3, List4
       DEF Kinds, sim_get_virtual_hardware_config, sim_get_images,
           ReadyAndBoot, sim_check_host_capacity,
           sim_host_resource_update_create, wait_for_instance_ready,
           wait_for_instance_boot
  <2>3. Teaches("memory", c)
    BY TeachingPieces
  <2> HIDE DEF s, c, u, y
  <2>4. Teaches("memory", c \o u) /\ IsSeq(c \o u) /\ Fits("build", "sim", c \o u)
    BY <2>1, <2>2, <2>3, TeachesBefore, FitsIsSeq, FitsConcat
  <2>5. Teaches("memory", s \o (c \o u)) /\ IsSeq(s \o (c \o u))
    BY <2>1, <2>4, TeachesAfter, FitsIsSeq, FitsConcat
  <2>6. Teaches("memory", (s \o (c \o u)) \o y)
    BY <2>2, <2>5, TeachesBefore, FitsIsSeq
  <2> QED
    BY <2>6 DEF s, c, u, y, sim_vmcreate, sim_vm_placement
<1> QED
  BY <1>1, <1>2, <1>3, <1>4, <1>5, <1>6, <1>7, <1>8, <1>9, <1>10, <1>11,
     <1>12, <1>13, CreateOf DEF Known, Capacity, DriverNames

(* The tail of a program: what was ahead of it is still ahead, unless it   *)
(* was the next instruction.                                               *)
LEMMA TailTeaches ==
  ASSUME NEW r, NEW p, IsSeq(p), p # << >>
  PROVE  /\ Keeps(r, p) => Keeps(r, Tail(p)) /\ ~Unlearns(r, p[1])
         /\ Teaches(r, p) => \/ Teaches(r, Tail(p))
                             \/ p[1].on = r /\ p[1].do \in {"make", "learn"} /\ Keeps(r, Tail(p))
<1>1. /\ Len(p) \in Nat \ {0} /\ DOMAIN p = 1..Len(p)
      /\ DOMAIN Tail(p) = 1..Len(p) - 1
      /\ \A k \in 1..Len(p) - 1 : Tail(p)[k] = p[k+1]
  BY TailIs
<1>2. Keeps(r, p) => Keeps(r, Tail(p)) /\ ~Unlearns(r, p[1])
  <2>1. \A k \in 1..Len(p) - 1 : k+1 \in 1..Len(p)
    BY <1>1
  <2> QED
    BY <1>1, <2>1 DEF Keeps
<1>3. ASSUME NEW k \in DOMAIN p, p[k].on = r, p[k].do \in {"make", "learn"},
             \A j \in DOMAIN p : j > k => ~Unlearns(r, p[j])
      PROVE  \/ Teaches(r, Tail(p))
             \/ p[1].on = r /\ p[1].do \in {"make", "learn"} /\ Keeps(r, Tail(p))
  <2>1. ASSUME NEW j \in 1..Len(p) - 1, j + 1 > k PROVE ~Unlearns(r, Tail(p)[j])
    BY <1>1, <1>3, <2>1
  <2>2. CASE k = 1
    BY <1>1, <1>3, <2>1, <2>2 DEF Keeps
  <2>3. CASE k # 1
    <3>1. k - 1 \in DOMAIN Tail(p) /\ Tail(p)[k-1] = p[k]
      BY <1>1, <2>3
    <3>2. \A j \in DOMAIN Tail(p) : j > k - 1 => ~Unlearns(r, Tail(p)[j])
      BY <1>1, <2>1
    <3> QED
      BY <1>3, <3>1, <3>2 DEF Teaches
  <2> QED
    BY <2>2, <2>3
<1> QED
  BY <1>2, <1>3 DEF Teaches

(* What is known is no image.                                              *)
LEMMA NoImage == ASSUME NEW d PROVE "image" \notin Known(d) /\ "image name" \notin Known(d)
  BY DEF Known, Capacity

(* A vmcreate that goes on has stored the id or has still to; nothing else *)
(* loses it.                                                               *)
LEMMA KnowsIdsStep == ASSUME Shape, KnowsIds, [Next]_vars PROVE KnowsIds'
<1>1. CASE RunAction
  <2>1. Run
    BY <1>1, RunIs
  <2>2. UNCHANGED << drv, at >> /\ todo # << >>
    BY <2>1 DEF Run
  <2>3. CASE at \in Settled
    <3>1. \E kind \in {"remove", "switch", "copy"} : Fits(kind, drv, todo)
      BY <2>2, <2>3 DEF Shape, Settled, Idle, Over, Destroying
    <3>2. IsSeq(todo) /\ \E kind \in {"remove", "switch", "copy"} : Permits(kind, drv, todo[1])
      BY <2>2, <3>1, FitsTail DEF Fits
    <3>3. RunEffects(todo[1])
      BY <1>1, <3>2, EffectsAre
    <3>4. \/ todo[1].do \notin Makes \cup {"forget"}
          \/ todo[1].on \in {"image", "image name"}
      BY <3>2 DEF Permits, Removes, Switches, Copies, Makes, Drops
    <3>5. Known(drv) \subseteq ids
      BY <2>3 DEF KnowsIds
    <3>6. Known(drv) \subseteq ids'
      BY <3>3, <3>4, <3>5, NoImage DEF RunEffects
    <3> QED
      BY <2>2, <2>3, <3>6 DEF KnowsIds, Settled
  <2>4. CASE at = "creating" /\ ~broken'
    <3>1. ~broken /\ todo' = Tail(todo)
      BY <2>1, <2>4 DEF Run
    <3>2. IsSeq(todo) /\ Permits("build", drv, todo[1])
      BY <2>2, <2>4, FitsTail DEF Shape, Fits
    <3>3. RunEffects(todo[1])
      BY <1>1, <3>2, EffectsAre
    <3>4. ASSUME NEW r \in Known(drv), todo[1].on = r, todo[1].do \in Teaching
          PROVE  Step
      <4>1. "skip" \notin todo[1].err /\ Applies(todo[1])
        BY <3>2, <3>4, Unconditional DEF Permits, Builds
      <4> QED
        BY <1>1, <2>4, <3>2, <4>1, CarriedOut
    <3>5. Step /\ todo[1].do \in {"make", "learn"} => todo[1].on \in ids'
      <4>1. Current = {todo[1]}
        BY <2>2, <3>2, TailIs DEF Current
      <4> QED
        BY <4>1 DEF Step
    <3>6. ASSUME NEW r \in Known(drv)
          PROVE  Teaches(r, todo') \/ (r \in ids' /\ Keeps(r, todo'))
      <4>1. CASE Teaches(r, todo)
        <5>1. todo[1].do \in {"make", "learn"} => todo[1].do \in Teaching
          BY DEF Teaching, Makes
        <5> QED
          BY <2>2, <3>1, <3>2, <3>4, <3>5, <4>1, <5>1, TailTeaches
      <4>2. CASE r \in ids /\ Keeps(r, todo)
        <5>1. Keeps(r, todo') /\ ~Unlearns(r, todo[1])
          BY <2>2, <3>1, <3>2, <4>2, TailTeaches
        <5>2. CASE todo[1].on # r \/ todo[1].do \notin Makes \cup {"forget"}
          BY <3>3, <4>2, <5>1, <5>2 DEF RunEffects
        <5>3. CASE todo[1].on = r /\ todo[1].do \in Makes \cup {"forget"}
          <6>1. todo[1].do = "make"
            BY <5>1, <5>3 DEF Unlearns, Makes
          <6> QED
            BY <3>4, <3>5, <5>1, <5>3, <6>1 DEF Teaching, Makes
        <5> QED
          BY <5>2, <5>3
      <4> QED
        BY <2>4, <3>1, <4>1, <4>2 DEF KnowsIds
    <3> QED
      BY <2>2, <2>4, <3>6 DEF KnowsIds, Settled
  <2> QED
    BY <2>2, <2>3, <2>4 DEF KnowsIds
<1>2. CASE Move
  <2>1. drv' = drv
    BY <1>2 DEF Move
  <2>2. CASE ToCreate
    <3>1. drv \in DriverNames
      BY DEF Shape
    <3>2. at' = "creating" /\ todo' = vmcreate(drv)
      BY <2>2 DEF ToCreate
    <3> QED
      BY <2>1, <3>1, <3>2, CreateTeaches DEF KnowsIds, Settled
  <2>3. CASE ToUp
    <3>1. at' = "up" /\ ids' = ids /\ at = "creating" /\ ~broken /\ todo = << >>
      BY <2>3 DEF ToUp, Over
    <3>2. \A r : ~Teaches(r, << >>)
      BY DEF Teaches
    <3> QED
      BY <2>1, <3>1, <3>2 DEF KnowsIds
  <2>4. CASE ToDestroy \/ ToAttached \/ ToState \/ ToCapture
    <3>1. at \in Settled /\ at' # "creating" /\ ids' = ids
      BY <2>4 DEF ToDestroy, ToAttached, ToState, ToCapture, Settled
    <3> QED
      BY <2>1, <3>1 DEF KnowsIds
  <2>5. CASE ToTest \/ ToTested \/ ToRegister \/ ToNew \/ ToGone \/ ToUndo \/ ToFailed
    <3>1. at' \notin Settled \cup {"creating"}
      BY <2>5 DEF ToTest, ToTested, ToRegister, ToNew, ToGone, ToUndo, ToFailed, Undoing, Settled
    <3> QED
      BY <3>1 DEF KnowsIds
  <2>6. CASE ToCrashed \/ ToClean \/ ToCleaned \/ Elsewhere
    <3>1. at' \notin Settled \cup {"creating"}
      BY <2>6 DEF ToCrashed, ToClean, ToCleaned, Elsewhere, Settled
    <3> QED
      BY <3>1 DEF KnowsIds
  <2> QED
    BY <1>2, <2>2, <2>3, <2>4, <2>5, <2>6 DEF Move
<1>3. CASE Vanish
  BY <1>3 DEF Vanish, KnowsIds, vm, program
<1>4. CASE UNCHANGED vars
  BY <1>4 DEF vars, KnowsIds, vm, program
<1> QED
  BY <1>1, <1>2, <1>3, <1>4, StepsAre

(* ------------------------ why a detach may fail ------------------------- *)

(* A detach that is leaving in an error had a call that failed or a wait   *)
(* that timed out, unless the driver asks for what may have gone.          *)
Reasons == at = "detaching" /\ broken => slipped \/ drv \in {"plm", "ntnx"}

(* An error that the code itself finds is one that the instruction asks    *)
(* about.                                                                  *)
LEMMA ReasonsStep ==
  ASSUME Shape, KnowsIds, Reasons, [Next]_vars PROVE Reasons'
<1>1. CASE RunAction
  <2>1. Run
    BY <1>1, RunIs
  <2>2. UNCHANGED << drv, at >> /\ todo # << >>
    BY <2>1 DEF Run
  <2>3. CASE at = "detaching" /\ broken' /\ drv \notin {"plm", "ntnx"}
    <3>1. Fits("remove", drv, todo)
      BY <2>3 DEF Shape, Destroying
    <3>2. Current = {todo[1]} /\ Removes(drv, todo[1])
      BY <2>2, <3>1, TailIs, FitsTail DEF Current, Fits, Permits
    <3>3. Known(drv) \subseteq ids
      BY <2>3 DEF KnowsIds, Settled
    <3>4. ~Refused(todo[1])
      BY <2>3, <3>2, <3>3 DEF Refused, Removes, Drops
    <3>5. ~Refuse
      BY <3>2, <3>4 DEF Refuse
    <3>6. CASE StepOver \/ Step
      <4>1. broken' = broken /\ slipped' = slipped
        BY <3>6 DEF StepOver, Step, Proceed
      <4> QED
        BY <2>2, <2>3, <4>1 DEF Reasons
    <3>7. CASE TimeOut \/ Fault
      BY <3>7 DEF TimeOut, Fault, Fail, Reasons
    <3> QED
      BY <1>1, <3>5, <3>6, <3>7 DEF RunAction
  <2> QED
    BY <2>2, <2>3 DEF Reasons
<1>2. CASE Move
  <2>1. at' = "detaching" => ToDestroy
    BY <1>2 DEF Move, ToTest, ToTested, ToRegister, ToNew, ToCreate, ToUp, ToUndo, ToAttached,
                ToState, ToCapture, ToGone, ToFailed, ToCrashed, ToClean, ToCleaned, Elsewhere,
                Undoing
  <2> QED
    BY <2>1 DEF Reasons, ToDestroy, Begun
<1>3. CASE Vanish
  BY <1>3 DEF Vanish, Reasons, vm, program
<1>4. CASE UNCHANGED vars
  BY <1>4 DEF vars, Reasons, program
<1> QED
  BY <1>1, <1>2, <1>3, <1>4, StepsAre

(* --------------------- a capture has made its image --------------------- *)

(* The capture has still to make the image, or to fail.                    *)
Images(i) ==
    /\ i.when = {} /\ "skip" \notin i.err
    /\ i.do = "impossible" \/ (i.do = "make" /\ i.on = "image")
ImageAhead(p) == \E k \in DOMAIN p : Images(p[k])

(* What has still to make the image is next, or further ahead.             *)
LEMMA TailImages ==
  ASSUME NEW p, IsSeq(p), p # << >>, ImageAhead(p)
  PROVE  ImageAhead(Tail(p)) \/ Images(p[1])
<1>1. /\ Len(p) \in Nat \ {0} /\ DOMAIN p = 1..Len(p)
      /\ DOMAIN Tail(p) = 1..Len(p) - 1
      /\ \A k \in 1..Len(p) - 1 : Tail(p)[k] = p[k+1]
  BY TailIs
<1>2. PICK k \in DOMAIN p : Images(p[k])
  BY DEF ImageAhead
<1>3. CASE k = 1
  BY <1>2, <1>3
<1>4. CASE k # 1
  <2>1. k - 1 \in DOMAIN Tail(p) /\ Tail(p)[k-1] = p[k]
    BY <1>1, <1>4
  <2> QED
    BY <1>2, <2>1 DEF ImageAhead
<1> QED
  BY <1>3, <1>4

(* The instructions that make it, or fail.                                 *)
LEMMA ImagesIf ==
  ASSUME NEW p, NEW k \in DOMAIN p, p[k] = Make("image") \/ p[k] = Impossible
  PROVE  ImageAhead(p)
  BY DEF ImageAhead, Images, Make, Impossible, Instr

(* Every vmcapture makes it in the end, but for those of Google, which     *)
(* gives up the instance first, and of OpenStack.                          *)
LEMMA CaptureImages ==
  ASSUME NEW d \in DriverNames \ {"gce", "osk"} PROVE ImageAhead(vmcapture(d))
<1>1. ImageAhead(ec2_vmcapture)
  <2> DEFINE p == ec2_vmcapture
  <2> SUFFICES ImageAhead(p)
    OBVIOUS
  <2>1. DOMAIN p = 1..5 /\ p[5] = Make("image")
    BY DEF ec2_vmcapture
  <2> HIDE DEF p
  <2> QED
    BY <2>1, ImagesIf
<1>2. ImageAhead(pdm_vmcapture)
  <2> DEFINE p == pdm_vmcapture
  <2> SUFFICES ImageAhead(p)
    OBVIOUS
  <2>1. DOMAIN p = 1..4 /\ p[4] = Make("image")
    BY DEF pdm_vmcapture
  <2> HIDE DEF p
  <2> QED
    BY <2>1, ImagesIf
<1>3. ImageAhead(pcm_vmcapture)
  <2> DEFINE p == pcm_vmcapture
  <2> SUFFICES ImageAhead(p)
    OBVIOUS
  <2>1. DOMAIN p = 1..5 /\ p[5] = Make("image")
    BY DEF pcm_vmcapture
  <2> HIDE DEF p
  <2> QED
    BY <2>1, ImagesIf
<1>4. ImageAhead(plm_vmcapture)
  <2> DEFINE p == plm_vmcapture
  <2> SUFFICES ImageAhead(p)
    OBVIOUS
  <2>1. DOMAIN p = 1..5 /\ p[5] = Make("image")
    BY DEF plm_vmcapture
  <2> HIDE DEF p
  <2> QED
    BY <2>1, ImagesIf
<1>5. ImageAhead(slr_vmcapture)
  <2> DEFINE p == slr_vmcapture
  <2> SUFFICES ImageAhead(p)
    OBVIOUS
  <2>1. DOMAIN p = 1..5 /\ p[5] = Make("image")
    BY DEF slr_vmcapture
  <2> HIDE DEF p
  <2> QED
    BY <2>1, ImagesIf
<1>6. ImageAhead(csk_vmcapture)
  <2> DEFINE p == csk_vmcapture
  <2> SUFFICES ImageAhead(p)
    OBVIOUS
  <2>1. DOMAIN p = 1..7 /\ p[7] = Make("image")
    BY DEF csk_vmcapture
  <2> HIDE DEF p
  <2> QED
    BY <2>1, ImagesIf
<1>7. ImageAhead(<< Impossible >>)
  <2> DEFINE p == << Impossible >>
  <2> SUFFICES ImageAhead(p)
    OBVIOUS
  <2>1. DOMAIN p = 1..1 /\ p[1] = Impossible
    OBVIOUS
  <2> HIDE DEF p
  <2> QED
    BY <2>1, ImagesIf
<1>8. ImageAhead(lc_vmcapture)
  <2> DEFINE p == lc_vmcapture
  <2> SUFFICES ImageAhead(p)
    OBVIOUS
  <2>1. DOMAIN p = 1..6 /\ p[6] = Make("image")
    BY DEF lc_vmcapture
  <2> HIDE DEF p
  <2> QED
    BY <2>1, ImagesIf
<1>9. ImageAhead(nop_vmcapture)
  <2> DEFINE p == nop_vmcapture
  <2> SUFFICES ImageAhead(p)
    OBVIOUS
  <2>1. DOMAIN p = 1..2 /\ p[1] = Make("image")
    BY DEF nop_vmcapture
  <2> HIDE DEF p
  <2> QED
    BY <2>1, ImagesIf
<1>10. ImageAhead(sim_vmcapture)
  <2> DEFINE p == sim_vmcapture
  <2> SUFFICES ImageAhead(p)
    OBVIOUS
  <2>1. DOMAIN p = 1..2 /\ p[1] = Make("image")
    BY DEF sim_vmcapture, nop_vmcapture
  <2> HIDE DEF p
  <2> QED
    BY <2>1, ImagesIf
<1> QED
  BY <1>1, <1>2, <1>3, <1>4, <1>5, <1>6, <1>7, <1>8, <1>9, <1>10, CaptureOf DEF DriverNames

Imaging ==
    at = "capturing" /\ ~broken =>
        drv \in {"gce", "osk"} \/ "image" \in things \/ ImageAhead(todo)

(* A capture that goes on has made the image or has still to.              *)
LEMMA ImagingStep == ASSUME Shape, Imaging, [Next]_vars PROVE Imaging'
<1>1. CASE RunAction /\ at' = "capturing" /\ ~broken' /\ drv' \notin {"gce", "osk"}
  <2>1. Run
    BY <1>1, RunIs
  <2>2. drv' = drv /\ at = "capturing" /\ ~broken /\ todo # << >> /\ todo' = Tail(todo)
    BY <1>1, <2>1 DEF Run
  <2>3. Fits("copy", drv, todo)
    BY <2>2 DEF Shape
  <2>4. IsSeq(todo) /\ Copies(drv, todo[1])
    BY <2>2, <2>3, FitsTail DEF Fits, Permits
  <2>5. things \subseteq things'
    BY <1>1, <2>2, <2>4, EffectsAre DEF RunEffects, Copies
  <2>6. CASE Images(todo[1])
    <3>1. Step /\ ~Refused(todo[1])
      BY <1>1, <2>4, <2>6, CarriedOut, Unconditional DEF Images
    <3>2. todo[1].do = "make" /\ todo[1].on = "image"
      BY <2>6, <3>1 DEF Images, Refused
    <3>3. Current = {todo[1]}
      BY <2>2, <2>4, TailIs DEF Current
    <3>4. Effect(todo[1])
      BY <3>1, <3>3 DEF Step
    <3>5. "image" \in things'
      BY <3>2, <3>4 DEF Effect, Making, Tagging, Dropping, Powering, Accounting, Looking, Drops,
                       Makes
    <3> QED
      BY <3>5 DEF Imaging
  <2>7. CASE "image" \in things
    BY <2>5, <2>7 DEF Imaging
  <2>8. CASE ImageAhead(todo) /\ ~Images(todo[1])
    BY <2>2, <2>4, <2>8, TailImages DEF Imaging
  <2> QED
    BY <1>1, <2>2, <2>6, <2>7, <2>8 DEF Imaging
<1>2. CASE Move
  <2>1. at' = "capturing" => ToCapture
    BY <1>2 DEF Move, ToTest, ToTested, ToRegister, ToNew, ToCreate, ToUp, ToDestroy, ToUndo,
                ToAttached, ToState, ToGone, ToFailed, ToCrashed, ToClean, ToCleaned, Elsewhere,
                Undoing
  <2>2. drv' = drv
    BY <1>2 DEF Move
  <2> QED
    BY <2>1, <2>2, CaptureImages DEF Imaging, ToCapture, Shape
<1>3. CASE Vanish
  BY <1>3 DEF Vanish, Imaging, program
<1>4. CASE UNCHANGED vars
  BY <1>4 DEF vars, Imaging, program, cloud
<1> QED
  BY <1>1, <1>2, <1>3, <1>4, StepsAre DEF Imaging

(* An image first, then the instance may go.                               *)
LEMMA KeepsOne ==
  ASSUME Shape, Imaging, Next, at = "capturing", drv \notin {"gce", "osk"}
  PROVE  /\ "instance" \in things => "instance" \in things'
         /\ at' = "detaching" => "image" \in things
<1>1. CASE RunAction
  <2>1. Run
    BY <1>1, RunIs
  <2>2. at' = at /\ todo # << >>
    BY <2>1 DEF Run
  <2>3. IsSeq(todo) /\ Copies(drv, todo[1])
    BY <2>2, FitsTail DEF Fits, Permits, Shape
  <2>4. things \subseteq things'
    BY <1>1, <2>3, EffectsAre DEF RunEffects, Copies
  <2> QED
    BY <2>2, <2>4
<1>2. CASE Move
  <2>1. at' = "detaching" => ToDestroy
    BY <1>2 DEF Move, ToTest, ToTested, ToRegister, ToNew, ToCreate, ToUp, ToUndo,
                ToAttached, ToState, ToCapture, ToGone, ToFailed, ToCrashed, ToClean, ToCleaned,
                Elsewhere, Undoing
  <2>2. ~ImageAhead(<< >>)
    BY DEF ImageAhead
  <2> QED
    BY <1>2, <2>1, <2>2 DEF Move, cloud, ToDestroy, Imaging, Over
<1>3. CASE Vanish
  BY <1>3 DEF Vanish
<1> QED
  BY <1>1, <1>2, <1>3, StepsAre

(* ---------------------- what a VM has in the cloud ---------------------- *)

Foreign == {"volume of another", "image", "image name"}

(* From its attachment on, nothing exists but what the driver makes for a  *)
(* VM and the images of a capture; and all of it carries the VM's name,    *)
(* except on EC2, where a tag gives the name.                              *)
Own   == at \in VMPhases => things \subseteq Owned(drv) \cup Foreign
Named == at \in VMPhases /\ drv # "ec2" => things \subseteq named

(* A program that runs in these phases is of one of five kinds.            *)
LEMMA KindOfProgram ==
  ASSUME Shape, at \in VMPhases, todo # << >>
  PROVE  /\ IsSeq(todo) /\ Current = {todo[1]}
         /\ \/ at \in {"registering", "cleaning"} /\ Sweeps(drv, todo[1])
            \/ at = "creating" /\ Builds(drv, todo[1])
            \/ at \in Destroying /\ Removes(drv, todo[1])
            \/ at = "changing state" /\ Switches(drv, todo[1])
            \/ at = "capturing" /\ Copies(drv, todo[1])
<1>1. at \notin Idle
  BY DEF Shape, Over
<1>2. \/ at \in {"registering", "cleaning"} /\ Fits("sweep", drv, todo)
      \/ at = "creating" /\ Fits("build", drv, todo)
      \/ at \in Destroying /\ Fits("remove", drv, todo)
      \/ at = "changing state" /\ Fits("switch", drv, todo)
      \/ at = "capturing" /\ Fits("copy", drv, todo)
  BY <1>1 DEF Shape, VMPhases, Settled, Before, Undoing, After, Ending, Idle, Destroying
<1>3. IsSeq(todo)
  BY <1>2 DEF Fits
<1>4. Current = {todo[1]}
  BY <1>3, TailIs DEF Current
<1> QED
  BY <1>2, <1>3, <1>4, FitsTail DEF Permits

(* A step into one of these phases comes from one of them.                 *)
LEMMA MoveFrom == ASSUME Move, at' \in VMPhases PROVE at \in VMPhases
<1> USE DEF VMPhases, Settled, Before, Undoing, After, Ending
<1>1. CASE ToTest \/ ToTested \/ ToRegister \/ ToNew \/ ToCreate \/ ToUp \/ ToDestroy
  BY <1>1 DEF ToTest, ToTested, ToRegister, ToNew, ToCreate, ToUp, ToDestroy
<1>2. CASE ToUndo \/ ToAttached \/ ToState \/ ToCapture \/ ToGone \/ ToFailed
  BY <1>2 DEF ToUndo, ToAttached, ToState, ToCapture, ToGone, ToFailed
<1>3. CASE ToCrashed \/ ToClean \/ ToCleaned \/ Elsewhere
  BY <1>3 DEF ToCrashed, ToClean, ToCleaned, Elsewhere
<1> QED
  BY <1>1, <1>2, <1>3 DEF Move

(* Only vmcreate and vmcapture make anything.                              *)
LEMMA OwnStep == ASSUME Shape, Own, Named, [Next]_vars PROVE Own' /\ Named'
<1>1. CASE RunAction /\ at' \in VMPhases
  <2>1. UNCHANGED << drv, at >> /\ todo # << >>
    BY <1>1, RunIs DEF Run
  <2>2. RunEffects(todo[1])
    BY <1>1, <2>1, KindOfProgram, EffectsAre
  <2>3. todo[1].do \in Makes => todo[1].on \in Owned(drv) \cup Foreign
    BY <1>1, <2>1, KindOfProgram
       DEF Sweeps, Builds, Removes, Switches, Copies, Makes, Drops, Foreign
  <2>4. drv # "ec2" => todo[1].do # "make bare"
    BY <1>1, <2>1, KindOfProgram DEF Sweeps, Builds, Removes, Switches, Copies, Drops
  <2>5. Own'
    BY <1>1, <2>1, <2>2, <2>3 DEF Own, RunEffects
  <2>6. Named'
    BY <1>1, <2>1, <2>2, <2>4 DEF Named, RunEffects
  <2> QED
    BY <2>5, <2>6
<1>2. CASE Move /\ at' \in VMPhases
  <2>1. UNCHANGED << drv, things, named >>
    BY <1>2 DEF Move, cloud
  <2>2. at \in VMPhases
    BY <1>2, MoveFrom
  <2> QED
    BY <2>1, <2>2 DEF Own, Named
<1>3. CASE Vanish
  BY <1>3 DEF Vanish, Own, Named
<1>4. CASE UNCHANGED vars
  BY <1>4 DEF vars, Own, Named, cloud
<1> QED
  BY <1>1, <1>2, <1>3, <1>4, StepsAre DEF Own, Named

(* --------------------- a detach removes what it must -------------------- *)

(* What vmdestroy is there to remove.                                      *)
Due(d) == Owned(d) \cap {"instance", "boot volume", "volume"}

(* Instruction i deletes r, if it exists and, where that is asked, was seen*)
(* (f) by a lookup; or it waits until r is gone.                           *)
Clears(d, r, i, f) ==
    /\ i.on = r
    /\ \/ i.do \in Drops /\ Findable(d, i)
       \/ i.do = "await" /\ r = "instance"
    /\ i.when \subseteq {"found", "known"}
    /\ "known" \in i.when => r \in Known(d)
    /\ "found" \in i.when => r = "instance" /\ f
Finds(i) == i.do = "find" /\ i.when = {}

(* The program has still to delete r: now, or once it has looked, with the *)
(* ids of driver d.                                                        *)
CanDrop(d, r, p, f) ==
    \E k \in DOMAIN p : Clears(d, r, p[k], f \/ \E j \in 1..k-1 : Finds(p[j]))

(* What has still to be deleted is deleted next, or further ahead.         *)
LEMMA TailClears ==
  ASSUME NEW d, NEW r, NEW p, NEW f \in BOOLEAN, IsSeq(p), p # << >>, CanDrop(d, r, p, f)
  PROVE  \/ Clears(d, r, p[1], f)
         \/ CanDrop(d, r, Tail(p), f)
         \/ r = "instance" /\ Finds(p[1]) /\ CanDrop(d, r, Tail(p), TRUE)
<1>1. /\ Len(p) \in Nat \ {0} /\ DOMAIN p = 1..Len(p)
      /\ DOMAIN Tail(p) = 1..Len(p) - 1
      /\ \A k \in 1..Len(p) - 1 : Tail(p)[k] = p[k+1]
  BY TailIs
<1>2. PICK k \in DOMAIN p : Clears(d, r, p[k], f \/ \E j \in 1..k-1 : Finds(p[j]))
  BY DEF CanDrop
<1>3. CASE k = 1
  <2>1. ~ \E j \in 1..k-1 : Finds(p[j])
    BY <1>3
  <2> QED
    BY <1>2, <1>3, <2>1 DEF Clears
<1>4. CASE k # 1
  <2>1. k - 1 \in DOMAIN Tail(p) /\ Tail(p)[k-1] = p[k]
    BY <1>1, <1>4
  <2>2. CASE Clears(d, r, p[k], f)
    <3>1. Clears(d, r, p[k], f \/ \E j \in 1..(k-1)-1 : Finds(Tail(p)[j]))
      BY <2>2 DEF Clears
    <3> QED
      BY <2>1, <3>1 DEF CanDrop
  <2>3. CASE ~Clears(d, r, p[k], f)
    <3>1. /\ r = "instance" /\ \E j \in 1..k-1 : Finds(p[j])
          /\ Clears(d, r, p[k], TRUE)
      BY <1>2, <2>3 DEF Clears
    <3>2. PICK j \in 1..k-1 : Finds(p[j])
      BY <3>1
    <3>3. CASE j = 1
      <4>1. Clears(d, r, p[k], TRUE \/ \E m \in 1..(k-1)-1 : Finds(Tail(p)[m]))
        BY <3>1 DEF Clears
      <4> QED
        BY <2>1, <3>1, <3>2, <3>3, <4>1 DEF CanDrop
    <3>4. CASE j # 1
      <4>1. j - 1 \in 1..(k-1)-1 /\ Tail(p)[j-1] = p[j]
        BY <1>1, <3>2, <3>4
      <4>2. Clears(d, r, p[k], f \/ \E m \in 1..(k-1)-1 : Finds(Tail(p)[m]))
        BY <3>1, <3>2, <4>1 DEF Clears
      <4> QED
        BY <2>1, <4>2 DEF CanDrop
    <3> QED
      BY <3>3, <3>4
  <2> QED
    BY <2>2, <2>3
<1> QED
  BY <1>3, <1>4

(* A deletion in a part of the program counts for the whole.               *)
LEMMA ClearsBefore ==
  ASSUME NEW d, NEW r, NEW f \in BOOLEAN, NEW s, NEW t, IsSeq(s), IsSeq(t), CanDrop(d, r, s, f)
  PROVE  CanDrop(d, r, s \o t, f)
<1>1. PICK k \in DOMAIN s : Clears(d, r, s[k], f \/ \E j \in 1..k-1 : Finds(s[j]))
  BY DEF CanDrop
<1>2. /\ DOMAIN s = 1..Len(s) /\ Len(s) \in Nat /\ Len(t) \in Nat
      /\ DOMAIN (s \o t) = 1..Len(s) + Len(t)
      /\ \A j \in 1..Len(s) : (s \o t)[j] = s[j]
  BY ConcatIs
<1>3. k \in DOMAIN (s \o t) /\ \A j \in 1..k-1 : (s \o t)[j] = s[j]
  BY <1>2
<1>4. Clears(d, r, (s \o t)[k], f \/ \E j \in 1..k-1 : Finds((s \o t)[j]))
  BY <1>1, <1>2, <1>3
<1> QED
  BY <1>3, <1>4 DEF CanDrop

(* A deletion in the second part may rest on a lookup in the first.        *)
LEMMA ClearsAfter ==
  ASSUME NEW d, NEW r, NEW f \in BOOLEAN, NEW s, NEW t, IsSeq(s), IsSeq(t),
         \/ CanDrop(d, r, t, f)
         \/ CanDrop(d, r, t, TRUE) /\ \E m \in DOMAIN s : Finds(s[m])
  PROVE  CanDrop(d, r, s \o t, f)
<1>1. PICK g \in BOOLEAN : /\ CanDrop(d, r, t, g)
                           /\ g => f \/ \E m \in DOMAIN s : Finds(s[m])
  <2>1. CASE CanDrop(d, r, t, f)
    BY <2>1
  <2>2. CASE CanDrop(d, r, t, TRUE) /\ \E m \in DOMAIN s : Finds(s[m])
    BY <2>2
  <2> QED
    BY <2>1, <2>2
<1>2. PICK k \in DOMAIN t : Clears(d, r, t[k], g \/ \E j \in 1..k-1 : Finds(t[j]))
  BY <1>1 DEF CanDrop
<1>3. /\ DOMAIN s = 1..Len(s) /\ DOMAIN t = 1..Len(t) /\ Len(s) \in Nat /\ Len(t) \in Nat
      /\ DOMAIN (s \o t) = 1..Len(s) + Len(t)
      /\ \A j \in 1..Len(s) : (s \o t)[j] = s[j]
      /\ \A j \in 1..Len(t) : (s \o t)[Len(s) + j] = t[j]
  BY ConcatIs
<1> DEFINE n == Len(s) + k
<1>4. n \in DOMAIN (s \o t) /\ (s \o t)[n] = t[k]
  BY <1>3
<1>5. g => f \/ \E j \in 1..n-1 : Finds((s \o t)[j])
  <2>1. ASSUME NEW m \in DOMAIN s, Finds(s[m]) PROVE m \in 1..n-1 /\ Finds((s \o t)[m])
    BY <1>3, <2>1
  <2> QED
    BY <1>1, <2>1
<1>6. ASSUME NEW j \in 1..k-1, Finds(t[j]) PROVE \E m \in 1..n-1 : Finds((s \o t)[m])
  <2>1. Len(s) + j \in 1..n-1 /\ (s \o t)[Len(s) + j] = t[j]
    BY <1>3
  <2> QED
    BY <1>6, <2>1
<1>7. Clears(d, r, (s \o t)[n], f \/ \E j \in 1..n-1 : Finds((s \o t)[j]))
  BY <1>2, <1>4, <1>5, <1>6 DEF Clears
<1> QED
  BY <1>4, <1>7 DEF CanDrop

(* The fields of an instruction.                                           *)
LEMMA InstrIs ==
  ASSUME NEW a, NEW b, NEW c, NEW e, NEW i, i = Instr(a, b, c, e)
  PROVE  i.do = a /\ i.on = b /\ i.by = c /\ i.err = e /\ i.when = {}
  BY DEF Instr

(* A deletion by name, or by an id that is known, under no condition, the  *)
(* condition that the instance was found, or the one that the id is known. *)
LEMMA DropClears ==
  ASSUME NEW d, NEW r, NEW p, NEW k \in DOMAIN p, NEW by, NEW e,
         \/ p[k] = Drop(r, by, e)
         \/ p[k] = DropOrRaise(r) /\ by = "name",
         (by = "name" /\ d # "ec2") \/ (by = "uuid" /\ r \in Known(d))
  PROVE  /\ \A f \in BOOLEAN : CanDrop(d, r, p, f)
         /\ r = "instance" => CanDrop(d, r, IfFound(p), TRUE)
         /\ r \in Known(d) => \A f \in BOOLEAN : CanDrop(d, r, IfKnown(p), f)
<1>0. "drop" \in Drops /\ "drop or raise" \in Drops
  BY Zenon DEF Drops
<1>1. /\ IsInstr(p[k]) /\ p[k].do \in Drops /\ p[k].on = r /\ Findable(d, p[k])
      /\ p[k].when = {}
  <2>1. PICK do, err : do \in Drops /\ p[k] = Instr(do, r, by, err)
    BY Zenon, <1>0 DEF Drop, DropOrRaise
  <2>2. IsInstr(p[k]) /\ p[k].do = do /\ p[k].on = r /\ p[k].by = by /\ p[k].when = {}
    BY <2>1, AreInstr, InstrIs
  <2>3. p[k].do \in Drops
    BY <2>1, <2>2, Zenon
  <2> QED
    BY <2>2, <2>3 DEF Findable
<1>2. ASSUME NEW f \in BOOLEAN PROVE CanDrop(d, r, p, f)
  BY <1>1 DEF CanDrop, Clears
<1>3. ASSUME NEW c
      PROVE  /\ k \in DOMAIN If(c, p) /\ If(c, p)[k].do \in Drops /\ If(c, p)[k].on = r
             /\ Findable(d, If(c, p)[k]) /\ If(c, p)[k].when = {c}
  <2>1. k \in DOMAIN If(c, p) /\ If(c, p)[k] = Under(c, p[k])
    BY DEF If
  <2>2. /\ Under(c, p[k]).do = p[k].do /\ Under(c, p[k]).on = p[k].on
        /\ Under(c, p[k]).by = p[k].by /\ Under(c, p[k]).when = p[k].when \cup {c}
    BY <1>1, UnderKeeps
  <2> QED
    BY <1>1, <2>1, <2>2 DEF Findable
<1>4. r = "instance" => CanDrop(d, r, IfFound(p), TRUE)
  BY <1>3 DEF IfFound, CanDrop, Clears
<1>5. r \in Known(d) => \A f \in BOOLEAN : CanDrop(d, r, IfKnown(p), f)
  BY <1>3 DEF IfKnown, CanDrop, Clears
<1> QED
  BY <1>2, <1>4, <1>5

(* A program that looks for the instance.                                  *)
LEMMA FindFinds == ASSUME NEW p, NEW k \in DOMAIN p, NEW by, NEW e, p[k] = Find(by, e)
  PROVE  \E m \in DOMAIN p : Finds(p[m])
  BY DEF Finds, Find, Instr

(* Every vmdestroy of a VM that had been created does so for all that is   *)
(* due.                                                                    *)
LEMMA DestroyClears ==
  ASSUME NEW d \in DriverNames
  PROVE  \A r \in Due(d) : CanDrop(d, r, vmdestroy(d, FALSE), FALSE)
<1>1. \A r \in Due("osk") : CanDrop("osk", r, osk_vmdestroy(FALSE), FALSE)
  <2> DEFINE s == << osk_connect, osk_get_instances >>
  <2> DEFINE t == IfFound(<< osk_floating_ip_delete, osk_retriable_instance_delete,
         Await(Either) >>)
  <2> DEFINE u == osk_vvdestroy
  <2>1. Fits("remove", "osk", s)
    BY CallsPermitted, RemoversPermitted, IfFits, FitsConcat, List0, List1,
       List2, List3, List4
       DEF Kinds, Known, Capacity, osk_connect, osk_get_instances
  <2>2. Fits("remove", "osk", t)
    BY CallsPermitted, RemoversPermitted, IfFits, FitsConcat, List0, List1,
       List2, List3, List4
       DEF Kinds, Known, Capacity, IfFound, osk_floating_ip_delete,
           osk_retriable_instance_delete
  <2>3. Fits("remove", "osk", u)
    BY CallsPermitted, RemoversPermitted, IfFits, FitsConcat, List0, List1,
       List2, List3, List4
       DEF Kinds, Known, Capacity, osk_vvdestroy, IfKnown
  <2>4. \E m \in DOMAIN s : Finds(s[m])
    <3>1. 2 \in DOMAIN s /\ s[2] = osk_get_instances
      OBVIOUS
    <3> HIDE DEF s
    <3> QED
      BY <3>1, FindFinds DEF osk_get_instances
  <2>5. CanDrop("osk", "instance", t, TRUE)
    <3> DEFINE p == << osk_floating_ip_delete, osk_retriable_instance_delete,
           Await(Either) >>
    <3>1. 2 \in DOMAIN p /\ p[2] = osk_retriable_instance_delete
      OBVIOUS
    <3> HIDE DEF p
    <3>2. CanDrop("osk", "instance", IfFound(p), TRUE)
      BY <3>1, DropClears DEF Known, osk_retriable_instance_delete
    <3> QED
      BY <3>2 DEF p
  <2>6. CanDrop("osk", "volume", u, FALSE)
    <3> DEFINE p == << Drop("volume", "uuid", Either) >>
    <3>1. 1 \in DOMAIN p /\ p[1] = Drop("volume", "uuid", Either)
      OBVIOUS
    <3> HIDE DEF p
    <3>2. CanDrop("osk", "volume", IfKnown(p), FALSE)
      BY <3>1, DropClears DEF Known
    <3> QED
      BY <3>2 DEF p, osk_vvdestroy
  <2> HIDE DEF s, t, u
  <2>7. CanDrop("osk", "instance", s \o t, FALSE)
    BY <2>1, <2>2, <2>4, <2>5, ClearsAfter, FitsIsSeq
  <2>8. CanDrop("osk", "instance", s \o t \o u, FALSE)
    BY <2>1, <2>2, <2>3, <2>7, ClearsBefore, FitsConcat, FitsIsSeq
  <2>9. CanDrop("osk", "volume", s \o t \o u, FALSE)
    BY <2>1, <2>2, <2>3, <2>6, ClearsAfter, FitsConcat, FitsIsSeq
  <2> QED
    BY <2>8, <2>9 DEF s, t, u, Due, Owned, osk_vmdestroy, osk_instance_cleanup_on_failure
<1>2. \A r \in Due("ec2") : CanDrop("ec2", r, ec2_vmdestroy, FALSE)
  <2> DEFINE s == << ec2_connect, ec2_get_instances >>
  <2> DEFINE t == IfFound(<< Drop("instance", "uuid", Stop), Await(Either) >>)
  <2> DEFINE u == ec2_vvdestroy
  <2>1. Fits("remove", "ec2", s)
    BY CallsPermitted, RemoversPermitted, IfFits, FitsConcat, List0, List1,
       List2, List3, List4
       DEF Kinds, Known, Capacity, ec2_connect, ec2_get_instances
  <2>2. Fits("remove", "ec2", t)
    BY CallsPermitted, RemoversPermitted, IfFits, FitsConcat, List0, List1,
       List2, List3, List4
       DEF Kinds, Known, Capacity, IfFound
  <2>3. Fits("remove", "ec2", u)
    BY CallsPermitted, RemoversPermitted, IfFits, FitsConcat, List0, List1,
       List2, List3, List4
       DEF Kinds, Known, Capacity, ec2_vvdestroy, IfKnown
  <2>4. \E m \in DOMAIN s : Finds(s[m])
    <3>1. 2 \in DOMAIN s /\ s[2] = ec2_get_instances
      OBVIOUS
    <3> HIDE DEF s
    <3> QED
      BY <3>1, FindFinds DEF ec2_get_instances
  <2>5. CanDrop("ec2", "instance", t, TRUE)
    <3> DEFINE p == << Drop("instance", "uuid", Stop), Await(Either) >>
    <3>1. 1 \in DOMAIN p /\ p[1] = Drop("instance", "uuid", Stop)
      OBVIOUS
    <3> HIDE DEF p
    <3>2. CanDrop("ec2", "instance", IfFound(p), TRUE)
      BY <3>1, DropClears DEF Known
    <3> QED
      BY <3>2 DEF p
  <2>6. CanDrop("ec2", "volume", u, FALSE)
    <3> DEFINE p == << Drop("volume", "uuid", Either) >>
    <3>1. 1 \in DOMAIN p /\ p[1] = Drop("volume", "uuid", Either)
      OBVIOUS
    <3> HIDE DEF p
    <3>2. CanDrop("ec2", "volume", IfKnown(p), FALSE)
      BY <3>1, DropClears DEF Known
    <3> QED
      BY <3>2 DEF p, ec2_vvdestroy
  <2> HIDE DEF s, t, u
  <2>7. CanDrop("ec2", "instance", s \o t, FALSE)
    BY <2>1, <2>2, <2>4, <2>5, ClearsAfter, FitsIsSeq
  <2>8. CanDrop("ec2", "instance", s \o t \o u, FALSE)
    BY <2>1, <2>2, <2>3, <2>7, ClearsBefore, FitsConcat, FitsIsSeq
  <2>9. CanDrop("ec2", "volume", s \o t \o u, FALSE)
    BY <2>1, <2>2, <2>3, <2>6, ClearsAfter, FitsConcat, FitsIsSeq
  <2> QED
    BY <2>8, <2>9 DEF s, t, u, Due, Owned, ec2_vmdestroy
<1>3. \A r \in Due("gce") : CanDrop("gce", r, gce_vmdestroy, FALSE)
  <2> DEFINE s == << gce_connect, gce_get_instances >>
  <2> DEFINE t == IfFound(<< Drop("instance", "name", Stop),
         gce_wait_until_operation("instance deleted"), Await(Either) >>)
  <2> DEFINE u == << Call("boot disk") >>
  <2> DEFINE v == gce_vvdestroy
  <2>1. Fits("remove", "gce", s)
    BY CallsPermitted, RemoversPermitted, IfFits, FitsConcat, List0, List1,
       List2, List3, List4
       DEF Kinds, Known, Capacity, gce_connect, gce_get_instances
  <2>2. Fits("remove", "gce", t)
    BY CallsPermitted, RemoversPermitted, IfFits, FitsConcat, List0, List1,
       List2, List3, List4
       DEF Kinds, Known, Capacity, IfFound, gce_wait_until_operation
  <2>3. Fits("remove", "gce", u)
    BY CallsPermitted, RemoversPermitted, IfFits, FitsConcat, List0, List1,
       List2, List3, List4
       DEF Kinds, Known, Capacity
  <2>4. Fits("remove", "gce", v)
    BY CallsPermitted, RemoversPermitted, IfFits, FitsConcat, List0, List1,
       List2, List3, List4
       DEF Kinds, Known, Capacity, gce_vvdestroy
  <2>5. \E m \in DOMAIN s : Finds(s[m])
    <3>1. 2 \in DOMAIN s /\ s[2] = gce_get_instances
      OBVIOUS
    <3> HIDE DEF s
    <3> QED
      BY <3>1, FindFinds DEF gce_get_instances
  <2>6. CanDrop("gce", "instance", t, TRUE)
    <3> DEFINE p == << Drop("instance", "name", Stop),
           gce_wait_until_operation("instance deleted"), Await(Either) >>
    <3>1. 1 \in DOMAIN p /\ p[1] = Drop("instance", "name", Stop)
      OBVIOUS
    <3> HIDE DEF p
    <3>2. CanDrop("gce", "instance", IfFound(p), TRUE)
      BY <3>1, DropClears DEF Known
    <3> QED
      BY <3>2 DEF p
  <2>7. CanDrop("gce", "volume", v, FALSE)
    <3> DEFINE p == << Drop("volume", "name", Either) >>
    <3>1. 1 \in DOMAIN p /\ p[1] = Drop("volume", "name", Either)
      OBVIOUS
    <3> HIDE DEF p
    <3>2. CanDrop("gce", "volume", p, FALSE)
      BY <3>1, DropClears DEF Known
    <3> QED
      BY <3>2 DEF p, gce_vvdestroy
  <2> HIDE DEF s, t, u, v
  <2>8. CanDrop("gce", "instance", s \o t, FALSE)
    BY <2>1, <2>2, <2>5, <2>6, ClearsAfter, FitsIsSeq
  <2>9. CanDrop("gce", "instance", s \o t \o u, FALSE)
    BY <2>1, <2>2, <2>3, <2>8, ClearsBefore, FitsConcat, FitsIsSeq
  <2>10. CanDrop("gce", "instance", s \o t \o u \o v, FALSE)
    BY <2>1, <2>2, <2>3, <2>4, <2>9, ClearsBefore, FitsConcat, FitsIsSeq
  <2>11. CanDrop("gce", "volume", s \o t \o u \o v, FALSE)
    BY <2>1, <2>2, <2>3, <2>4, <2>7, ClearsAfter, FitsConcat, FitsIsSeq
  <2> QED
    BY <2>10, <2>11 DEF s, t, u, v, Due, Owned, gce_vmdestroy
<1>4. \A r \in Due("pdm") : CanDrop("pdm", r, pdm_vmdestroy, FALSE)
  <2> DEFINE s == << pdm_connect, pdm_get_instances >>
  <2> DEFINE t == IfFound(<< Drop("instance", "name", Stop), Await(Either) >>)
  <2> DEFINE u == pdm_vvdestroy
  <2>1. Fits("remove", "pdm", s)
    BY CallsPermitted, RemoversPermitted, IfFits, FitsConcat, List0, List1,
       List2, List3, List4
       DEF Kinds, Known, Capacity, pdm_connect, pdm_get_instances
  <2>2. Fits("remove", "pdm", t)
    BY CallsPermitted, RemoversPermitted, IfFits, FitsConcat, List0, List1,
       List2, List3, List4
       DEF Kinds, Known, Capacity, IfFound
  <2>3. Fits("remove", "pdm", u)
    BY CallsPermitted, RemoversPermitted, IfFits, FitsConcat, List0, List1,
       List2, List3, List4
       DEF Kinds, Known, Capacity, pdm_vvdestroy, IfKnown, pdm_connect
  <2>4. \E m \in DOMAIN s : Finds(s[m])
    <3>1. 2 \in DOMAIN s /\ s[2] = pdm_get_instances
      OBVIOUS
    <3> HIDE DEF s
    <3> QED
      BY <3>1, FindFinds DEF pdm_get_instances
  <2>5. CanDrop("pdm", "instance", t, TRUE)
    <3> DEFINE p == << Drop("instance", "name", Stop), Await(Either) >>
    <3>1. 1 \in DOMAIN p /\ p[1] = Drop("instance", "name", Stop)
      OBVIOUS
    <3> HIDE DEF p
    <3>2. CanDrop("pdm", "instance", IfFound(p), TRUE)
      BY <3>1, DropClears DEF Known
    <3> QED
      BY <3>2 DEF p
  <2>6. CanDrop("pdm", "volume", u, FALSE)
    <3> DEFINE p == << pdm_connect, Drop("volume", "name", Either) >>
    <3>1. 2 \in DOMAIN p /\ p[2] = Drop("volume", "name", Either)
      OBVIOUS
    <3> HIDE DEF p
    <3>2. CanDrop("pdm", "volume", IfKnown(p), FALSE)
      BY <3>1, DropClears DEF Known
    <3> QED
      BY <3>2 DEF p, pdm_vvdestroy
  <2> HIDE DEF s, t, u
  <2>7. CanDrop("pdm", "instance", s \o t, FALSE)
    BY <2>1, <2>2, <2>4, <2>5, ClearsAfter, FitsIsSeq
  <2>8. CanDrop("pdm", "instance", s \o t \o u, FALSE)
    BY <2>1, <2>2, <2>3, <2>7, ClearsBefore, FitsConcat, FitsIsSeq
  <2>9. CanDrop("pdm", "volume", s \o t \o u, FALSE)
    BY <2>1, <2>2, <2>3, <2>6, ClearsAfter, FitsConcat, FitsIsSeq
  <2> QED
    BY <2>8, <2>9 DEF s, t, u, Due, Owned, pdm_vmdestroy
<1>5. \A r \in Due("pcm") : CanDrop("pcm", r, pcm_vmdestroy, FALSE)
  <2> DEFINE s == << pcm_connect, pcm_get_instances >>
  <2> DEFINE t == IfFound(<< Drop("instance", "name", Either), Await(Either),
         pcm_configure_port_mapping_teardown >>)
  <2>1. Fits("remove", "pcm", s)
    BY CallsPermitted, RemoversPermitted, IfFits, FitsConcat, List0, List1,
       List2, List3, List4
       DEF Kinds, Known, Capacity, pcm_connect, pcm_get_instances
  <2>2. Fits("remove", "pcm", t)
    BY CallsPermitted, RemoversPermitted, IfFits, FitsConcat, List0, List1,
       List2, List3, List4
       DEF Kinds, Known, Capacity, IfFound,
           pcm_configure_port_mapping_teardown
  <2>3. \E m \in DOMAIN s : Finds(s[m])
    <3>1. 2 \in DOMAIN s /\ s[2] = pcm_get_instances
      OBVIOUS
    <3> HIDE DEF s
    <3> QED
      BY <3>1, FindFinds DEF pcm_get_instances
  <2>4. CanDrop("pcm", "instance", t, TRUE)
    <3> DEFINE p == << Drop("instance", "name", Either), Await(Either),
           pcm_configure_port_mapping_teardown >>
    <3>1. 1 \in DOMAIN p /\ p[1] = Drop("instance", "name", Either)
      OBVIOUS
    <3> HIDE DEF p
    <3>2. CanDrop("pcm", "instance", IfFound(p), TRUE)
      BY <3>1, DropClears DEF Known
    <3> QED
      BY <3>2 DEF p
  <2> HIDE DEF s, t
  <2>5. CanDrop("pcm", "instance", s \o t, FALSE)
    BY <2>1, <2>2, <2>3, <2>4, ClearsAfter, FitsIsSeq
  <2> QED
    BY <2>5 DEF s, t, Due, Owned, pcm_vmdestroy
<1>6. \A r \in Due("plm") : CanDrop("plm", r, plm_vmdestroy, FALSE)
  <2> DEFINE s == << plm_connect, plm_get_instances >>
  <2> DEFINE t == IfFound(<< Drop("instance", "name", Either), Await(Either) >>)
  <2> DEFINE u == plm_vvdestroy
  <2>1. Fits("remove", "plm", s)
    BY CallsPermitted, RemoversPermitted, IfFits, FitsConcat, List0, List1,
       List2, List3, List4
       DEF Kinds, Known, Capacity, plm_connect, plm_get_instances
  <2>2. Fits("remove", "plm", t)
    BY CallsPermitted, RemoversPermitted, IfFits, FitsConcat, List0, List1,
       List2, List3, List4
       DEF Kinds, Known, Capacity, IfFound
  <2>3. Fits("remove", "plm", u)
    BY CallsPermitted, RemoversPermitted, IfFits, FitsConcat, List0, List1,
       List2, List3, List4
       DEF Kinds, Known, Capacity, plm_vvdestroy, IfKnown
  <2>4. \E m \in DOMAIN s : Finds(s[m])
    <3>1. 2 \in DOMAIN s /\ s[2] = plm_get_instances
      OBVIOUS
    <3> HIDE DEF s
    <3> QED
      BY <3>1, FindFinds DEF plm_get_instances
  <2>5. CanDrop("plm", "instance", t, TRUE)
    <3> DEFINE p == << Drop("instance", "name", Either), Await(Either) >>
    <3>1. 1 \in DOMAIN p /\ p[1] = Drop("instance", "name", Either)
      OBVIOUS
    <3> HIDE DEF p
    <3>2. CanDrop("plm", "instance", IfFound(p), TRUE)
      BY <3>1, DropClears DEF Known
    <3> QED
      BY <3>2 DEF p
  <2>6. CanDrop("plm", "boot volume", u, FALSE)
    <3> DEFINE p == << DropOrRaise("boot volume"), DropOrRaise("volume") >>
    <3>1. 1 \in DOMAIN p /\ p[1] = DropOrRaise("boot volume")
      OBVIOUS
    <3> HIDE DEF p
    <3>2. CanDrop("plm", "boot volume", IfKnown(p), FALSE)
      BY <3>1, DropClears DEF Known
    <3> QED
      BY <3>2 DEF p, plm_vvdestroy
  <2>7. CanDrop("plm", "volume", u, FALSE)
    <3> DEFINE p == << DropOrRaise("boot volume"), DropOrRaise("volume") >>
    <3>1. 2 \in DOMAIN p /\ p[2] = DropOrRaise("volume")
      OBVIOUS
    <3> HIDE DEF p
    <3>2. CanDrop("plm", "volume", IfKnown(p), FALSE)
      BY <3>1, DropClears DEF Known
    <3> QED
      BY <3>2 DEF p, plm_vvdestroy
  <2> HIDE DEF s, t, u
  <2>8. CanDrop("plm", "instance", s \o t, FALSE)
    BY <2>1, <2>2, <2>4, <2>5, ClearsAfter, FitsIsSeq
  <2>9. CanDrop("plm", "instance", s \o t \o u, FALSE)
    BY <2>1, <2>2, <2>3, <2>8, ClearsBefore, FitsConcat, FitsIsSeq
  <2>10. CanDrop("plm", "boot volume", s \o t \o u, FALSE)
    BY <2>1, <2>2, <2>3, <2>6, ClearsAfter, FitsConcat, FitsIsSeq
  <2>11. CanDrop("plm", "volume", s \o t \o u, FALSE)
    BY <2>1, <2>2, <2>3, <2>7, ClearsAfter, FitsConcat, FitsIsSeq
  <2> QED
    BY <2>9, <2>10, <2>11 DEF s, t, u, Due, Owned, plm_vmdestroy
<1>7. \A r \in Due("slr") : CanDrop("slr", r, slr_vmdestroy, FALSE)
  <2> DEFINE s == << slr_connect, slr_wait_until_transaction >>
  <2> DEFINE t == IfFound(<< NeedId, Drop("instance", "uuid", Stop), Await(Either)
         >>)
  <2>1. Fits("remove", "slr", s)
    BY CallsPermitted, RemoversPermitted, IfFits, FitsConcat, List0, List1,
       List2, List3, List4
       DEF Kinds, Known, Capacity, slr_connect, slr_wait_until_transaction,
           slr_get_instances
  <2>2. Fits("remove", "slr", t)
    BY CallsPermitted, RemoversPermitted, IfFits, FitsConcat, List0, List1,
       List2, List3, List4
       DEF Kinds, Known, Capacity, IfFound
  <2>3. \E m \in DOMAIN s : Finds(s[m])
    <3>1. 2 \in DOMAIN s /\ s[2] = slr_wait_until_transaction
      OBVIOUS
    <3> HIDE DEF s
    <3> QED
      BY <3>1, FindFinds DEF slr_wait_until_transaction, slr_get_instances
  <2>4. CanDrop("slr", "instance", t, TRUE)
    <3> DEFINE p == << NeedId, Drop("instance", "uuid", Stop), Await(Either) >>
    <3>1. 2 \in DOMAIN p /\ p[2] = Drop("instance", "uuid", Stop)
      OBVIOUS
    <3> HIDE DEF p
    <3>2. CanDrop("slr", "instance", IfFound(p), TRUE)
      BY <3>1, DropClears DEF Known
    <3> QED
      BY <3>2 DEF p
  <2> HIDE DEF s, t
  <2>5. CanDrop("slr", "instance", s \o t, FALSE)
    BY <2>1, <2>2, <2>3, <2>4, ClearsAfter, FitsIsSeq
  <2> QED
    BY <2>5 DEF s, t, Due, Owned, slr_vmdestroy
<1>8. \A r \in Due("csk") : CanDrop("csk", r, csk_vmdestroy, FALSE)
  <2> DEFINE s == << csk_connect, csk_get_vm_instance >>
  <2> DEFINE t == IfFound(<< Drop("instance", "name", Stop), Await(Stop) >>)
  <2> DEFINE u == << csk_free_volumes >>
  <2>1. Fits("remove", "csk", s)
    BY CallsPermitted, RemoversPermitted, IfFits, FitsConcat, List0, List1,
       List2, List3, List4
       DEF Kinds, Known, Capacity, csk_connect, csk_get_vm_instance
  <2>2. Fits("remove", "csk", t)
    BY CallsPermitted, RemoversPermitted, IfFits, FitsConcat, List0, List1,
       List2, List3, List4
       DEF Kinds, Known, Capacity, IfFound
  <2>3. Fits("remove", "csk", u)
    BY CallsPermitted, RemoversPermitted, IfFits, FitsConcat, List0, List1,
       List2, List3, List4
       DEF Kinds, Known, Capacity, csk_free_volumes
  <2>4. \E m \in DOMAIN s : Finds(s[m])
    <3>1. 2 \in DOMAIN s /\ s[2] = csk_get_vm_instance
      OBVIOUS
    <3> HIDE DEF s
    <3> QED
      BY <3>1, FindFinds DEF csk_get_vm_instance
  <2>5. CanDrop("csk", "instance", t, TRUE)
    <3> DEFINE p == << Drop("instance", "name", Stop), Await(Stop) >>
    <3>1. 1 \in DOMAIN p /\ p[1] = Drop("instance", "name", Stop)
      OBVIOUS
    <3> HIDE DEF p
    <3>2. CanDrop("csk", "instance", IfFound(p), TRUE)
      BY <3>1, DropClears DEF Known
    <3> QED
      BY <3>2 DEF p
  <2> HIDE DEF s, t, u
  <2>6. CanDrop("csk", "instance", s \o t, FALSE)
    BY <2>1, <2>2, <2>4, <2>5, ClearsAfter, FitsIsSeq
  <2>7. CanDrop("csk", "instance", s \o t \o u, FALSE)
    BY <2>1, <2>2, <2>3, <2>6, ClearsBefore, FitsConcat, FitsIsSeq
  <2> QED
    BY <2>7 DEF s, t, u, Due, Owned, csk_vmdestroy
<1>9. \A r \in Due("kub") : CanDrop("kub", r, kub_vmdestroy, FALSE)
  <2> DEFINE s == << kub_connect, Find("name", Either) >>
  <2> DEFINE t == IfFound(<< kub_get_instances("service"),
         kub_get_instances("controller"), Drop("instance", "name", Stop),
         Await(Either) >>)
  <2>1. Fits("remove", "kub", s)
    BY CallsPermitted, RemoversPermitted, IfFits, FitsConcat, List0, List1,
       List2, List3, List4
       DEF Kinds, Known, Capacity, kub_connect
  <2>2. Fits("remove", "kub", t)
    BY CallsPermitted, RemoversPermitted, IfFits, FitsConcat, List0, List1,
       List2, List3, List4
       DEF Kinds, Known, Capacity, IfFound, kub_get_instances
  <2>3. \E m \in DOMAIN s : Finds(s[m])
    <3>1. 2 \in DOMAIN s /\ s[2] = Find("name", Either)
      OBVIOUS
    <3> HIDE DEF s
    <3> QED
      BY <3>1, FindFinds
  <2>4. CanDrop("kub", "instance", t, TRUE)
    <3> DEFINE p == << kub_get_instances("service"),
           kub_get_instances("controller"), Drop("instance", "name", Stop),
           Await(Either) >>
    <3>1. 3 \in DOMAIN p /\ p[3] = Drop("instance", "name", Stop)
      OBVIOUS
    <3> HIDE DEF p
    <3>2. CanDrop("kub", "instance", IfFound(p), TRUE)
      BY <3>1, DropClears DEF Known
    <3> QED
      BY <3>2 DEF p
  <2> HIDE DEF s, t
  <2>5. CanDrop("kub", "instance", s \o t, FALSE)
    BY <2>1, <2>2, <2>3, <2>4, ClearsAfter, FitsIsSeq
  <2> QED
    BY <2>5 DEF s, t, Due, Owned, kub_vmdestroy
<1>10. \A r \in Due("lc") : CanDrop("lc", r, lc_vmdestroy(<< >>, << >>), FALSE)
  <2> DEFINE s == << lc_credentials, lc_connect, lc_get_instances >>
  <2> DEFINE t == IfFound(<< lc_power_on_node, Drop("instance", "name", Stop) >> \o
         << >> \o << Await(Stop) >>)
  <2> DEFINE u == lc_vvdestroy
  <2> DEFINE v == << >>
  <2>1. Fits("remove", "lc", s)
    BY CallsPermitted, RemoversPermitted, IfFits, FitsConcat, List0, List1,
       List2, List3, List4
       DEF Kinds, Known, Capacity, lc_credentials, lc_connect,
           lc_get_instances
  <2>2. Fits("remove", "lc", t)
    BY CallsPermitted, RemoversPermitted, IfFits, FitsConcat, List0, List1,
       List2, List3, List4
       DEF Kinds, Known, Capacity, IfFound, lc_power_on_node
  <2>3. Fits("remove", "lc", u)
    BY CallsPermitted, RemoversPermitted, IfFits, FitsConcat, List0, List1,
       List2, List3, List4
       DEF Kinds, Known, Capacity, lc_vvdestroy, IfKnown
  <2>4. Fits("remove", "lc", v)
    BY CallsPermitted, RemoversPermitted, IfFits, FitsConcat, List0, List1,
       List2, List3, List4
       DEF Kinds, Known, Capacity
  <2>5. \E m \in DOMAIN s : Finds(s[m])
    <3>1. 3 \in DOMAIN s /\ s[3] = lc_get_instances
      OBVIOUS
    <3> HIDE DEF s
    <3> QED
      BY <3>1, FindFinds DEF lc_get_instances
  <2>6. CanDrop("lc", "instance", t, TRUE)
    <3> DEFINE p == << lc_power_on_node, Drop("instance", "name", Stop) >> \o << >>
           \o << Await(Stop) >>
    <3>1. 2 \in DOMAIN p /\ p[2] = Drop("instance", "name", Stop)
      OBVIOUS
    <3> HIDE DEF p
    <3>2. CanDrop("lc", "instance", IfFound(p), TRUE)
      BY <3>1, DropClears DEF Known
    <3> QED
      BY <3>2 DEF p
  <2>7. CanDrop("lc", "volume", u, FALSE)
    <3> DEFINE p == << Drop("volume", "name", Either) >>
    <3>1. 1 \in DOMAIN p /\ p[1] = Drop("volume", "name", Either)
      OBVIOUS
    <3> HIDE DEF p
    <3>2. CanDrop("lc", "volume", IfKnown(p), FALSE)
      BY <3>1, DropClears DEF Known
    <3> QED
      BY <3>2 DEF p, lc_vvdestroy
  <2> HIDE DEF s, t, u, v
  <2>8. CanDrop("lc", "instance", s \o t, FALSE)
    BY <2>1, <2>2, <2>5, <2>6, ClearsAfter, FitsIsSeq
  <2>9. CanDrop("lc", "instance", s \o t \o u, FALSE)
    BY <2>1, <2>2, <2>3, <2>8, ClearsBefore, FitsConcat, FitsIsSeq
  <2>10. CanDrop("lc", "instance", s \o t \o u \o v, FALSE)
    BY <2>1, <2>2, <2>3, <2>4, <2>9, ClearsBefore, FitsConcat, FitsIsSeq
  <2>11. CanDrop("lc", "volume", s \o t \o u, FALSE)
    BY <2>1, <2>2, <2>3, <2>7, ClearsAfter, FitsConcat, FitsIsSeq
  <2>12. CanDrop("lc", "volume", s \o t \o u \o v, FALSE)
    BY <2>1, <2>2, <2>3, <2>4, <2>11, ClearsBefore, FitsConcat, FitsIsSeq
  <2> QED
    BY <2>10, <2>12 DEF s, t, u, v, Due, Owned, lc_vmdestroy
<1>11. \A r \in Due("as") : CanDrop("as", r, lc_vmdestroy(as_destroy_node, as_post_vmdelete_process), FALSE)
  <2> DEFINE s == << lc_credentials, lc_connect, lc_get_instances >>
  <2> DEFINE t == IfFound(<< lc_power_on_node, Drop("instance", "name", Stop) >> \o
         as_destroy_node \o << Await(Stop) >>)
  <2> DEFINE u == lc_vvdestroy
  <2> DEFINE v == as_post_vmdelete_process
  <2>1. Fits("remove", "as", s)
    BY CallsPermitted, RemoversPermitted, IfFits, FitsConcat, List0, List1,
       List2, List3, List4
       DEF Kinds, Known, Capacity, lc_credentials, lc_connect,
           lc_get_instances
  <2>2. Fits("remove", "as", t)
    BY CallsPermitted, RemoversPermitted, IfFits, FitsConcat, List0, List1,
       List2, List3, List4
       DEF Kinds, Known, Capacity, IfFound, lc_power_on_node, as_destroy_node
  <2>3. Fits("remove", "as", u)
    BY CallsPermitted, RemoversPermitted, IfFits, FitsConcat, List0, List1,
       List2, List3, List4
       DEF Kinds, Known, Capacity, lc_vvdestroy, IfKnown
  <2>4. Fits("remove", "as", v)
    BY CallsPermitted, RemoversPermitted, IfFits, FitsConcat, List0, List1,
       List2, List3, List4
       DEF Kinds, Known, Capacity, as_post_vmdelete_process
  <2>5. \E m \in DOMAIN s : Finds(s[m])
    <3>1. 3 \in DOMAIN s /\ s[3] = lc_get_instances
      OBVIOUS
    <3> HIDE DEF s
    <3> QED
      BY <3>1, FindFinds DEF lc_get_instances
  <2>6. CanDrop("as", "instance", t, TRUE)
    <3> DEFINE p == << lc_power_on_node, Drop("instance", "name", Stop) >> \o
           as_destroy_node \o << Await(Stop) >>
    <3>1. 2 \in DOMAIN p /\ p[2] = Drop("instance", "name", Stop)
      BY DEF as_destroy_node
    <3> HIDE DEF p
    <3>2. CanDrop("as", "instance", IfFound(p), TRUE)
      BY <3>1, DropClears DEF Known
    <3> QED
      BY <3>2 DEF p
  <2> HIDE DEF s, t, u, v
  <2>7. CanDrop("as", "instance", s \o t, FALSE)
    BY <2>1, <2>2, <2>5, <2>6, ClearsAfter, FitsIsSeq
  <2>8. CanDrop("as", "instance", s \o t \o u, FALSE)
    BY <2>1, <2>2, <2>3, <2>7, ClearsBefore, FitsConcat, FitsIsSeq
  <2>9. CanDrop("as", "instance", s \o t \o u \o v, FALSE)
    BY <2>1, <2>2, <2>3, <2>4, <2>8, ClearsBefore, FitsConcat, FitsIsSeq
  <2> QED
    BY <2>9 DEF s, t, u, v, Due, Owned, lc_vmdestroy
<1>12. Due("nop") = {} /\ Due("sim") = {}
  BY DEF Due, Owned
<1>13. \A r \in Due("ntnx") : CanDrop("ntnx", r, ntnx_vmdestroy(FALSE), FALSE)
  <2> DEFINE p == << ntnx_connect, ntnx_get_instances, NeedFound, ntnx_retriable_instance_delete,
                     Await(Either) >>
  <2>1. ntnx_vmdestroy(FALSE) = p
    BY DEF ntnx_vmdestroy
  <2>2. 4 \in DOMAIN p /\ p[4] = Drop("instance", "uuid", Either)
    BY DEF ntnx_retriable_instance_delete
  <2> HIDE DEF p
  <2>3. CanDrop("ntnx", "instance", p, FALSE)
    BY <2>2, DropClears DEF Known
  <2> QED
    BY <2>1, <2>3 DEF Due, Owned
<1> QED
  BY <1>1, <1>2, <1>3, <1>4, <1>5, <1>6, <1>7, <1>8, <1>9, <1>10, <1>11,
     <1>12, <1>13, DestroyOf DEF DriverNames

(* As long as no call of it fails, a detach that goes on has still to      *)
(* delete whatever of this exists; then it is gone.                        *)
Duty(d) == Due(d) \ LeftByDetach(d)
Clearing ==
    /\ at = "detaching" /\ ~broken /\ ~slipped =>
         \A r \in Duty(drv) : r \in things => CanDrop(drv, r, todo, found)
    /\ at = "gone" /\ ~slipped => things \cap Duty(drv) = {}

(* What exists is seen by a lookup that can.                               *)
LEMMA FindableIsSeen ==
  ASSUME Named, at \in VMPhases, Known(drv) \subseteq ids, NEW i, Findable(drv, i),
         i.on \in things
  PROVE  Seen(i.on, i.by)
  BY DEF Findable, Seen, Present, Named

(* An instance that was seen is not in the way of a deletion.              *)
LEMMA SeenClears ==
  ASSUME NEW d, NEW r, NEW p, NEW f \in BOOLEAN, CanDrop(d, r, p, f) PROVE CanDrop(d, r, p, TRUE)
  BY DEF CanDrop, Clears

(* A step of a program without an error.                                   *)
LEMMA WentWell ==
  ASSUME RunAction, ~broken', ~slipped'
  PROVE  /\ StepOver \/ Step
         /\ ~broken /\ ~slipped /\ todo # << >> /\ todo' = Tail(todo)
<1>1. StepOver \/ Step
  BY DEF RunAction, Refuse, Leave, TimeOut, Fault, Fail
<1>2. slipped' = slipped
  BY <1>1 DEF StepOver, Step
<1>3. Run
  BY RunIs
<1> QED
  BY <1>1, <1>2, <1>3 DEF Run

(* What can be seen of all that exists, with the ids of driver d.          *)
Sees(d) == \A i : Findable(d, i) /\ i.on \in things => Seen(i.on, i.by)

(* A thing that outlives a step without an error has still to be deleted:  *)
(* its deletion is no step that it outlives.                               *)
LEMMA StillClears ==
  ASSUME NEW d, NEW r, found \in BOOLEAN, Known(d) \subseteq ids, Sees(d),
         IsSeq(todo), todo # << >>, Current = {todo[1]}, RunEffects(todo[1]),
         StepOver \/ Step, todo' = Tail(todo),
         todo[1].do \notin Makes,
         todo[1].do = "find" => todo[1].on = "instance",
         todo[1].do = "find" /\ r = "instance" => Findable(d, todo[1]),
         r \in things', CanDrop(d, r, todo, found)
  PROVE  CanDrop(d, r, todo', found')
<1> DEFINE i == todo[1]
<1>1. r \in things
  BY DEF RunEffects
<1>2. \/ Clears(d, r, i, found)
      \/ CanDrop(d, r, Tail(todo), found)
      \/ r = "instance" /\ Finds(i) /\ CanDrop(d, r, Tail(todo), TRUE)
  BY TailClears
<1> HIDE DEF i
<1>3. ~Clears(d, r, i, found)
  <2> SUFFICES ASSUME Clears(d, r, i, found) PROVE FALSE
    OBVIOUS
  <2>1. Applies(i)
    BY DEF Clears, Applies
  <2>2. Step
    BY <2>1 DEF StepOver, i
  <2>3. Effect(i) /\ (i.do = "await" => "instance" \notin Present)
    BY <2>2 DEF Step, i
  <2>4. CASE i.do \in Drops /\ Findable(d, i)
    <3>1. Seen(i.on, i.by)
      BY <1>1, <2>4 DEF Sees, Clears
    <3>2. things' = things \ {i.on}
      BY <2>3, <2>4, <3>1 DEF Effect, Making, Tagging, Dropping, Powering, Accounting,
                              Looking, Drops, Makes
    <3> QED
      BY <3>2 DEF Clears
  <2>5. CASE i.do = "await" /\ r = "instance"
    BY <1>1, <2>3, <2>5 DEF Present
  <2> QED
    BY <2>4, <2>5 DEF Clears
<1>4. CASE r = "instance" /\ Finds(i) /\ CanDrop(d, r, Tail(todo), TRUE)
  <2>1. Applies(i) /\ i.on = "instance" /\ Findable(d, i) /\ i.do = "find"
    BY <1>4 DEF Finds, Applies, i
  <2>2. Step
    BY <2>1 DEF StepOver, i
  <2>3. Seen(i.on, i.by)
    BY <1>1, <1>4, <2>1 DEF Sees
  <2>4. found' = TRUE
    BY <2>1, <2>2, <2>3 DEF Step, i
  <2> QED
    BY <1>4, <2>4
<1>5. CASE CanDrop(d, r, Tail(todo), found)
  <2>1. CASE found' = found
    BY <1>5, <2>1
  <2>2. CASE found' # found
    <3>1. Step /\ i.do = "find"
      BY <2>2 DEF StepOver, Step, i
    <3>2. found' = Seen(i.on, i.by) /\ i.on = "instance"
      BY <3>1 DEF Step, i
    <3>3. CASE r = "instance"
      <4>1. Findable(d, i)
        BY <3>1, <3>3 DEF i
      <4>2. found' = TRUE
        BY <1>1, <3>2, <3>3, <4>1 DEF Sees
      <4> QED
        BY <1>5, <4>2, SeenClears
    <3>4. CASE r # "instance"
      BY <1>5, <3>4 DEF CanDrop, Clears
    <3> QED
      BY <3>3, <3>4
  <2> QED
    BY <2>1, <2>2
<1> QED
  BY <1>2, <1>3, <1>4, <1>5

(* Its deletion sees what exists, for it looks by name or by an id that is *)
(* known.                                                                  *)
LEMMA ClearingStep ==
  ASSUME Shape, Healthy, KnowsIds, Named, found \in BOOLEAN, Clearing, [Next]_vars
  PROVE  Clearing'
<1>1. CASE RunAction
  <2>1. UNCHANGED << drv, at >> /\ todo # << >>
    BY <1>1, RunIs DEF Run
  <2>2. at # "gone"
    BY <2>1 DEF Shape, Idle, After, Over
  <2>3. ASSUME at = "detaching", ~broken', ~slipped', NEW r \in Duty(drv), r \in things'
        PROVE  CanDrop(drv, r, todo', found')
    <3>1. at \in VMPhases /\ Known(drv) \subseteq ids
      BY <2>3 DEF VMPhases, Settled, KnowsIds
    <3>2. IsSeq(todo) /\ Current = {todo[1]} /\ Removes(drv, todo[1])
      BY <2>1, <2>3, <3>1, KindOfProgram DEF Destroying
    <3>3. RunEffects(todo[1])
      BY <1>1, <3>2, EffectsAre
    <3>4. (StepOver \/ Step) /\ ~broken /\ ~slipped /\ todo' = Tail(todo)
      BY <1>1, <2>3, WentWell
    <3>5. Sees(drv)
      BY <3>1, FindableIsSeen DEF Sees
    <3>6. todo[1].do \notin Makes
      BY <3>2 DEF Removes, Makes, Drops
    <3>7. todo[1].do = "find" => todo[1].on = "instance" /\ Findable(drv, todo[1])
      BY <3>2 DEF Removes
    <3>8. CanDrop(drv, r, todo, found)
      BY <2>3, <3>3, <3>4, <3>6 DEF Clearing, RunEffects
    <3> QED
      BY <2>1, <2>3, <3>1, <3>2, <3>3, <3>4, <3>5, <3>6, <3>7, <3>8, StillClears
  <2> QED
    BY <2>1, <2>2, <2>3 DEF Clearing
<1>2. CASE Move
  <2>1. UNCHANGED << drv, things >>
    BY <1>2 DEF Move, cloud
  <2>2. CASE ToDestroy
    <3>1. cstat = FALSE /\ at' # "gone"
      BY <2>2 DEF ToDestroy, Healthy, Settled
    <3>2. todo' = vmdestroy(drv, FALSE) /\ found' = FALSE
      BY <2>2, <3>1 DEF ToDestroy, Begun
    <3> QED
      BY <2>1, <3>1, <3>2, DestroyClears DEF Clearing, Duty, Shape
  <2>3. CASE ToGone
    <3>1. at' = "gone" /\ at = "detaching" /\ todo = << >> /\ ~broken /\ slipped' = slipped
      BY <2>3 DEF ToGone, Over
    <3>2. \A r : ~CanDrop(drv, r, << >>, found)
      BY DEF CanDrop
    <3> QED
      BY <2>1, <3>1, <3>2 DEF Clearing
  <2>4. CASE ~ToDestroy /\ ~ToGone
    <3>1. at' \notin {"detaching", "gone"}
      BY <1>2, <2>4 DEF Move, ToTest, ToTested, ToRegister, ToNew, ToCreate, ToUp, ToUndo,
            ToAttached, ToState, ToCapture, ToFailed, ToCrashed, ToClean, ToCleaned,
            Elsewhere, Undoing
    <3> QED
      BY <3>1 DEF Clearing
  <2> QED
    BY <2>2, <2>3, <2>4
<1>3. CASE Vanish
  BY <1>3 DEF Vanish, Clearing, program
<1>4. CASE UNCHANGED vars
  BY <1>4 DEF vars, Clearing, program, cloud
<1> QED
  BY <1>1, <1>2, <1>3, <1>4, StepsAre

(* The answer of a lookup is yes or no.                                    *)
LEMMA FoundStep == ASSUME found \in BOOLEAN, Shape, [Next]_vars PROVE found' \in BOOLEAN
<1>1. CASE RunAction
  BY <1>1 DEF RunAction, StepOver, Step, Refuse, TimeOut, Fault, Seen
<1>2. CASE Next /\ ~RunAction
  BY <1>2 DEF Next, RunAction, Program, Vanish, program, Test, Register, Attach, PostAttach,
     Recreate, AttachFailed, Attached, Following, Created, CreateFailed, AfterOwnUndo, AfterUndo,
     AfterRollback, Tested, Registered, DestroyAgain, CreateAgain, Detached, RunStateChanged,
     Captured, ImageDeleted, Cleaned, Detach, RunState, Capture, DeleteImage, Crash, Cleanup,
     StartDestroy, StartCreate, Start, Rest, CommonUndo, Raised
<1>3. CASE UNCHANGED vars
  BY <1>3 DEF vars, program
<1> QED
  BY <1>1, <1>2, <1>3

(* ------------- nothing is made before the credentials are known --------- *)

(* The token is asked for first; the list of credentials is the second     *)
(* thing that a vmcreate of these drivers does.                            *)
LEMMA LearnsSecond ==
  ASSUME NEW pre, NEW vv, IsSeq(pre), IsSeq(vv)
  PROVE  LET p == lc_vmcreate(pre, vv)
         IN  /\ IsSeq(p) /\ 1 \in DOMAIN p /\ 2 \in DOMAIN p
             /\ p[1] = Call("token") /\ p[2] = Learn("credentials_list")
<1> DEFINE h == << lc_rotate_token, Learn("credentials_list"), lc_connect, lc_is_vm_running,
                   lc_get_images, Call("keys") >>
           m == << MakeNamed("instance"), Learn("instance") >>
           r == wait_for_instance_ready(lc_is_vm_ready)
           u == << Call("attach volume"), wait_for_instance_boot >>
           Leads(p) == /\ IsSeq(p) /\ 1 \in DOMAIN p /\ 2 \in DOMAIN p
                       /\ p[1] = Call("token") /\ p[2] = Learn("credentials_list")
<1>1. Fits("keep", "volume", h) /\ Fits("keep", "volume", m)
  BY CallsPermitted, KeepersPermitted, List2, List6
     DEF Kinds, lc_rotate_token, lc_connect, lc_is_vm_running, lc_get_images
<1>2. Fits("keep", "volume", r) /\ Fits("keep", "volume", u)
  BY CallsPermitted, KeepersPermitted, FitsConcat, List1, List2
     DEF Kinds, wait_for_instance_ready, wait_for_instance_boot, lc_is_vm_ready,
         lc_get_ip_address
<1>3. IsSeq(h) /\ IsSeq(m) /\ IsSeq(r) /\ IsSeq(u)
  BY <1>1, <1>2, FitsIsSeq
<1>4. DOMAIN h = 1..6 /\ h[1] = Call("token") /\ h[2] = Learn("credentials_list")
  BY DEF lc_rotate_token
<1> HIDE DEF h, m, r, u
<1>5. Leads(h)
  BY <1>3, <1>4
<1>6. ASSUME NEW s, NEW t, Leads(s), IsSeq(t) PROVE Leads(s \o t)
  <2> DEFINE S == {s[k] : k \in DOMAIN s} \cup {t[k] : k \in DOMAIN t}
  <2>1. s \in Seq(S) /\ t \in Seq(S)
    BY <1>6 DEF IsSeq
  <2> HIDE DEF S
  <2>2. s \o t \in Seq(S)
    BY <2>1
  <2>3. IsSeq(s \o t)
    BY <2>2, SeqOfItsOwn
  <2>4. /\ DOMAIN s = 1..Len(s) /\ Len(s) \in Nat /\ Len(t) \in Nat
        /\ DOMAIN (s \o t) = 1..Len(s) + Len(t)
        /\ \A k \in 1..Len(s) : (s \o t)[k] = s[k]
    BY <1>6, ConcatIs
  <2>5. 1 \in 1..Len(s) /\ 2 \in 1..Len(s)
    BY <1>6, <2>4
  <2>6. 1 \in DOMAIN (s \o t) /\ 2 \in DOMAIN (s \o t)
    BY <2>4, <2>5
  <2> QED
    BY <1>6, <2>3, <2>4, <2>5, <2>6
<1>7. Leads((h \o pre) \o vv)
  BY <1>5, <1>6
<1>8. Leads((((h \o pre) \o vv) \o m) \o r)
  BY <1>3, <1>6, <1>7
<1>9. Leads(((((h \o pre) \o vv) \o m) \o r) \o u)
  BY <1>3, <1>6, <1>8
<1> QED
  BY <1>9 DEF h, m, r, u, lc_vmcreate

Credentials == "credentials_list"
(* So it is with both drivers.                                             *)
LEMMA CreateAsks ==
  ASSUME NEW d \in DriverNames, Credentials \in Known(d)
  PROVE  LET p == vmcreate(d)
         IN  p[1] = Call("token") /\ Tail(p)[1] = Learn(Credentials)
<1> DEFINE Leads(p) == /\ IsSeq(p) /\ 1 \in DOMAIN p /\ 2 \in DOMAIN p
                       /\ p[1] = Call("token") /\ p[2] = Learn(Credentials)
<1>1. d \in {"lc", "as"}
  BY DEF Known, Credentials, Capacity
<1>2. IsSeq(<< >>) /\ IsSeq(lc_vvcreate) /\ IsSeq(as_pre_vmcreate_process)
  BY KeepersPermitted, FitsIsSeq, List0, List1, List2 DEF lc_vvcreate, as_pre_vmcreate_process
<1>3. Leads(lc_vmcreate(<< >>, lc_vvcreate)) /\ Leads(lc_vmcreate(as_pre_vmcreate_process, << >>))
  BY <1>2, LearnsSecond DEF Credentials
<1>4. Leads(vmcreate(d))
  BY <1>1, <1>3, CreateOf
<1> HIDE DEF Leads
<1>5. ASSUME NEW p, Leads(p)
      PROVE  p[1] = Call("token") /\ Tail(p)[1] = Learn(Credentials)
  <2>1. IsSeq(p) /\ 1 \in DOMAIN p /\ 2 \in DOMAIN p
        /\ p[1] = Call("token") /\ p[2] = Learn(Credentials)
    BY <1>5 DEF Leads
  <2>2. p # << >>
    BY <2>1
  <2>3. DOMAIN Tail(p) = 1..Len(p) - 1 /\ Len(p) \in Nat /\ DOMAIN p = 1..Len(p)
        /\ \A k \in 1..Len(p) - 1 : Tail(p)[k] = p[k+1]
    BY <2>1, <2>2, TailIs
  <2>4. 1 \in DOMAIN Tail(p) /\ Tail(p)[1] = p[2]
    BY <2>1, <2>3
  <2> QED
    BY <2>1, <2>4
<1> QED
  BY <1>4, <1>5

(* To learn cannot fail.                                                   *)
LEMMA LearnIs ==
  ASSUME NEW r
  PROVE  Learn(r).do = "learn" /\ Learn(r).on = r /\ Learn(r).err = {} /\ Learn(r).when = {}
  BY DEF Learn, Instr

(* As long as they are not known, nothing of the VM has been made, and the *)
(* creation has not got past the token or the list.                        *)
Keyed ==
    at \in Before \cup {"creating"} \cup Undoing /\ Credentials \in Known(drv) \ ids =>
        /\ things \cap Owned(drv) = {}
        /\ at = "creating" /\ ~broken =>
             todo = vmcreate(drv) \/ todo = Tail(vmcreate(drv))

(* The token may be refused for ever, but nothing is made before it is     *)
(* given.                                                                  *)
LEMMA KeyedStep == ASSUME Shape, Stopped, KnowsIds, Keyed, [Next]_vars PROVE Keyed'
<1>1. CASE RunAction
  <2>1. Run
    BY <1>1, RunIs
  <2>2. UNCHANGED << drv, at >> /\ todo # << >>
    BY <2>1 DEF Run
  <2> SUFFICES ASSUME at \in Before \cup {"creating"} \cup Undoing,
                      Credentials \in Known(drv), Credentials \notin ids'
               PROVE  /\ things' \cap Owned(drv) = {}
                      /\ at = "creating" /\ ~broken' =>
                           todo' = vmcreate(drv) \/ todo' = Tail(vmcreate(drv))
    BY <2>2 DEF Keyed
  <2>3. at \in VMPhases
    BY DEF VMPhases
  <2>4. IsSeq(todo) /\ Current = {todo[1]} /\ RunEffects(todo[1])
    BY <1>1, <2>2, <2>3, KindOfProgram, EffectsAre
  <2>5. Credentials \notin Owned(drv) \cup Capacity
    BY DEF Credentials, Owned, Capacity
  <2>6. Credentials \notin ids
    <3>1. CASE todo[1].do \notin Makes \cup {"forget"}
      BY <2>4, <3>1 DEF RunEffects
    <3>2. CASE todo[1].do \in Makes \cup {"forget"}
      <4>1. Builds(drv, todo[1])
        BY <2>2, <2>3, <3>2, KindOfProgram
           DEF Sweeps, Removes, Switches, Copies, Drops, Makes, Before, Undoing
      <4>2. todo[1].on # Credentials
        BY <2>5, <3>2, <4>1 DEF Builds
      <4> QED
        BY <2>4, <4>2 DEF RunEffects
    <3> QED
      BY <3>1, <3>2
  <2>7. things \cap Owned(drv) = {}
    BY <2>6 DEF Keyed
  <2>8. CASE at # "creating"
    <3>1. todo[1].do \notin Makes
      BY <2>2, <2>3, <2>8, KindOfProgram
         DEF Sweeps, Removes, Drops, Makes, Before, Undoing
    <3>2. things' \subseteq things
      BY <2>4, <3>1 DEF RunEffects
    <3> QED
      BY <2>7, <2>8, <3>2
  <2>9. CASE at = "creating"
    <3>1. ~broken
      BY <2>2, <2>3 DEF Stopped, Over
    <3>2. drv \in DriverNames
      BY DEF Shape
    <3>3. todo # Tail(vmcreate(drv))
      <4> SUFFICES ASSUME todo = Tail(vmcreate(drv)) PROVE FALSE
        OBVIOUS
      <4>1. todo[1] = Learn(Credentials)
        BY <3>2, CreateAsks
      <4>2. /\ todo[1].do = "learn" /\ todo[1].on = Credentials
            /\ todo[1].err = {} /\ todo[1].when = {}
        BY Zenon, <4>1, LearnIs
      <4>3. Applies(todo[1]) /\ ~Refused(todo[1])
        BY <4>2, Unconditional DEF Refused
      <4>4. Step
        BY <1>1, <2>4, <4>2, <4>3
           DEF RunAction, StepOver, Refuse, TimeOut, Fault, Fail
      <4>5. Credentials \in ids'
        BY <2>4, <4>2, <4>4 DEF Step
      <4> QED
        BY <4>5
    <3>4. todo = vmcreate(drv)
      BY <2>6, <2>9, <3>1, <3>3 DEF Keyed
    <3>5. todo[1].do = "call"
      BY <3>2, <3>4, CreateAsks DEF Call, Instr
    <3>6. things' \subseteq things
      BY <2>4, <3>5 DEF RunEffects, Makes
    <3>7. ~broken' => todo' = Tail(todo)
      BY <2>1 DEF Run
    <3> QED
      BY <2>7, <3>4, <3>6, <3>7
  <2> QED
    BY <2>8, <2>9
<1>2. CASE Move
  <2>1. UNCHANGED << drv, things >>
    BY <1>2 DEF Move, cloud
  <2>2. CASE ToCreate
    <3>1. /\ at' = "creating" /\ todo' = vmcreate(drv) /\ ids' = ids
          /\ at \in {"new"} \cup Settled
      BY <2>2 DEF ToCreate, Settled
    <3> QED
      BY <2>1, <3>1 DEF Keyed, KnowsIds, Before
  <2>3. CASE ToUndo
    <3>1. at' \in Undoing /\ at' # "creating" /\ ids' = ids
          /\ at \in Undoing \cup {"creating", "up"}
      BY <2>3 DEF ToUndo, Undoing
    <3> QED
      BY <2>1, <3>1 DEF Keyed, KnowsIds, Settled
  <2>4. CASE ToRegister \/ ToNew
    <3>1. at \in Before /\ at' \in Before /\ at' # "creating" /\ ids' = ids
      BY <2>4 DEF ToRegister, ToNew, Before
    <3> QED
      BY <2>1, <3>1 DEF Keyed
  <2>5. CASE ~(ToCreate \/ ToUndo \/ ToRegister \/ ToNew)
    <3>1. at' \notin Before \cup {"creating"} \cup Undoing
      BY <1>2, <2>5 DEF Move, ToTest, ToTested, ToUp, ToDestroy, ToFailed, ToAttached,
            ToState, ToCapture, ToGone, ToCrashed, ToClean, ToCleaned, Elsewhere, Undoing,
            Before
    <3> QED
      BY <3>1 DEF Keyed
  <2> QED
    BY <2>2, <2>3, <2>4, <2>5
<1>3. CASE Vanish
  BY <1>3 DEF Vanish, Keyed, program, vm
<1>4. CASE UNCHANGED vars
  BY <1>4 DEF vars, Keyed, program, cloud, vm
<1> QED
  BY <1>1, <1>2, <1>3, <1>4, StepsAre

(* ------------------- an attach that failed is undone -------------------- *)

(* One who has no ids to look for: the undo of a vmcreate that failed half *)
(* way, or a cleanup.                                                      *)
Stranger == "stranger"

(* It knows no id.                                                         *)
LEMMA StrangersKnow == Known(Stranger) = {}
  BY DEF Known, Stranger, Capacity

(* Except on EC2, everything carries the VM's name.                        *)
LEMMA StrangerSees ==
  ASSUME Named, at \in VMPhases, drv # "ec2" PROVE Sees(Stranger)
  BY StrangersKnow DEF Sees, Findable, Seen, Present, Named

(* What vmdestroy does not look for by id, a stranger deletes as well.     *)
LEMMA StrangerClears ==
  ASSUME NEW d, d # "ec2", NEW r, r \notin Known(d), NEW p, NEW f \in BOOLEAN,
         CanDrop(d, r, p, f)
  PROVE  CanDrop(Stranger, r, p, f)
<1>1. PICK k \in DOMAIN p : Clears(d, r, p[k], f \/ \E j \in 1..k-1 : Finds(p[j]))
  BY DEF CanDrop
<1>2. Clears(Stranger, r, p[k], f \/ \E j \in 1..k-1 : Finds(p[j]))
  BY <1>1 DEF Clears, Findable, Stranger
<1> QED
  BY <1>2 DEF CanDrop

(* What an undo is sure to remove.                                         *)
Sure(d) == Owned(d) \ LeftByUndo(d)

(* LeftByUndo, driver by driver.                                           *)
LEMMA LeftByUndoOf ==
  /\ LeftByUndo("osk") = {"address", "volume"} /\ LeftByUndo("ec2") = {"instance", "volume"}
  /\ LeftByUndo("pdm") = {"volume"} /\ LeftByUndo("pcm") = {"ports"}
  /\ LeftByUndo("plm") = {"boot volume", "volume"} /\ LeftByUndo("slr") = {"instance"}
  /\ LeftByUndo("ntnx") = {"instance"} /\ LeftByUndo("kub") = {"controller", "service"}
  /\ LeftByUndo("lc") = {"volume"} /\ LeftByUndo("as") = {"address", "nic"}
  BY Zenon DEF LeftByUndo

(* It is found by name: the ids are lost when vmcreate fails early.        *)
LEMMA SureIs ==
  ASSUME NEW d \in DriverNames, NEW r \in Sure(d)
  PROVE  /\ r \in Due(d) /\ r \notin Known(d)
         /\ d \notin {"ec2", "slr", "ntnx", "nop", "sim"}
         /\ d = "plm" => r = "instance"
         /\ d = "osk" => r = "instance"
  BY LeftByUndoOf DEF Sure, Owned, Due, Known, Capacity, DriverNames

(* The vmdestroy of each driver deletes it, also OpenStack's after a failed*)
(* creation.                                                               *)
LEMMA UndoClears ==
  ASSUME NEW d \in DriverNames, NEW failed, NEW r \in Sure(d)
  PROVE  CanDrop(Stranger, r, vmdestroy(d, failed), FALSE)
<1>1. CanDrop(Stranger, r, vmdestroy(d, FALSE), FALSE)
  BY SureIs, DestroyClears, StrangerClears
<1>2. CASE d # "osk"
  <2>1. vmdestroy(d, failed) = vmdestroy(d, FALSE)
    BY <1>2, SureIs, DestroyOf DEF DriverNames
  <2> QED
    BY <1>1, <2>1
<1>3. CASE d = "osk" /\ ~failed
  <2>1. vmdestroy(d, failed) = vmdestroy(d, FALSE)
    BY <1>3, DestroyOf DEF osk_vmdestroy
  <2> QED
    BY <1>1, <2>1
<1>4. CASE d = "osk" /\ failed
  <2> DEFINE a == << Drop("instance", "name", Stop) >>
             s == << osk_get_instances >>
             t == IfFound(a \o osk_vvdestroy)
  <2>1. Fits("remove", "osk", a) /\ Fits("remove", "osk", s)
    BY RemoversPermitted, List1 DEF osk_get_instances
  <2>2. Fits("remove", "osk", osk_vvdestroy)
    BY RemoversPermitted, IfFits, List1 DEF osk_vvdestroy, IfKnown
  <2>3. Fits("remove", "osk", t)
    BY <2>1, <2>2, FitsConcat, IfFits DEF IfFound
  <2>4. 1 \in DOMAIN (a \o osk_vvdestroy)
        /\ (a \o osk_vvdestroy)[1] = Drop("instance", "name", Stop)
    <3>1. Len(a) = 1 /\ a[1] = Drop("instance", "name", Stop)
      OBVIOUS
    <3> HIDE DEF a
    <3> QED
      BY <2>1, <2>2, <3>1, ConcatIs, FitsIsSeq
  <2>5. \E m \in DOMAIN s : Finds(s[m])
    <3>1. 1 \in DOMAIN s /\ s[1] = Find("name", Either)
      BY DEF osk_get_instances
    <3> HIDE DEF s
    <3> QED
      BY <3>1, FindFinds
  <2> HIDE DEF a, s
  <2>6. CanDrop(Stranger, "instance", t, TRUE)
    BY <2>4, DropClears DEF Stranger
  <2> HIDE DEF t
  <2>7. CanDrop(Stranger, "instance", s \o t, FALSE)
    BY <2>1, <2>3, <2>5, <2>6, ClearsAfter, FitsIsSeq
  <2>8. vmdestroy(d, failed) = s \o t
    BY <1>4, DestroyOf DEF osk_vmdestroy, osk_instance_cleanup_on_failure, s, t, a
  <2> QED
    BY <1>4, <2>7, <2>8, SureIs
<1> QED
  BY <1>2, <1>3, <1>4

(* Libvirt's volumes, which it takes for an error not to find, come last.  *)
Demands(i) == i.do = "drop or raise"
RaisesLast(p) ==
    \A j, k \in DOMAIN p : j < k /\ Demands(p[j]) => Demands(p[k])

(* The rest of such a program is one.                                      *)
LEMMA TailRaisesLast ==
  ASSUME NEW p, IsSeq(p), p # << >>, RaisesLast(p)
  PROVE  /\ RaisesLast(Tail(p))
         /\ Demands(p[1]) => \A k \in DOMAIN p : Demands(p[k])
<1>1. /\ Len(p) \in Nat \ {0} /\ DOMAIN p = 1..Len(p)
      /\ DOMAIN Tail(p) = 1..Len(p) - 1
      /\ \A k \in 1..Len(p) - 1 : k + 1 \in DOMAIN p /\ Tail(p)[k] = p[k+1]
  BY TailIs
<1>2. RaisesLast(Tail(p))
  BY <1>1 DEF RaisesLast
<1>3. Demands(p[1]) => \A k \in DOMAIN p : Demands(p[k])
  BY <1>1 DEF RaisesLast
<1> QED
  BY <1>2, <1>3

(* Such a program is a part that demands nothing and one that does.        *)
LEMMA RaisesAtTheEnd ==
  ASSUME NEW s, NEW t, IsSeq(s), IsSeq(t), \A k \in DOMAIN s : ~Demands(s[k]),
         \A k \in DOMAIN t : Demands(t[k])
  PROVE  RaisesLast(s \o t)
<1>1. /\ DOMAIN s = 1..Len(s) /\ DOMAIN t = 1..Len(t) /\ Len(s) \in Nat /\ Len(t) \in Nat
      /\ DOMAIN (s \o t) = 1..Len(s) + Len(t)
      /\ \A k \in 1..Len(s) : (s \o t)[k] = s[k]
      /\ \A k \in 1..Len(t) : (s \o t)[Len(s) + k] = t[k]
  BY ConcatIs
<1>2. ASSUME NEW k \in DOMAIN (s \o t)
      PROVE  Demands((s \o t)[k]) <=> k > Len(s)
  <2>1. CASE k \in 1..Len(s)
    BY <1>1, <2>1
  <2>2. CASE k \notin 1..Len(s)
    <3>1. k - Len(s) \in 1..Len(t) /\ Len(s) + (k - Len(s)) = k /\ k > Len(s)
      BY <1>1, <2>2
    <3> QED
      BY <1>1, <3>1
  <2> QED
    BY <2>1, <2>2
<1> QED
  BY <1>1, <1>2 DEF RaisesLast

(* Only Libvirt's vmdestroy takes it for an error.                         *)
LEMMA NoDemands ==
  ASSUME NEW d, d # "plm", NEW i, Permits("remove", d, i) PROVE ~Demands(i)
  BY Zenon DEF Permits, Removes, Demands

(* In every vmdestroy they come last.                                      *)
LEMMA DestroyRaisesLast ==
  ASSUME NEW d \in DriverNames, NEW failed PROVE RaisesLast(vmdestroy(d, failed))
<1>1. CASE d # "plm"
  <2>1. \A k \in DOMAIN vmdestroy(d, failed) : ~Demands(vmdestroy(d, failed)[k])
    BY <1>1, DestroyFits, NoDemands DEF Fits
  <2> QED
    BY <2>1 DEF RaisesLast
<1>2. CASE d = "plm"
  <2> DEFINE s == << plm_connect, plm_get_instances >> \o
                  IfFound(<< Drop("instance", "name", Either), Await(Either) >>)
             u == << DropOrRaise("boot volume"), DropOrRaise("volume") >>
  <2>1. Fits("remove", "gce", s)
    BY CallsPermitted, RemoversPermitted, IfFits, FitsConcat, List2
       DEF Kinds, plm_connect, plm_get_instances, IfFound
  <2>2. \A k \in DOMAIN s : ~Demands(s[k])
    BY <2>1, NoDemands DEF Fits
  <2>3. Fits("remove", "plm", u)
    BY RemoversPermitted, List2
  <2>4. \A k \in DOMAIN u : IsInstr(u[k]) /\ Demands(u[k])
    <3>1. DOMAIN u = 1..2 /\ u[1] = DropOrRaise("boot volume") /\ u[2] = DropOrRaise("volume")
      OBVIOUS
    <3>2. \A v : Demands(DropOrRaise(v))
      BY Zenon DEF DropOrRaise, Instr, Demands
    <3>3. DOMAIN u = 1..2 /\ Demands(u[1]) /\ Demands(u[2])
      BY Zenon, <3>1, <3>2
    <3> HIDE DEF u
    <3> QED
      BY <2>3, <3>3 DEF Fits, Permits
  <2> HIDE DEF s, u
  <2>5. \A k \in DOMAIN IfKnown(u) : Demands(IfKnown(u)[k])
    <3>1. ASSUME NEW k \in DOMAIN u PROVE Demands(Under("known", u[k]))
      <4>1. IsInstr(u[k]) /\ Demands(u[k])
        BY <2>4
      <4>2. Under("known", u[k]).do = u[k].do
        BY <4>1, UnderKeeps
      <4> QED
        BY Zenon, <4>1, <4>2 DEF Demands
    <3> QED
      BY <3>1 DEF IfKnown, If
  <2>6. Fits("remove", "plm", IfKnown(u))
    BY <2>3, IfFits DEF IfKnown
  <2>7. RaisesLast(s \o IfKnown(u))
    BY <2>1, <2>2, <2>5, <2>6, FitsIsSeq, RaisesAtTheEnd
  <2> QED
    BY <1>2, <2>7, DestroyOf DEF plm_vmdestroy, plm_vvdestroy, s, u
<1> QED
  BY <1>1, <1>2

(* As long as no call of it fails, an undo has still to delete whatever of *)
(* this exists, even if it ends with an error; then it is gone.            *)
Undone ==
    /\ at \in Undoing => RaisesLast(todo)
    /\ at \in Undoing /\ ~slipped =>
         \A r \in Sure(drv) : r \in things => ~broken /\ CanDrop(Stranger, r, todo, found)
    /\ at = "failed" /\ ~slipped => things \cap Sure(drv) = {}

(* What an undo does not find, or cannot delete, is not what it is sure of.*)
LEMMA UndoneStep ==
  ASSUME Shape, Named, Keyed, found \in BOOLEAN, Undone, [Next]_vars PROVE Undone'
<1>1. CASE RunAction
  <2>1. /\ UNCHANGED << drv, at >> /\ todo # << >>
        /\ todo' = Tail(todo) \/ (todo' = << >> /\ broken' = TRUE)
    BY <1>1, RunIs DEF Run
  <2>2. at # "failed"
    BY <2>1 DEF Shape, Idle, After, Over
  <2>3. CASE at \in Undoing
    <3>1. at \in VMPhases /\ at \in Destroying
      BY <2>3 DEF VMPhases, Undoing, Destroying
    <3>2. IsSeq(todo) /\ Current = {todo[1]} /\ Removes(drv, todo[1])
      BY <2>1, <3>1, KindOfProgram DEF Destroying, Settled
    <3>3. RunEffects(todo[1])
      BY <1>1, <3>2, EffectsAre
    <3>4. todo[1].do \notin Makes
      BY <3>2 DEF Removes, Makes, Drops
    <3>5. RaisesLast(todo')
      <4>1. RaisesLast(<< >>)
        BY DEF RaisesLast
      <4> QED
        BY <2>1, <2>3, <3>2, <4>1, TailRaisesLast DEF Undone
    <3>6. ASSUME ~slipped', NEW r \in Sure(drv), r \in things'
          PROVE  ~broken' /\ CanDrop(Stranger, r, todo', found')
      <4>1. ~slipped
        BY <1>1, <3>6 DEF RunAction, StepOver, Step, Refuse, TimeOut, Fault, Fail
      <4>2. r \in things
        BY <3>3, <3>4, <3>6 DEF RunEffects
      <4>3. ~broken /\ CanDrop(Stranger, r, todo, found)
        BY <2>3, <3>6, <4>1, <4>2 DEF Undone
      <4>4. drv \in DriverNames
        BY DEF Shape
      <4>5. r \notin Known(drv) /\ drv \notin {"ec2", "slr", "ntnx", "nop", "sim"}
            /\ (drv = "plm" => r = "instance")
        BY <3>6, <4>4, SureIs
      <4>6. ~Refused(todo[1])
        <5> SUFFICES ASSUME Refused(todo[1]) PROVE FALSE
          OBVIOUS
        <5>1. "instance" \notin Known(drv)
          BY <4>5 DEF Known, Capacity
        <5>5. Credentials \in Known(drv) => Credentials \in ids
          BY <2>3, <3>6, <4>2 DEF Keyed, Sure
        <5>2. todo[1].do = "drop or raise" /\ drv = "plm"
          BY <3>2, <4>5, <5>1, <5>5 DEF Refused, Removes, Drops, Credentials
        <5>3. \A k \in DOMAIN todo : todo[k].do = "drop or raise"
          <6>1. Demands(todo[1]) => \A k \in DOMAIN todo : Demands(todo[k])
            BY <2>1, <2>3, <3>2, TailRaisesLast DEF Undone
          <6> QED
            BY Zenon, <5>2, <6>1 DEF Demands
        <5>4. \A k \in DOMAIN todo : Removes(drv, todo[k])
          BY <3>1 DEF Shape, Fits, Permits
        <5> QED
          BY <4>3, <4>5, <5>2, <5>3, <5>4 DEF CanDrop, Clears, Removes
      <4>7. ~Refuse
        BY <3>2, <4>6 DEF Refuse
      <4>8. ~broken'
        BY <1>1, <3>6, <4>3, <4>7 DEF RunAction, StepOver, Step, TimeOut, Fault, Fail, Proceed
      <4>9. (StepOver \/ Step) /\ todo' = Tail(todo)
        BY <1>1, <3>6, <4>8, WentWell
      <4>10. Sees(Stranger) /\ Known(Stranger) \subseteq ids
        BY <3>1, <4>5, StrangerSees, StrangersKnow
      <4>11. todo[1].do = "find" => todo[1].on = "instance"
        BY <3>2 DEF Removes
      <4>12. todo[1].do = "find" /\ r = "instance" => Findable(Stranger, todo[1])
        BY <3>2, <4>5 DEF Removes, Findable, Stranger
      <4>13. CanDrop(Stranger, r, todo', found')
        BY <2>1, <3>2, <3>3, <3>4, <3>6, <4>3, <4>9, <4>10, <4>11, <4>12, StillClears
      <4> QED
        BY <4>8, <4>13
    <3>7. at' # "failed"
      BY <2>1, <2>3 DEF Undoing
    <3> QED
      BY <2>1, <3>5, <3>6, <3>7 DEF Undone
  <2> QED
    BY <2>1, <2>2, <2>3 DEF Undone
<1>2. CASE Move
  <2>1. UNCHANGED << drv, things >>
    BY <1>2 DEF Move, cloud
  <2>2. CASE ToUndo
    <3>1. /\ ~broken' /\ found' = FALSE /\ at' # "failed"
          /\ \E failed : todo' = vmdestroy(drv, failed)
      BY <2>2 DEF ToUndo, Begun, Undoing
    <3>2. drv \in DriverNames
      BY DEF Shape
    <3>3. RaisesLast(todo')
      BY <3>1, <3>2, DestroyRaisesLast
    <3>4. \A r \in Sure(drv) : CanDrop(Stranger, r, todo', found')
      BY <3>1, <3>2, UndoClears
    <3> QED
      BY <2>1, <3>1, <3>3, <3>4 DEF Undone
  <2>3. CASE ToFailed
    <3>1. /\ at' \notin Undoing /\ slipped' = slipped /\ todo = << >>
          /\ at' = "failed" => at \in Undoing
      BY <2>3 DEF ToFailed, Undoing, Over
    <3>2. \A r : ~CanDrop(Stranger, r, << >>, found)
      BY DEF CanDrop
    <3> QED
      BY <2>1, <3>1, <3>2 DEF Undone
  <2>4. CASE ~ToUndo /\ ~ToFailed
    <3>1. at' \notin Undoing \cup {"failed"}
      BY <1>2, <2>4 DEF Move, ToTest, ToTested, ToRegister, ToNew, ToCreate, ToUp, ToDestroy,
            ToAttached, ToState, ToCapture, ToGone, ToCrashed, ToClean, ToCleaned,
            Elsewhere, Undoing
    <3> QED
      BY <3>1 DEF Undone
  <2> QED
    BY <2>2, <2>3, <2>4
<1>3. CASE Vanish
  BY <1>3 DEF Vanish, Undone, program
<1>4. CASE UNCHANGED vars
  BY <1>4 DEF vars, Undone, program, cloud
<1> QED
  BY <1>1, <1>2, <1>3, <1>4, StepsAre

(* ------------------ a cleanup removes what carries the names ------------ *)

(* To wait for the end of the instance is as good as to delete it.         *)
LEMMA AwaitClears ==
  ASSUME NEW d, NEW p, NEW k \in DOMAIN p, NEW e, p[k] = Await(e)
  PROVE  /\ \A f \in BOOLEAN : CanDrop(d, "instance", p, f)
         /\ CanDrop(d, "instance", IfFound(p), TRUE)
<1>1. /\ IsInstr(p[k]) /\ p[k].do = "await" /\ p[k].on = "instance" /\ p[k].when = {}
  BY AreInstr, InstrIs DEF Await
<1>2. ASSUME NEW f \in BOOLEAN PROVE CanDrop(d, "instance", p, f)
  BY <1>1 DEF CanDrop, Clears
<1>3. k \in DOMAIN IfFound(p) /\ IfFound(p)[k] = Under("found", p[k])
  BY DEF IfFound, If
<1>4. /\ IfFound(p)[k].do = "await" /\ IfFound(p)[k].on = "instance"
      /\ IfFound(p)[k].when = {"found"}
  BY <1>1, <1>3, UnderKeeps
<1>5. CanDrop(d, "instance", IfFound(p), TRUE)
  BY <1>3, <1>4 DEF CanDrop, Clears
<1> QED
  BY <1>2, <1>5

(* What a cleanup is sure to remove.                                       *)
Swept(d) == Owned(d) \ LeftByCleanup(d)

(* LeftByCleanup, driver by driver.                                        *)
LEMMA LeftByCleanupOf ==
  /\ LeftByCleanup("osk") = {"address"} /\ LeftByCleanup("ec2") = {"instance", "volume"}
  /\ LeftByCleanup("gce") = {"instance"} /\ LeftByCleanup("as") = {"nic"}
  /\ LeftByCleanup("sim") = Capacity
  BY Zenon DEF LeftByCleanup

(* It is found by name.                                                    *)
LEMMA SweptOf ==
  /\ Swept("ec2") = {} /\ Swept("nop") = {} /\ Swept("sim") = {}
  /\ Swept("osk") \subseteq {"instance", "volume"} /\ Swept("gce") \subseteq {"volume"}
  /\ Swept("pdm") \subseteq {"instance", "volume"} /\ Swept("pcm") \subseteq {"instance", "ports"}
  /\ Swept("plm") \subseteq {"instance", "boot volume", "volume"}
  /\ Swept("slr") \subseteq {"instance"} /\ Swept("csk") \subseteq {"instance"}
  /\ Swept("ntnx") \subseteq {"instance"}
  /\ Swept("kub") \subseteq {"instance", "controller", "service"}
  /\ Swept("lc") \subseteq {"instance", "volume"} /\ Swept("as") \subseteq {"instance", "address"}
  BY LeftByCleanupOf DEF Swept, Owned


(* The cleanup of each driver deletes it.                                  *)
LEMMA CleanupClears ==
  ASSUME NEW d \in DriverNames
  PROVE  \A r \in Swept(d) : CanDrop(Stranger, r, vmccleanup(d), FALSE)
<1>1. \A r \in Swept("osk") : CanDrop(Stranger, r, osk_vmccleanup, FALSE)
  <2> DEFINE s == << osk_connect, Find("name", Stop) >>
  <2> DEFINE t == IfFound(<< Drop("address", "name", Stop) >> \o
         IfOn(<< Drop("instance", "name", Either) >>) \o << Await(Either) >>)
  <2> DEFINE u == << Drop("volume", "name", Stop) >>
  <2>1. Fits("sweep", "osk", s)
    BY CallsPermitted, OthersPermitted, List2
       DEF Kinds, osk_connect
  <2>2. Fits("sweep", "osk", t)
    BY OthersPermitted, IfFits, FitsConcat, List1
       DEF Kinds, IfFound, IfOn
  <2>3. Fits("sweep", "osk", u)
    BY OthersPermitted, List1
       DEF Kinds
  <2>4. \E m \in DOMAIN s : Finds(s[m])
    <3>1. 2 \in DOMAIN s /\ s[2] = Find("name", Stop)
      OBVIOUS
    <3> HIDE DEF s
    <3> QED
      BY <3>1, FindFinds
  <2>5. CanDrop(Stranger, "instance", t, TRUE)
    <3> DEFINE a == << Drop("address", "name", Stop) >> \o
           IfOn(<< Drop("instance", "name", Either) >>)
    <3> DEFINE b == << Await(Either) >>
    <3>1. Fits("sweep", "osk", a) /\ Fits("sweep", "osk", b)
      BY OthersPermitted, IfFits, FitsConcat, List1 DEF IfOn
    <3>2. Len(b) = 1 /\ b[1] = Await(Either)
      OBVIOUS
    <3> HIDE DEF a, b
    <3>3. Len(a) + 1 \in DOMAIN (a \o b) /\ (a \o b)[Len(a) + 1] = Await(Either)
      BY <3>1, <3>2, ConcatIs, FitsIsSeq
    <3>4. CanDrop(Stranger, "instance", IfFound(a \o b), TRUE)
      BY <3>3, AwaitClears
    <3> QED
      BY <3>4 DEF a, b
  <2>6. CanDrop(Stranger, "volume", u, FALSE)
    <3> DEFINE p == << Drop("volume", "name", Stop) >>
    <3>1. 1 \in DOMAIN p /\ p[1] = Drop("volume", "name", Stop)
      OBVIOUS
    <3> HIDE DEF p
    <3>2. CanDrop(Stranger, "volume", p, FALSE)
      BY <3>1, DropClears DEF Stranger
    <3> QED
      BY <3>2 DEF p
  <2> HIDE DEF s, t, u
  <2>7. CanDrop(Stranger, "instance", s \o t, FALSE)
    BY <2>1, <2>2, <2>3, <2>4, <2>5, ClearsAfter, FitsConcat, FitsIsSeq
  <2>8. CanDrop(Stranger, "instance", s \o t \o u, FALSE)
    BY <2>1, <2>2, <2>3, <2>7, ClearsBefore, FitsConcat, FitsIsSeq
  <2>9. CanDrop(Stranger, "volume", s \o t \o u, FALSE)
    BY <2>1, <2>2, <2>3, <2>6, ClearsAfter, FitsConcat, FitsIsSeq
  <2> QED
    BY <2>8, <2>9, SweptOf
       DEF s, t, u, osk_vmccleanup
<1>2. \A r \in Swept("gce") : CanDrop(Stranger, r, gce_vmccleanup, FALSE)
  <2> DEFINE s == << gce_connect, Find("name", Either) >>
  <2> DEFINE t == IfFound(IfOn(<< Drop("instance", "name", Either) >>))
  <2> DEFINE u == << Drop("volume", "name", Either) >>
  <2>1. Fits("sweep", "gce", s)
    BY CallsPermitted, OthersPermitted, List2
       DEF Kinds, gce_connect
  <2>2. Fits("sweep", "gce", t)
    BY OthersPermitted, IfFits, List1
       DEF Kinds, IfFound, IfOn
  <2>3. Fits("sweep", "gce", u)
    BY OthersPermitted, List1
       DEF Kinds
  <2>4. CanDrop(Stranger, "volume", u, FALSE)
    <3> DEFINE p == << Drop("volume", "name", Either) >>
    <3>1. 1 \in DOMAIN p /\ p[1] = Drop("volume", "name", Either)
      OBVIOUS
    <3> HIDE DEF p
    <3>2. CanDrop(Stranger, "volume", p, FALSE)
      BY <3>1, DropClears DEF Stranger
    <3> QED
      BY <3>2 DEF p
  <2> HIDE DEF s, t, u
  <2>5. CanDrop(Stranger, "volume", s \o t \o u, FALSE)
    BY <2>1, <2>2, <2>3, <2>4, ClearsAfter, FitsConcat, FitsIsSeq
  <2> QED
    BY <2>5, SweptOf
       DEF s, t, u, gce_vmccleanup
<1>3. \A r \in Swept("pdm") : CanDrop(Stranger, r, pdm_vmccleanup, FALSE)
  <2> DEFINE s == << Find("name", Stop) >>
  <2> DEFINE t == IfFound(<< Drop("instance", "name", Stop), Await(Either) >>)
  <2> DEFINE u == << Drop("volume", "name", Stop) >>
  <2>1. Fits("sweep", "pdm", s)
    BY OthersPermitted, List1
       DEF Kinds
  <2>2. Fits("sweep", "pdm", t)
    BY OthersPermitted, IfFits, List2
       DEF Kinds, IfFound
  <2>3. Fits("sweep", "pdm", u)
    BY OthersPermitted, List1
       DEF Kinds
  <2>4. \E m \in DOMAIN s : Finds(s[m])
    <3>1. 1 \in DOMAIN s /\ s[1] = Find("name", Stop)
      OBVIOUS
    <3> HIDE DEF s
    <3> QED
      BY <3>1, FindFinds
  <2>5. CanDrop(Stranger, "instance", t, TRUE)
    <3> DEFINE p == << Drop("instance", "name", Stop), Await(Either) >>
    <3>1. 1 \in DOMAIN p /\ p[1] = Drop("instance", "name", Stop)
      OBVIOUS
    <3> HIDE DEF p
    <3>2. CanDrop(Stranger, "instance", IfFound(p), TRUE)
      BY <3>1, DropClears DEF Stranger
    <3> QED
      BY <3>2 DEF p
  <2>6. CanDrop(Stranger, "volume", u, FALSE)
    <3> DEFINE p == << Drop("volume", "name", Stop) >>
    <3>1. 1 \in DOMAIN p /\ p[1] = Drop("volume", "name", Stop)
      OBVIOUS
    <3> HIDE DEF p
    <3>2. CanDrop(Stranger, "volume", p, FALSE)
      BY <3>1, DropClears DEF Stranger
    <3> QED
      BY <3>2 DEF p
  <2> HIDE DEF s, t, u
  <2>7. CanDrop(Stranger, "instance", s \o t, FALSE)
    BY <2>1, <2>2, <2>3, <2>4, <2>5, ClearsAfter, FitsConcat, FitsIsSeq
  <2>8. CanDrop(Stranger, "instance", s \o t \o u, FALSE)
    BY <2>1, <2>2, <2>3, <2>7, ClearsBefore, FitsConcat, FitsIsSeq
  <2>9. CanDrop(Stranger, "volume", s \o t \o u, FALSE)
    BY <2>1, <2>2, <2>3, <2>6, ClearsAfter, FitsConcat, FitsIsSeq
  <2> QED
    BY <2>8, <2>9, SweptOf
       DEF s, t, u, pdm_vmccleanup
<1>4. \A r \in Swept("pcm") : CanDrop(Stranger, r, pcm_vmccleanup, FALSE)
  <2> DEFINE s == << Drop("ports", "name", Skip), Find("name", Stop) >>
  <2> DEFINE t == IfFound(<< Drop("instance", "name", Stop), Await(Either) >>)
  <2>1. Fits("sweep", "pcm", s)
    BY OthersPermitted, List2
       DEF Kinds
  <2>2. Fits("sweep", "pcm", t)
    BY OthersPermitted, IfFits, List2
       DEF Kinds, IfFound
  <2>3. \E m \in DOMAIN s : Finds(s[m])
    <3>1. 2 \in DOMAIN s /\ s[2] = Find("name", Stop)
      OBVIOUS
    <3> HIDE DEF s
    <3> QED
      BY <3>1, FindFinds
  <2>4. CanDrop(Stranger, "instance", t, TRUE)
    <3> DEFINE p == << Drop("instance", "name", Stop), Await(Either) >>
    <3>1. 1 \in DOMAIN p /\ p[1] = Drop("instance", "name", Stop)
      OBVIOUS
    <3> HIDE DEF p
    <3>2. CanDrop(Stranger, "instance", IfFound(p), TRUE)
      BY <3>1, DropClears DEF Stranger
    <3> QED
      BY <3>2 DEF p
  <2>5. CanDrop(Stranger, "ports", s, FALSE)
    <3> DEFINE p == << Drop("ports", "name", Skip), Find("name", Stop) >>
    <3>1. 1 \in DOMAIN p /\ p[1] = Drop("ports", "name", Skip)
      OBVIOUS
    <3> HIDE DEF p
    <3>2. CanDrop(Stranger, "ports", p, FALSE)
      BY <3>1, DropClears DEF Stranger
    <3> QED
      BY <3>2 DEF p
  <2> HIDE DEF s, t
  <2>6. CanDrop(Stranger, "instance", s \o t, FALSE)
    BY <2>1, <2>2, <2>3, <2>4, ClearsAfter, FitsConcat, FitsIsSeq
  <2>7. CanDrop(Stranger, "ports", s \o t, FALSE)
    BY <2>1, <2>2, <2>5, ClearsBefore, FitsConcat, FitsIsSeq
  <2> QED
    BY <2>6, <2>7, SweptOf
       DEF s, t, pcm_vmccleanup
<1>5. \A r \in Swept("plm") : CanDrop(Stranger, r, plm_vmccleanup, FALSE)
  <2> DEFINE s == << Find("name", Stop) >>
  <2> DEFINE t == IfFound(<< Drop("instance", "name", Stop), Await(Either) >>)
  <2> DEFINE u == << Drop("boot volume", "name", Either), Drop("volume", "name",
         Either) >>
  <2>1. Fits("sweep", "plm", s)
    BY OthersPermitted, List1
       DEF Kinds
  <2>2. Fits("sweep", "plm", t)
    BY OthersPermitted, IfFits, List2
       DEF Kinds, IfFound
  <2>3. Fits("sweep", "plm", u)
    BY OthersPermitted, List2
       DEF Kinds
  <2>4. \E m \in DOMAIN s : Finds(s[m])
    <3>1. 1 \in DOMAIN s /\ s[1] = Find("name", Stop)
      OBVIOUS
    <3> HIDE DEF s
    <3> QED
      BY <3>1, FindFinds
  <2>5. CanDrop(Stranger, "instance", t, TRUE)
    <3> DEFINE p == << Drop("instance", "name", Stop), Await(Either) >>
    <3>1. 1 \in DOMAIN p /\ p[1] = Drop("instance", "name", Stop)
      OBVIOUS
    <3> HIDE DEF p
    <3>2. CanDrop(Stranger, "instance", IfFound(p), TRUE)
      BY <3>1, DropClears DEF Stranger
    <3> QED
      BY <3>2 DEF p
  <2>6. CanDrop(Stranger, "boot volume", u, FALSE)
    <3> DEFINE p == << Drop("boot volume", "name", Either), Drop("volume", "name",
           Either) >>
    <3>1. 1 \in DOMAIN p /\ p[1] = Drop("boot volume", "name", Either)
      OBVIOUS
    <3> HIDE DEF p
    <3>2. CanDrop(Stranger, "boot volume", p, FALSE)
      BY <3>1, DropClears DEF Stranger
    <3> QED
      BY <3>2 DEF p
  <2>7. CanDrop(Stranger, "volume", u, FALSE)
    <3> DEFINE p == << Drop("boot volume", "name", Either), Drop("volume", "name",
           Either) >>
    <3>1. 2 \in DOMAIN p /\ p[2] = Drop("volume", "name", Either)
      OBVIOUS
    <3> HIDE DEF p
    <3>2. CanDrop(Stranger, "volume", p, FALSE)
      BY <3>1, DropClears DEF Stranger
    <3> QED
      BY <3>2 DEF p
  <2> HIDE DEF s, t, u
  <2>8. CanDrop(Stranger, "instance", s \o t, FALSE)
    BY <2>1, <2>2, <2>3, <2>4, <2>5, ClearsAfter, FitsConcat, FitsIsSeq
  <2>9. CanDrop(Stranger, "instance", s \o t \o u, FALSE)
    BY <2>1, <2>2, <2>3, <2>8, ClearsBefore, FitsConcat, FitsIsSeq
  <2>10. CanDrop(Stranger, "boot volume", s \o t \o u, FALSE)
    BY <2>1, <2>2, <2>3, <2>6, ClearsAfter, FitsConcat, FitsIsSeq
  <2>11. CanDrop(Stranger, "volume", s \o t \o u, FALSE)
    BY <2>1, <2>2, <2>3, <2>7, ClearsAfter, FitsConcat, FitsIsSeq
  <2> QED
    BY <2>9, <2>10, <2>11, SweptOf
       DEF s, t, u, plm_vmccleanup
<1>6. \A r \in Swept("slr") : CanDrop(Stranger, r, slr_vmccleanup, FALSE)
  <2> DEFINE s == << slr_connect, Find("name", Stop) >>
  <2> DEFINE t == IfFound(<< Drop("instance", "name", Either), Await(Skip) >>)
  <2>1. Fits("sweep", "slr", s)
    BY CallsPermitted, OthersPermitted, List2
       DEF Kinds, slr_connect
  <2>2. Fits("sweep", "slr", t)
    BY OthersPermitted, IfFits, List2
       DEF Kinds, IfFound
  <2>3. \E m \in DOMAIN s : Finds(s[m])
    <3>1. 2 \in DOMAIN s /\ s[2] = Find("name", Stop)
      OBVIOUS
    <3> HIDE DEF s
    <3> QED
      BY <3>1, FindFinds
  <2>4. CanDrop(Stranger, "instance", t, TRUE)
    <3> DEFINE p == << Drop("instance", "name", Either), Await(Skip) >>
    <3>1. 1 \in DOMAIN p /\ p[1] = Drop("instance", "name", Either)
      OBVIOUS
    <3> HIDE DEF p
    <3>2. CanDrop(Stranger, "instance", IfFound(p), TRUE)
      BY <3>1, DropClears DEF Stranger
    <3> QED
      BY <3>2 DEF p
  <2> HIDE DEF s, t
  <2>5. CanDrop(Stranger, "instance", s \o t, FALSE)
    BY <2>1, <2>2, <2>3, <2>4, ClearsAfter, FitsConcat, FitsIsSeq
  <2> QED
    BY <2>5, SweptOf
       DEF s, t, slr_vmccleanup
<1>7. \A r \in Swept("csk") : CanDrop(Stranger, r, csk_vmccleanup, FALSE)
  <2> DEFINE s == << csk_connect, Find("name", Stop) >>
  <2> DEFINE t == IfFound(<< Drop("instance", "name", Either), Await(Either) >>)
  <2> DEFINE u == << csk_free_volumes >>
  <2>1. Fits("sweep", "csk", s)
    BY CallsPermitted, OthersPermitted, List2
       DEF Kinds, csk_connect
  <2>2. Fits("sweep", "csk", t)
    BY OthersPermitted, IfFits, List2
       DEF Kinds, IfFound
  <2>3. Fits("sweep", "csk", u)
    BY OthersPermitted, List1
       DEF Kinds, csk_free_volumes
  <2>4. \E m \in DOMAIN s : Finds(s[m])
    <3>1. 2 \in DOMAIN s /\ s[2] = Find("name", Stop)
      OBVIOUS
    <3> HIDE DEF s
    <3> QED
      BY <3>1, FindFinds
  <2>5. CanDrop(Stranger, "instance", t, TRUE)
    <3> DEFINE p == << Drop("instance", "name", Either), Await(Either) >>
    <3>1. 1 \in DOMAIN p /\ p[1] = Drop("instance", "name", Either)
      OBVIOUS
    <3> HIDE DEF p
    <3>2. CanDrop(Stranger, "instance", IfFound(p), TRUE)
      BY <3>1, DropClears DEF Stranger
    <3> QED
      BY <3>2 DEF p
  <2> HIDE DEF s, t, u
  <2>6. CanDrop(Stranger, "instance", s \o t, FALSE)
    BY <2>1, <2>2, <2>3, <2>4, <2>5, ClearsAfter, FitsConcat, FitsIsSeq
  <2>7. CanDrop(Stranger, "instance", s \o t \o u, FALSE)
    BY <2>1, <2>2, <2>3, <2>6, ClearsBefore, FitsConcat, FitsIsSeq
  <2> QED
    BY <2>7, SweptOf
       DEF s, t, u, csk_vmccleanup
<1>8. \A r \in Swept("ntnx") : CanDrop(Stranger, r, ntnx_vmccleanup, FALSE)
  <2> DEFINE s == << ntnx_connect, Find("name", Stop) >>
  <2> DEFINE t == IfFound(IfOn(<< Drop("instance", "name", Either) >>) \o <<
         Await(Either) >>)
  <2>1. Fits("sweep", "ntnx", s)
    BY CallsPermitted, OthersPermitted, List2
       DEF Kinds, ntnx_connect
  <2>2. Fits("sweep", "ntnx", t)
    BY OthersPermitted, IfFits, FitsConcat, List1
       DEF Kinds, IfFound, IfOn
  <2>3. \E m \in DOMAIN s : Finds(s[m])
    <3>1. 2 \in DOMAIN s /\ s[2] = Find("name", Stop)
      OBVIOUS
    <3> HIDE DEF s
    <3> QED
      BY <3>1, FindFinds
  <2>4. CanDrop(Stranger, "instance", t, TRUE)
    <3> DEFINE a == IfOn(<< Drop("instance", "name", Either) >>)
    <3> DEFINE b == << Await(Either) >>
    <3>1. Fits("sweep", "ntnx", a) /\ Fits("sweep", "ntnx", b)
      BY OthersPermitted, IfFits, List1 DEF IfOn
    <3>2. Len(b) = 1 /\ b[1] = Await(Either)
      OBVIOUS
    <3> HIDE DEF a, b
    <3>3. Len(a) + 1 \in DOMAIN (a \o b) /\ (a \o b)[Len(a) + 1] = Await(Either)
      BY <3>1, <3>2, ConcatIs, FitsIsSeq
    <3>4. CanDrop(Stranger, "instance", IfFound(a \o b), TRUE)
      BY <3>3, AwaitClears
    <3> QED
      BY <3>4 DEF a, b
  <2> HIDE DEF s, t
  <2>5. CanDrop(Stranger, "instance", s \o t, FALSE)
    BY <2>1, <2>2, <2>3, <2>4, ClearsAfter, FitsConcat, FitsIsSeq
  <2> QED
    BY <2>5, SweptOf
       DEF s, t, ntnx_vmccleanup
<1>9. \A r \in Swept("kub") : CanDrop(Stranger, r, kub_vmccleanup, FALSE)
  <2> DEFINE s == << kub_connect, Drop("service", "name", Either),
         Drop("controller", "name", Either), Drop("instance", "name", Either),
         Await(Either) >>
  <2>1. Fits("sweep", "kub", s)
    BY CallsPermitted, OthersPermitted, List5
       DEF Kinds, kub_connect
  <2>2. CanDrop(Stranger, "service", s, FALSE)
    <3> DEFINE p == << kub_connect, Drop("service", "name", Either),
           Drop("controller", "name", Either), Drop("instance", "name", Either),
           Await(Either) >>
    <3>1. 2 \in DOMAIN p /\ p[2] = Drop("service", "name", Either)
      OBVIOUS
    <3> HIDE DEF p
    <3>2. CanDrop(Stranger, "service", p, FALSE)
      BY <3>1, DropClears DEF Stranger
    <3> QED
      BY <3>2 DEF p
  <2>3. CanDrop(Stranger, "controller", s, FALSE)
    <3> DEFINE p == << kub_connect, Drop("service", "name", Either),
           Drop("controller", "name", Either), Drop("instance", "name", Either),
           Await(Either) >>
    <3>1. 3 \in DOMAIN p /\ p[3] = Drop("controller", "name", Either)
      OBVIOUS
    <3> HIDE DEF p
    <3>2. CanDrop(Stranger, "controller", p, FALSE)
      BY <3>1, DropClears DEF Stranger
    <3> QED
      BY <3>2 DEF p
  <2>4. CanDrop(Stranger, "instance", s, FALSE)
    <3> DEFINE p == << kub_connect, Drop("service", "name", Either),
           Drop("controller", "name", Either), Drop("instance", "name", Either),
           Await(Either) >>
    <3>1. 4 \in DOMAIN p /\ p[4] = Drop("instance", "name", Either)
      OBVIOUS
    <3> HIDE DEF p
    <3>2. CanDrop(Stranger, "instance", p, FALSE)
      BY <3>1, DropClears DEF Stranger
    <3> QED
      BY <3>2 DEF p
  <2> HIDE DEF s
  <2> QED
    BY <2>2, <2>3, <2>4, SweptOf
       DEF s, kub_vmccleanup
<1>10. \A r \in Swept("lc") : CanDrop(Stranger, r, lc_vmccleanup(<< >>, << >>), FALSE)
  <2> DEFINE s == << lc_connect, Find("name", Stop) >>
  <2> DEFINE t == IfFound(<< lc_power_on_node, Drop("instance", "name", {}) >> \o <<
         >> \o << Await({}) >>)
  <2> DEFINE u == << Drop("volume", "name", Stop) >>
  <2> DEFINE v == << >>
  <2>1. Fits("sweep", "lc", s)
    BY CallsPermitted, OthersPermitted, List2
       DEF Kinds, lc_connect
  <2>2. Fits("sweep", "lc", t)
    BY OthersPermitted, IfFits, FitsConcat, List0, List1, List2
       DEF Kinds, IfFound, lc_power_on_node
  <2>3. Fits("sweep", "lc", u)
    BY OthersPermitted, List1
       DEF Kinds
  <2>4. Fits("sweep", "lc", v)
    BY List0
       DEF Kinds
  <2>5. \E m \in DOMAIN s : Finds(s[m])
    <3>1. 2 \in DOMAIN s /\ s[2] = Find("name", Stop)
      OBVIOUS
    <3> HIDE DEF s
    <3> QED
      BY <3>1, FindFinds
  <2>6. CanDrop(Stranger, "instance", t, TRUE)
    <3> DEFINE p == << lc_power_on_node, Drop("instance", "name", {}) >> \o << >> \o
           << Await({}) >>
    <3>1. 2 \in DOMAIN p /\ p[2] = Drop("instance", "name", {})
      OBVIOUS
    <3> HIDE DEF p
    <3>2. CanDrop(Stranger, "instance", IfFound(p), TRUE)
      BY <3>1, DropClears DEF Stranger
    <3> QED
      BY <3>2 DEF p
  <2>7. CanDrop(Stranger, "volume", u, FALSE)
    <3> DEFINE p == << Drop("volume", "name", Stop) >>
    <3>1. 1 \in DOMAIN p /\ p[1] = Drop("volume", "name", Stop)
      OBVIOUS
    <3> HIDE DEF p
    <3>2. CanDrop(Stranger, "volume", p, FALSE)
      BY <3>1, DropClears DEF Stranger
    <3> QED
      BY <3>2 DEF p
  <2> HIDE DEF s, t, u, v
  <2>8. CanDrop(Stranger, "instance", s \o t, FALSE)
    BY <2>1, <2>2, <2>3, <2>4, <2>5, <2>6, ClearsAfter, FitsConcat, FitsIsSeq
  <2>9. CanDrop(Stranger, "instance", s \o t \o u, FALSE)
    BY <2>1, <2>2, <2>3, <2>4, <2>8, ClearsBefore, FitsConcat, FitsIsSeq
  <2>10. CanDrop(Stranger, "instance", s \o t \o u \o v, FALSE)
    BY <2>1, <2>2, <2>3, <2>4, <2>9, ClearsBefore, FitsConcat, FitsIsSeq
  <2>11. CanDrop(Stranger, "volume", s \o t \o u, FALSE)
    BY <2>1, <2>2, <2>3, <2>4, <2>7, ClearsAfter, FitsConcat, FitsIsSeq
  <2>12. CanDrop(Stranger, "volume", s \o t \o u \o v, FALSE)
    BY <2>1, <2>2, <2>3, <2>4, <2>11, ClearsBefore, FitsConcat, FitsIsSeq
  <2> QED
    BY <2>10, <2>12, SweptOf
       DEF s, t, u, v, lc_vmccleanup
<1>11. \A r \in Swept("as") : CanDrop(Stranger, r, lc_vmccleanup(as_destroy_node, as_extra_vmccleanup), FALSE)
  <2> DEFINE s == << lc_connect, Find("name", Stop) >>
  <2> DEFINE t == IfFound(<< lc_power_on_node, Drop("instance", "name", {}) >> \o
         as_destroy_node \o << Await({}) >>)
  <2> DEFINE u == << Drop("volume", "name", Stop) >>
  <2> DEFINE v == as_extra_vmccleanup
  <2>1. Fits("sweep", "as", s)
    BY CallsPermitted, OthersPermitted, List2
       DEF Kinds, lc_connect
  <2>2. Fits("sweep", "as", t)
    BY OthersPermitted, IfFits, FitsConcat, List1, List2
       DEF Kinds, IfFound, lc_power_on_node, as_destroy_node
  <2>3. Fits("sweep", "as", u)
    BY OthersPermitted, List1
       DEF Kinds
  <2>4. Fits("sweep", "as", v)
    BY OthersPermitted, List1
       DEF Kinds, as_extra_vmccleanup
  <2>5. \E m \in DOMAIN s : Finds(s[m])
    <3>1. 2 \in DOMAIN s /\ s[2] = Find("name", Stop)
      OBVIOUS
    <3> HIDE DEF s
    <3> QED
      BY <3>1, FindFinds
  <2>6. CanDrop(Stranger, "instance", t, TRUE)
    <3> DEFINE p == << lc_power_on_node, Drop("instance", "name", {}) >> \o
           as_destroy_node \o << Await({}) >>
    <3>1. 2 \in DOMAIN p /\ p[2] = Drop("instance", "name", {})
      BY DEF as_destroy_node
    <3> HIDE DEF p
    <3>2. CanDrop(Stranger, "instance", IfFound(p), TRUE)
      BY <3>1, DropClears DEF Stranger
    <3> QED
      BY <3>2 DEF p
  <2>7. CanDrop(Stranger, "address", v, FALSE)
    <3> DEFINE p == as_extra_vmccleanup
    <3>1. 1 \in DOMAIN p /\ p[1] = Drop("address", "name", Stop)
      BY DEF as_extra_vmccleanup
    <3> HIDE DEF p
    <3>2. CanDrop(Stranger, "address", p, FALSE)
      BY <3>1, DropClears DEF Stranger
    <3> QED
      BY <3>2 DEF p
  <2> HIDE DEF s, t, u, v
  <2>8. CanDrop(Stranger, "instance", s \o t, FALSE)
    BY <2>1, <2>2, <2>3, <2>4, <2>5, <2>6, ClearsAfter, FitsConcat, FitsIsSeq
  <2>9. CanDrop(Stranger, "instance", s \o t \o u, FALSE)
    BY <2>1, <2>2, <2>3, <2>4, <2>8, ClearsBefore, FitsConcat, FitsIsSeq
  <2>10. CanDrop(Stranger, "instance", s \o t \o u \o v, FALSE)
    BY <2>1, <2>2, <2>3, <2>4, <2>9, ClearsBefore, FitsConcat, FitsIsSeq
  <2>11. CanDrop(Stranger, "address", s \o t \o u \o v, FALSE)
    BY <2>1, <2>2, <2>3, <2>4, <2>7, ClearsAfter, FitsConcat, FitsIsSeq
  <2> QED
    BY <2>10, <2>11, SweptOf
       DEF s, t, u, v, lc_vmccleanup
<1> QED
  BY <1>1, <1>2, <1>3, <1>4, <1>5, <1>6, <1>7, <1>8, <1>9, <1>10, <1>11,
     SweptOf, CleanupOf DEF DriverNames

(* A registration begins with the same cleanup, once there is a connection.*)
LEMMA RegisterClears ==
  ASSUME NEW d \in DriverNames
  PROVE  \A r \in Swept(d) : CanDrop(Stranger, r, vmcregister(d, FALSE), FALSE)
<1>1. \A r \in Swept("osk") : CanDrop(Stranger, r, vmcregister("osk", FALSE), FALSE)
  <2> DEFINE c == vmccleanup("osk")
  <2> DEFINE t == << osk_connect, hostname2ip >>
  <2> DEFINE u == << >>
  <2> DEFINE v == << osk_get_network_list >>
  <2>1. /\ Fits("sweep", "osk", c)
        /\ \A r \in Swept("osk") : CanDrop(Stranger, r, c, FALSE)
    BY CleanupFits, CleanupClears DEF DriverNames
  <2>2. Fits("sweep", "osk", t)
    BY CallsPermitted, List2
       DEF Kinds, osk_connect, hostname2ip
  <2>3. Fits("sweep", "osk", u)
    BY List0
       DEF Kinds
  <2>4. Fits("sweep", "osk", v)
    BY CallsPermitted, List1
       DEF Kinds, osk_get_network_list
  <2> HIDE DEF c, t, u, v
  <2>5. /\ Fits("sweep", "osk", c \o t)
        /\ \A r \in Swept("osk") : CanDrop(Stranger, r, c \o t, FALSE)
    BY <2>1, <2>2, ClearsBefore, FitsConcat, FitsIsSeq
  <2>6. /\ Fits("sweep", "osk", c \o t \o u)
        /\ \A r \in Swept("osk") : CanDrop(Stranger, r, c \o t \o u, FALSE)
    BY <2>5, <2>3, ClearsBefore, FitsConcat, FitsIsSeq
  <2>7. /\ Fits("sweep", "osk", c \o t \o u \o v)
        /\ \A r \in Swept("osk") : CanDrop(Stranger, r, c \o t \o u \o v, FALSE)
    BY <2>6, <2>4, ClearsBefore, FitsConcat, FitsIsSeq
  <2>8. vmcregister("osk", FALSE) = c \o t \o u \o v
    BY RegisterOf, CleanupOf
       DEF c, t, u, v, osk_vmcregister
  <2> QED
    BY <2>7, <2>8
<1>2. \A r \in Swept("gce") : CanDrop(Stranger, r, vmcregister("gce", FALSE), FALSE)
  <2> DEFINE c == vmccleanup("gce")
  <2> DEFINE t == << gce_connect, hostname2ip >>
  <2> DEFINE u == << >>
  <2>1. /\ Fits("sweep", "gce", c)
        /\ \A r \in Swept("gce") : CanDrop(Stranger, r, c, FALSE)
    BY CleanupFits, CleanupClears DEF DriverNames
  <2>2. Fits("sweep", "gce", t)
    BY CallsPermitted, List2
       DEF Kinds, gce_connect, hostname2ip
  <2>3. Fits("sweep", "gce", u)
    BY List0
       DEF Kinds
  <2> HIDE DEF c, t, u
  <2>4. /\ Fits("sweep", "gce", c \o t)
        /\ \A r \in Swept("gce") : CanDrop(Stranger, r, c \o t, FALSE)
    BY <2>1, <2>2, ClearsBefore, FitsConcat, FitsIsSeq
  <2>5. /\ Fits("sweep", "gce", c \o t \o u)
        /\ \A r \in Swept("gce") : CanDrop(Stranger, r, c \o t \o u, FALSE)
    BY <2>4, <2>3, ClearsBefore, FitsConcat, FitsIsSeq
  <2>6. vmcregister("gce", FALSE) = c \o t \o u
    BY RegisterOf, CleanupOf
       DEF c, t, u, gce_vmcregister
  <2> QED
    BY <2>5, <2>6
<1>3. \A r \in Swept("pdm") : CanDrop(Stranger, r, vmcregister("pdm", FALSE), FALSE)
  <2> DEFINE c == vmccleanup("pdm")
  <2> DEFINE s == << pdm_connect >>
  <2> DEFINE t == << hostname2ip >>
  <2> DEFINE u == << >>
  <2>1. /\ Fits("sweep", "pdm", c)
        /\ \A r \in Swept("pdm") : CanDrop(Stranger, r, c, FALSE)
    BY CleanupFits, CleanupClears DEF DriverNames
  <2>2. Fits("sweep", "pdm", s)
    BY CallsPermitted, List1
       DEF Kinds, pdm_connect
  <2>3. Fits("sweep", "pdm", t)
    BY CallsPermitted, List1
       DEF Kinds, hostname2ip
  <2>4. Fits("sweep", "pdm", u)
    BY List0
       DEF Kinds
  <2> HIDE DEF c, s, t, u
  <2>5. /\ Fits("sweep", "pdm", s \o c)
        /\ \A r \in Swept("pdm") : CanDrop(Stranger, r, s \o c, FALSE)
    BY <2>1, <2>2, ClearsAfter, FitsConcat, FitsIsSeq
  <2>6. /\ Fits("sweep", "pdm", s \o c \o t)
        /\ \A r \in Swept("pdm") : CanDrop(Stranger, r, s \o c \o t, FALSE)
    BY <2>5, <2>3, ClearsBefore, FitsConcat, FitsIsSeq
  <2>7. /\ Fits("sweep", "pdm", s \o c \o t \o u)
        /\ \A r \in Swept("pdm") : CanDrop(Stranger, r, s \o c \o t \o u, FALSE)
    BY <2>6, <2>4, ClearsBefore, FitsConcat, FitsIsSeq
  <2>8. vmcregister("pdm", FALSE) = s \o c \o t \o u
    BY RegisterOf, CleanupOf
       DEF c, s, t, u, pdm_vmcregister
  <2> QED
    BY <2>7, <2>8
<1>4. \A r \in Swept("pcm") : CanDrop(Stranger, r, vmcregister("pcm", FALSE), FALSE)
  <2> DEFINE c == vmccleanup("pcm")
  <2> DEFINE s == << pcm_connect >>
  <2> DEFINE t == << hostname2ip >>
  <2> DEFINE u == << >>
  <2>1. /\ Fits("sweep", "pcm", c)
        /\ \A r \in Swept("pcm") : CanDrop(Stranger, r, c, FALSE)
    BY CleanupFits, CleanupClears DEF DriverNames
  <2>2. Fits("sweep", "pcm", s)
    BY CallsPermitted, List1
       DEF Kinds, pcm_connect
  <2>3. Fits("sweep", "pcm", t)
    BY CallsPermitted, List1
       DEF Kinds, hostname2ip
  <2>4. Fits("sweep", "pcm", u)
    BY List0
       DEF Kinds
  <2> HIDE DEF c, s, t, u
  <2>5. /\ Fits("sweep", "pcm", s \o c)
        /\ \A r \in Swept("pcm") : CanDrop(Stranger, r, s \o c, FALSE)
    BY <2>1, <2>2, ClearsAfter, FitsConcat, FitsIsSeq
  <2>6. /\ Fits("sweep", "pcm", s \o c \o t)
        /\ \A r \in Swept("pcm") : CanDrop(Stranger, r, s \o c \o t, FALSE)
    BY <2>5, <2>3, ClearsBefore, FitsConcat, FitsIsSeq
  <2>7. /\ Fits("sweep", "pcm", s \o c \o t \o u)
        /\ \A r \in Swept("pcm") : CanDrop(Stranger, r, s \o c \o t \o u, FALSE)
    BY <2>6, <2>4, ClearsBefore, FitsConcat, FitsIsSeq
  <2>8. vmcregister("pcm", FALSE) = s \o c \o t \o u
    BY RegisterOf, CleanupOf
       DEF c, s, t, u, pcm_vmcregister
  <2> QED
    BY <2>7, <2>8
<1>5. \A r \in Swept("plm") : CanDrop(Stranger, r, vmcregister("plm", FALSE), FALSE)
  <2> DEFINE c == vmccleanup("plm")
  <2> DEFINE s == << plm_connect >>
  <2> DEFINE t == << hostname2ip >>
  <2> DEFINE u == << >>
  <2>1. /\ Fits("sweep", "plm", c)
        /\ \A r \in Swept("plm") : CanDrop(Stranger, r, c, FALSE)
    BY CleanupFits, CleanupClears DEF DriverNames
  <2>2. Fits("sweep", "plm", s)
    BY CallsPermitted, List1
       DEF Kinds, plm_connect
  <2>3. Fits("sweep", "plm", t)
    BY CallsPermitted, List1
       DEF Kinds, hostname2ip
  <2>4. Fits("sweep", "plm", u)
    BY List0
       DEF Kinds
  <2> HIDE DEF c, s, t, u
  <2>5. /\ Fits("sweep", "plm", s \o c)
        /\ \A r \in Swept("plm") : CanDrop(Stranger, r, s \o c, FALSE)
    BY <2>1, <2>2, ClearsAfter, FitsConcat, FitsIsSeq
  <2>6. /\ Fits("sweep", "plm", s \o c \o t)
        /\ \A r \in Swept("plm") : CanDrop(Stranger, r, s \o c \o t, FALSE)
    BY <2>5, <2>3, ClearsBefore, FitsConcat, FitsIsSeq
  <2>7. /\ Fits("sweep", "plm", s \o c \o t \o u)
        /\ \A r \in Swept("plm") : CanDrop(Stranger, r, s \o c \o t \o u, FALSE)
    BY <2>6, <2>4, ClearsBefore, FitsConcat, FitsIsSeq
  <2>8. vmcregister("plm", FALSE) = s \o c \o t \o u
    BY RegisterOf, CleanupOf
       DEF c, s, t, u, plm_vmcregister
  <2> QED
    BY <2>7, <2>8
<1>6. \A r \in Swept("slr") : CanDrop(Stranger, r, vmcregister("slr", FALSE), FALSE)
  <2> DEFINE c == vmccleanup("slr")
  <2> DEFINE t == << slr_connect, hostname2ip >>
  <2> DEFINE u == << >>
  <2>1. /\ Fits("sweep", "slr", c)
        /\ \A r \in Swept("slr") : CanDrop(Stranger, r, c, FALSE)
    BY CleanupFits, CleanupClears DEF DriverNames
  <2>2. Fits("sweep", "slr", t)
    BY CallsPermitted, List2
       DEF Kinds, slr_connect, hostname2ip
  <2>3. Fits("sweep", "slr", u)
    BY List0
       DEF Kinds
  <2> HIDE DEF c, t, u
  <2>4. /\ Fits("sweep", "slr", c \o t)
        /\ \A r \in Swept("slr") : CanDrop(Stranger, r, c \o t, FALSE)
    BY <2>1, <2>2, ClearsBefore, FitsConcat, FitsIsSeq
  <2>5. /\ Fits("sweep", "slr", c \o t \o u)
        /\ \A r \in Swept("slr") : CanDrop(Stranger, r, c \o t \o u, FALSE)
    BY <2>4, <2>3, ClearsBefore, FitsConcat, FitsIsSeq
  <2>6. vmcregister("slr", FALSE) = c \o t \o u
    BY RegisterOf, CleanupOf
       DEF c, t, u, slr_vmcregister
  <2> QED
    BY <2>5, <2>6
<1>7. \A r \in Swept("csk") : CanDrop(Stranger, r, vmcregister("csk", FALSE), FALSE)
  <2> DEFINE c == vmccleanup("csk")
  <2> DEFINE t == << csk_connect, csk_get_zone, hostname2ip >>
  <2> DEFINE u == << >>
  <2>1. /\ Fits("sweep", "csk", c)
        /\ \A r \in Swept("csk") : CanDrop(Stranger, r, c, FALSE)
    BY CleanupFits, CleanupClears DEF DriverNames
  <2>2. Fits("sweep", "csk", t)
    BY CallsPermitted, List3
       DEF Kinds, csk_connect, csk_get_zone, hostname2ip
  <2>3. Fits("sweep", "csk", u)
    BY List0
       DEF Kinds
  <2> HIDE DEF c, t, u
  <2>4. /\ Fits("sweep", "csk", c \o t)
        /\ \A r \in Swept("csk") : CanDrop(Stranger, r, c \o t, FALSE)
    BY <2>1, <2>2, ClearsBefore, FitsConcat, FitsIsSeq
  <2>5. /\ Fits("sweep", "csk", c \o t \o u)
        /\ \A r \in Swept("csk") : CanDrop(Stranger, r, c \o t \o u, FALSE)
    BY <2>4, <2>3, ClearsBefore, FitsConcat, FitsIsSeq
  <2>6. vmcregister("csk", FALSE) = c \o t \o u
    BY RegisterOf, CleanupOf
       DEF c, t, u, csk_vmcregister
  <2> QED
    BY <2>5, <2>6
<1>8. \A r \in Swept("ntnx") : CanDrop(Stranger, r, vmcregister("ntnx", FALSE), FALSE)
  <2> DEFINE c == vmccleanup("ntnx")
  <2> DEFINE t == << ntnx_connect, hostname2ip >>
  <2> DEFINE u == << >>
  <2>1. /\ Fits("sweep", "ntnx", c)
        /\ \A r \in Swept("ntnx") : CanDrop(Stranger, r, c, FALSE)
    BY CleanupFits, CleanupClears DEF DriverNames
  <2>2. Fits("sweep", "ntnx", t)
    BY CallsPermitted, List2
       DEF Kinds, ntnx_connect, hostname2ip
  <2>3. Fits("sweep", "ntnx", u)
    BY List0
       DEF Kinds
  <2> HIDE DEF c, t, u
  <2>4. /\ Fits("sweep", "ntnx", c \o t)
        /\ \A r \in Swept("ntnx") : CanDrop(Stranger, r, c \o t, FALSE)
    BY <2>1, <2>2, ClearsBefore, FitsConcat, FitsIsSeq
  <2>5. /\ Fits("sweep", "ntnx", c \o t \o u)
        /\ \A r \in Swept("ntnx") : CanDrop(Stranger, r, c \o t \o u, FALSE)
    BY <2>4, <2>3, ClearsBefore, FitsConcat, FitsIsSeq
  <2>6. vmcregister("ntnx", FALSE) = c \o t \o u
    BY RegisterOf, CleanupOf
       DEF c, t, u, ntnx_vmcregister
  <2> QED
    BY <2>5, <2>6
<1>9. \A r \in Swept("kub") : CanDrop(Stranger, r, vmcregister("kub", FALSE), FALSE)
  <2> DEFINE c == vmccleanup("kub")
  <2> DEFINE s == << kub_connect >>
  <2> DEFINE t == << kub_try_dns >>
  <2> DEFINE u == << >>
  <2> DEFINE v == << Call("network plugin") >>
  <2>1. /\ Fits("sweep", "kub", c)
        /\ \A r \in Swept("kub") : CanDrop(Stranger, r, c, FALSE)
    BY CleanupFits, CleanupClears DEF DriverNames
  <2>2. Fits("sweep", "kub", s)
    BY CallsPermitted, List1
       DEF Kinds, kub_connect
  <2>3. Fits("sweep", "kub", t)
    BY CallsPermitted, List1
       DEF Kinds, kub_try_dns
  <2>4. Fits("sweep", "kub", u)
    BY List0
       DEF Kinds
  <2>5. Fits("sweep", "kub", v)
    BY CallsPermitted, List1
       DEF Kinds
  <2> HIDE DEF c, s, t, u, v
  <2>6. /\ Fits("sweep", "kub", s \o c)
        /\ \A r \in Swept("kub") : CanDrop(Stranger, r, s \o c, FALSE)
    BY <2>1, <2>2, ClearsAfter, FitsConcat, FitsIsSeq
  <2>7. /\ Fits("sweep", "kub", s \o c \o t)
        /\ \A r \in Swept("kub") : CanDrop(Stranger, r, s \o c \o t, FALSE)
    BY <2>6, <2>3, ClearsBefore, FitsConcat, FitsIsSeq
  <2>8. /\ Fits("sweep", "kub", s \o c \o t \o u)
        /\ \A r \in Swept("kub") : CanDrop(Stranger, r, s \o c \o t \o u, FALSE)
    BY <2>7, <2>4, ClearsBefore, FitsConcat, FitsIsSeq
  <2>9. /\ Fits("sweep", "kub", s \o c \o t \o u \o v)
        /\ \A r \in Swept("kub") : CanDrop(Stranger, r, s \o c \o t \o u \o v, FALSE)
    BY <2>8, <2>5, ClearsBefore, FitsConcat, FitsIsSeq
  <2>10. vmcregister("kub", FALSE) = s \o c \o t \o u \o v
    BY RegisterOf, CleanupOf
       DEF c, s, t, u, v, kub_vmcregister
  <2> QED
    BY <2>9, <2>10
<1>10. \A r \in Swept("lc") : CanDrop(Stranger, r, vmcregister("lc", FALSE), FALSE)
  <2> DEFINE c == vmccleanup("lc")
  <2> DEFINE t == << lc_connect, hostname2ip >>
  <2> DEFINE u == << >>
  <2>1. /\ Fits("sweep", "lc", c)
        /\ \A r \in Swept("lc") : CanDrop(Stranger, r, c, FALSE)
    BY CleanupFits, CleanupClears DEF DriverNames
  <2>2. Fits("sweep", "lc", t)
    BY CallsPermitted, List2
       DEF Kinds, lc_connect, hostname2ip
  <2>3. Fits("sweep", "lc", u)
    BY List0
       DEF Kinds
  <2> HIDE DEF c, t, u
  <2>4. /\ Fits("sweep", "lc", c \o t)
        /\ \A r \in Swept("lc") : CanDrop(Stranger, r, c \o t, FALSE)
    BY <2>1, <2>2, ClearsBefore, FitsConcat, FitsIsSeq
  <2>5. /\ Fits("sweep", "lc", c \o t \o u)
        /\ \A r \in Swept("lc") : CanDrop(Stranger, r, c \o t \o u, FALSE)
    BY <2>4, <2>3, ClearsBefore, FitsConcat, FitsIsSeq
  <2>6. vmcregister("lc", FALSE) = c \o t \o u
    BY RegisterOf, CleanupOf
       DEF c, t, u, lc_vmcregister
  <2> QED
    BY <2>5, <2>6
<1>11. \A r \in Swept("as") : CanDrop(Stranger, r, vmcregister("as", FALSE), FALSE)
  <2> DEFINE c == vmccleanup("as")
  <2> DEFINE t == << lc_connect, hostname2ip >>
  <2> DEFINE u == << >>
  <2>1. /\ Fits("sweep", "as", c)
        /\ \A r \in Swept("as") : CanDrop(Stranger, r, c, FALSE)
    BY CleanupFits, CleanupClears DEF DriverNames
  <2>2. Fits("sweep", "as", t)
    BY CallsPermitted, List2
       DEF Kinds, lc_connect, hostname2ip
  <2>3. Fits("sweep", "as", u)
    BY List0
       DEF Kinds
  <2> HIDE DEF c, t, u
  <2>4. /\ Fits("sweep", "as", c \o t)
        /\ \A r \in Swept("as") : CanDrop(Stranger, r, c \o t, FALSE)
    BY <2>1, <2>2, ClearsBefore, FitsConcat, FitsIsSeq
  <2>5. /\ Fits("sweep", "as", c \o t \o u)
        /\ \A r \in Swept("as") : CanDrop(Stranger, r, c \o t \o u, FALSE)
    BY <2>4, <2>3, ClearsBefore, FitsConcat, FitsIsSeq
  <2>6. vmcregister("as", FALSE) = c \o t \o u
    BY RegisterOf, CleanupOf
       DEF c, t, u, lc_vmcregister
  <2> QED
    BY <2>5, <2>6
<1> QED
  BY <1>1, <1>2, <1>3, <1>4, <1>5, <1>6, <1>7, <1>8, <1>9, <1>10, <1>11,
     SweptOf DEF DriverNames

(* As long as no call of it fails, a cleanup that goes on has still to     *)
(* delete whatever it is there to delete; then it is gone.                 *)
Cleaning ==
    /\ at = "cleaning" /\ ~broken /\ ~slipped =>
         \A r \in Swept(drv) : r \in things => CanDrop(Stranger, r, todo, found)
    /\ at = "cleaned" /\ ~broken /\ ~slipped => things \cap Swept(drv) = {}

(* Its deletion sees what exists, for all of it carries the VM's name.     *)
LEMMA CleaningStep ==
  ASSUME Shape, Named, found \in BOOLEAN, Cleaning, [Next]_vars PROVE Cleaning'
<1>1. CASE RunAction
  <2>1. UNCHANGED << drv, at >> /\ todo # << >>
    BY <1>1, RunIs DEF Run
  <2>2. at # "cleaned"
    BY <2>1 DEF Shape, Idle, Over
  <2>3. ASSUME at = "cleaning", ~broken', ~slipped', NEW r \in Swept(drv), r \in things'
        PROVE  CanDrop(Stranger, r, todo', found')
    <3>1. at \in VMPhases
      BY <2>3 DEF VMPhases, Ending
    <3>2. IsSeq(todo) /\ Current = {todo[1]} /\ Sweeps(drv, todo[1])
      BY <2>1, <2>3, <3>1, KindOfProgram DEF Destroying
    <3>3. RunEffects(todo[1])
      BY <1>1, <3>2, EffectsAre
    <3>4. (StepOver \/ Step) /\ ~broken /\ ~slipped /\ todo' = Tail(todo)
      BY <1>1, <2>3, WentWell
    <3>5. Sees(Stranger) /\ Known(Stranger) \subseteq ids
      BY <2>3, <3>1, SweptOf, StrangerSees, StrangersKnow
    <3>6. todo[1].do \notin Makes
      BY <3>2 DEF Sweeps, Makes, Drops
    <3>7. todo[1].do = "find" => todo[1].on = "instance" /\ Findable(Stranger, todo[1])
      BY <3>2 DEF Sweeps, Findable, Stranger
    <3>8. CanDrop(Stranger, r, todo, found)
      BY <2>3, <3>3, <3>4, <3>6 DEF Cleaning, RunEffects
    <3> QED
      BY <2>1, <2>3, <3>2, <3>3, <3>4, <3>5, <3>6, <3>7, <3>8, StillClears
  <2> QED
    BY <2>1, <2>2, <2>3 DEF Cleaning
<1>2. CASE Move
  <2>1. UNCHANGED << drv, things >>
    BY <1>2 DEF Move, cloud
  <2>2. CASE ToClean
    <3>1. /\ at' = "cleaning" /\ found' = FALSE
          /\ todo' \in {vmcunregister(drv, TRUE), vmcregister(drv, FALSE)}
      BY <2>2 DEF ToClean, Begun
    <3>2. drv \in DriverNames
      BY DEF Shape
    <3>3. \A r \in Swept(drv) : CanDrop(Stranger, r, todo', found')
      BY <3>1, <3>2, CleanupClears, RegisterClears, UnregisterIs
    <3> QED
      BY <2>1, <3>1, <3>3 DEF Cleaning
  <2>3. CASE ToCleaned
    <3>1. at' = "cleaned" /\ at = "cleaning" /\ todo = << >> /\ UNCHANGED << broken, slipped >>
      BY <2>3 DEF ToCleaned, Over
    <3>2. \A r : ~CanDrop(Stranger, r, << >>, found)
      BY DEF CanDrop
    <3> QED
      BY <2>1, <3>1, <3>2 DEF Cleaning
  <2>4. CASE ~ToClean /\ ~ToCleaned
    <3>1. at' \notin {"cleaning", "cleaned"}
      BY <1>2, <2>4 DEF Move, ToTest, ToTested, ToRegister, ToNew, ToCreate, ToUp, ToDestroy,
            ToUndo, ToAttached, ToState, ToCapture, ToGone, ToFailed, ToCrashed, Elsewhere,
            Undoing
    <3> QED
      BY <3>1 DEF Cleaning
  <2> QED
    BY <2>2, <2>3, <2>4
<1>3. CASE Vanish
  BY <1>3 DEF Vanish, Cleaning, program
<1>4. CASE UNCHANGED vars
  BY <1>4 DEF vars, Cleaning, program, cloud
<1> QED
  BY <1>1, <1>2, <1>3, <1>4, StepsAre

(* No operation deletes the volume of another experiment, except on        *)
(* CloudStack.                                                             *)
Another == "volume of another"
Spared == at \in VMPhases /\ drv # "csk" => Another \in things

(* Nothing but CloudStack's programs deletes it.                           *)
LEMMA AnothersVolume ==
  ASSUME NEW i, drv # "csk", i.do \in Drops,
         \/ Sweeps(drv, i) \/ Builds(drv, i) \/ Removes(drv, i) \/ Switches(drv, i)
         \/ Copies(drv, i)
  PROVE  i.on # Another
<1>1. CASE Sweeps(drv, i)
  BY Zenon, <1>1 DEF Sweeps, Another
<1>2. CASE Removes(drv, i)
  BY Zenon, <1>2 DEF Removes, Another
<1>3. CASE Builds(drv, i) \/ Switches(drv, i)
  BY <1>3 DEF Builds, Switches, Teaching, Makes, Drops
<1>4. CASE Copies(drv, i)
  <2>1. i.on = "instance"
    BY <1>4 DEF Copies
  <2>2. "instance" # Another
    BY Zenon DEF Another
  <2> QED
    BY <2>1, <2>2
<1> QED
  BY <1>1, <1>2, <1>3, <1>4

(* No step removes it.                                                     *)
LEMMA SparedStep == ASSUME Shape, Spared, [Next]_vars PROVE Spared'
<1>1. CASE RunAction /\ at' \in VMPhases /\ drv' # "csk"
  <2>1. UNCHANGED << drv, at >> /\ todo # << >>
    BY <1>1, RunIs DEF Run
  <2>2. RunEffects(todo[1])
    BY <1>1, <2>1, KindOfProgram, EffectsAre
  <2>3. Another \in things
    BY <1>1, <2>1 DEF Spared
  <2>4. todo[1].do \in Drops => todo[1].on # Another
    BY <1>1, <2>1, KindOfProgram, AnothersVolume
  <2> QED
    BY <2>2, <2>3, <2>4 DEF Spared, RunEffects
<1>2. CASE Move /\ at' \in VMPhases
  <2>1. UNCHANGED << drv, things >>
    BY <1>2 DEF Move, cloud
  <2> QED
    BY <1>2, <2>1, MoveFrom DEF Spared
<1>3. CASE Vanish
  BY <1>3 DEF Vanish, Spared
<1>4. CASE UNCHANGED vars
  BY <1>4 DEF vars, Spared, cloud
<1> QED
  BY <1>1, <1>2, <1>3, <1>4, StepsAre DEF Spared

(* ------------------- what a simulated VM holds of its host -------------- *)

Takes(r, i) == i.do = "take" /\ i.on = r
NoTake(r, p)  == \A k \in DOMAIN p : ~Takes(r, p[k])
OneTake(r, p) == \A j, k \in DOMAIN p : Takes(r, p[j]) /\ Takes(r, p[k]) => j = k
Returns(r, i) == i.do = "give" /\ i.on = r /\ i.when = {"known"}
Gives(r, p)   == \E k \in DOMAIN p : Returns(r, p[k])
(* What is taken is known by then, and stays known.                        *)
IsTaught(r, i)  == i.on = r /\ i.do \in Teaching
Untaught(r, p)  == \A k \in DOMAIN p : ~IsTaught(r, p[k])
TakesLate(r, p) == \A j, k \in DOMAIN p : Takes(r, p[j]) /\ IsTaught(r, p[k]) => k < j

(* Only the simulated cloud counts cores and memory: a VM takes them once, *)
(* and gives them back before its vmdestroy has ended, be it a detach or   *)
(* the undo of a vmcreate that failed.                                     *)
Holding ==
    /\ at \in VMPhases => held \in [Capacity -> Int]
    /\ at \in VMPhases /\ drv # "sim" => \A r \in Capacity : held[r] = 0
    /\ drv = "sim" => \A r \in Capacity :
        /\ at \in Before \cup {"gone", "failed"} => held[r] <= 0
        /\ at \in Settled \cup Undoing \cup {"creating"} => held[r] <= 1
        /\ at = "creating" /\ ~broken =>
             \/ held[r] <= 0 /\ OneTake(r, todo)
             \/ held[r] <= 1 /\ NoTake(r, todo)
        /\ at \in Destroying /\ ~broken => held[r] <= 0 \/ Gives(r, todo)
        /\ at \in Undoing => held[r] <= 0 \/ r \in ids

(* Half a vmcreate is enough to give back what was taken: the host is      *)
(* known by the time anything is taken of it.                              *)
Placing ==
    at = "creating" /\ drv = "sim" => \A r \in Capacity :
        /\ TakesLate(r, todo)
        /\ held[r] > 0 => r \in ids /\ Keeps(r, todo)

(* What is next takes or gives, or else what is further ahead.             *)
LEMMA TailTakes ==
  ASSUME NEW r, NEW p, IsSeq(p), p # << >>
  PROVE  /\ NoTake(r, p) => NoTake(r, Tail(p)) /\ ~Takes(r, p[1])
         /\ OneTake(r, p) => OneTake(r, Tail(p))
         /\ OneTake(r, p) /\ Takes(r, p[1]) => NoTake(r, Tail(p))
         /\ Gives(r, p) => Returns(r, p[1]) \/ Gives(r, Tail(p))
         /\ TakesLate(r, p) => TakesLate(r, Tail(p)) /\ (Takes(r, p[1]) => Untaught(r, p))
<1>1. /\ Len(p) \in Nat \ {0} /\ DOMAIN p = 1..Len(p)
      /\ DOMAIN Tail(p) = 1..Len(p) - 1
      /\ \A k \in 1..Len(p) - 1 : k + 1 \in DOMAIN p /\ k + 1 # 1 /\ Tail(p)[k] = p[k+1]
  BY TailIs
<1>2. NoTake(r, p) => NoTake(r, Tail(p)) /\ ~Takes(r, p[1])
  BY <1>1 DEF NoTake
<1>3. OneTake(r, p) => OneTake(r, Tail(p))
  <2> SUFFICES ASSUME OneTake(r, p), NEW j \in DOMAIN Tail(p), NEW k \in DOMAIN Tail(p),
                      Takes(r, Tail(p)[j]), Takes(r, Tail(p)[k])
               PROVE  j = k
    BY DEF OneTake
  <2>1. j + 1 = k + 1
    BY <1>1 DEF OneTake
  <2> QED
    BY <1>1, <2>1
<1>4. OneTake(r, p) /\ Takes(r, p[1]) => NoTake(r, Tail(p))
  BY <1>1 DEF OneTake, NoTake
<1>5. Gives(r, p) => Returns(r, p[1]) \/ Gives(r, Tail(p))
  <2> SUFFICES ASSUME NEW k \in DOMAIN p, Returns(r, p[k]), k # 1 PROVE Gives(r, Tail(p))
    BY DEF Gives
  <2>1. k - 1 \in DOMAIN Tail(p) /\ Tail(p)[k-1] = p[k]
    BY <1>1
  <2> QED
    BY <2>1 DEF Gives
<1>6. TakesLate(r, p) => TakesLate(r, Tail(p))
  <2> SUFFICES ASSUME TakesLate(r, p), NEW j \in DOMAIN Tail(p), NEW k \in DOMAIN Tail(p),
                      Takes(r, Tail(p)[j]), IsTaught(r, Tail(p)[k])
               PROVE  k < j
    BY DEF TakesLate
  <2>1. k + 1 < j + 1
    BY <1>1 DEF TakesLate
  <2> QED
    BY <1>1, <2>1
<1>7. TakesLate(r, p) /\ Takes(r, p[1]) => Untaught(r, p)
  BY <1>1 DEF TakesLate, Untaught
<1> QED
  BY <1>2, <1>3, <1>4, <1>5, <1>6, <1>7

(* Taking in one part and not in the other.                                *)
LEMMA TakesConcat ==
  ASSUME NEW r, NEW s, NEW t, IsSeq(s), IsSeq(t)
  PROVE  /\ NoTake(r, s) /\ NoTake(r, t) => NoTake(r, s \o t)
         /\ OneTake(r, s) /\ NoTake(r, t) => OneTake(r, s \o t)
         /\ NoTake(r, s) /\ OneTake(r, t) => OneTake(r, s \o t)
         /\ NoTake(r, s) /\ TakesLate(r, t) => TakesLate(r, s \o t)
         /\ TakesLate(r, s) /\ Untaught(r, t) => TakesLate(r, s \o t)
<1>1. /\ DOMAIN s = 1..Len(s) /\ DOMAIN t = 1..Len(t) /\ Len(s) \in Nat /\ Len(t) \in Nat
      /\ DOMAIN (s \o t) = 1..Len(s) + Len(t)
      /\ \A k \in 1..Len(s) : (s \o t)[k] = s[k]
      /\ \A k \in 1..Len(t) : (s \o t)[Len(s) + k] = t[k]
  BY ConcatIs
<1>2. ASSUME NEW k \in DOMAIN (s \o t)
      PROVE  \/ k \in DOMAIN s /\ (s \o t)[k] = s[k]
             \/ k - Len(s) \in DOMAIN t /\ (s \o t)[k] = t[k - Len(s)]
  <2>1. CASE k \in 1..Len(s)
    BY <1>1, <2>1
  <2>2. CASE k \notin 1..Len(s)
    <3>1. k - Len(s) \in 1..Len(t) /\ Len(s) + (k - Len(s)) = k
      BY <1>1, <2>2
    <3> QED
      BY <1>1, <3>1
  <2> QED
    BY <2>1, <2>2
<1>3. NoTake(r, s) /\ NoTake(r, t) => NoTake(r, s \o t)
  BY <1>2 DEF NoTake
<1>4. OneTake(r, s) /\ NoTake(r, t) => OneTake(r, s \o t)
  BY <1>2 DEF NoTake, OneTake
<1>5. NoTake(r, s) /\ OneTake(r, t) => OneTake(r, s \o t)
  <2> SUFFICES ASSUME NoTake(r, s), OneTake(r, t),
                      NEW j \in DOMAIN (s \o t), NEW k \in DOMAIN (s \o t),
                      Takes(r, (s \o t)[j]), Takes(r, (s \o t)[k])
               PROVE  j = k
    BY DEF OneTake
  <2>1. j - Len(s) = k - Len(s)
    BY <1>2 DEF NoTake, OneTake
  <2> QED
    BY <1>1, <2>1
<1>6. NoTake(r, s) /\ TakesLate(r, t) => TakesLate(r, s \o t)
  <2> SUFFICES ASSUME NoTake(r, s), TakesLate(r, t),
                      NEW j \in DOMAIN (s \o t), NEW k \in DOMAIN (s \o t),
                      Takes(r, (s \o t)[j]), IsTaught(r, (s \o t)[k])
               PROVE  k < j
    BY DEF TakesLate
  <2>1. j - Len(s) \in DOMAIN t /\ (s \o t)[j] = t[j - Len(s)]
    BY <1>2 DEF NoTake
  <2>2. CASE k \in DOMAIN s
    BY <1>1, <2>1, <2>2
  <2>3. CASE k - Len(s) \in DOMAIN t /\ (s \o t)[k] = t[k - Len(s)]
    <3>1. k - Len(s) < j - Len(s)
      BY <2>1, <2>3 DEF TakesLate
    <3> QED
      BY <1>1, <3>1
  <2> QED
    BY <1>2, <2>2, <2>3
<1>7. TakesLate(r, s) /\ Untaught(r, t) => TakesLate(r, s \o t)
  <2> SUFFICES ASSUME TakesLate(r, s), Untaught(r, t),
                      NEW j \in DOMAIN (s \o t), NEW k \in DOMAIN (s \o t),
                      Takes(r, (s \o t)[j]), IsTaught(r, (s \o t)[k])
               PROVE  k < j
    BY DEF TakesLate
  <2>1. k \in DOMAIN s /\ (s \o t)[k] = s[k]
    BY <1>2 DEF Untaught
  <2>2. CASE j \in DOMAIN s /\ (s \o t)[j] = s[j]
    BY <2>1, <2>2 DEF TakesLate
  <2>3. CASE j - Len(s) \in DOMAIN t
    BY <1>1, <2>1, <2>3
  <2> QED
    BY <1>2, <2>2, <2>3
<1> QED
  BY <1>3, <1>4, <1>5, <1>6, <1>7

(* A program without cores and memory.                                     *)
LEMMA NoTakeIn ==
  ASSUME NEW r, NEW p, \A k \in DOMAIN p : p[k].do # "take" PROVE NoTake(r, p)
  BY DEF NoTake, Takes

(* Neither part teaches it.                                                *)
LEMMA UntaughtConcat ==
  ASSUME NEW r, NEW s, NEW t, IsSeq(s), IsSeq(t), Untaught(r, s), Untaught(r, t)
  PROVE  Untaught(r, s \o t)
<1> SUFFICES ASSUME NEW k \in DOMAIN (s \o t) PROVE ~IsTaught(r, (s \o t)[k])
  BY DEF Untaught
<1>1. CASE k \in 1..Len(s)
  BY <1>1, ConcatIs DEF Untaught
<1>2. CASE k \notin 1..Len(s)
  <2>1. k - Len(s) \in 1..Len(t) /\ Len(s) + (k - Len(s)) = k
    BY <1>2, ConcatIs
  <2>2. (s \o t)[k] = t[k - Len(s)]
    BY <2>1, ConcatIs
  <2> QED
    BY <2>1, <2>2, ConcatIs DEF Untaught
<1> QED
  BY <1>1, <1>2

(* A program that teaches nothing.                                         *)
LEMMA UntaughtIn ==
  ASSUME NEW r, NEW p, \A k \in DOMAIN p : p[k].do \in {"take", "call"} PROVE Untaught(r, p)
  BY DEF Untaught, IsTaught, Teaching, Makes

(* The simulated vmcreate takes each once.                                 *)
LEMMA SimTakesOnce ==
  ASSUME NEW r \in Capacity PROVE OneTake(r, sim_vmcreate) /\ TakesLate(r, sim_vmcreate)
<1> DEFINE s == << Forget("cores"), Forget("memory"), sim_get_virtual_hardware_config,
                   sim_get_images >>
           c == sim_check_host_capacity
           t == sim_host_resource_update_create
           u == ReadyAndBoot(<< >>)
<1>1. Fits("build", "sim", s) /\ Fits("build", "sim", c)
  BY CallsPermitted, BuildersPermitted, List3, List4
     DEF Kinds, Capacity, sim_get_virtual_hardware_config, sim_get_images,
         sim_check_host_capacity
<1>2. Fits("build", "sim", t)
  BY BuildersPermitted, List2 DEF sim_host_resource_update_create, Capacity
<1>3. Fits("build", "sim", u)
  BY CallsPermitted, FitsConcat, List0, List1
     DEF Kinds, ReadyAndBoot, wait_for_instance_ready, wait_for_instance_boot
<1>4. IsSeq(s) /\ IsSeq(c) /\ IsSeq(t) /\ IsSeq(u)
  BY <1>1, <1>2, <1>3, FitsIsSeq
<1>5. NoTake(r, s)
  <2>1. DOMAIN s = 1..4 /\ s[1].do = "forget" /\ s[2].do = "forget" /\ s[3].do = "call"
        /\ s[4].do = "call"
    BY DEF Forget, Instr, sim_get_virtual_hardware_config, sim_get_images, Call
  <2> HIDE DEF s
  <2> QED
    BY <2>1, NoTakeIn
<1>6. NoTake(r, c)
  <2>1. DOMAIN c = 1..3 /\ c[1].do = "call" /\ c[2].do = "learn" /\ c[3].do = "learn"
    BY DEF Learn, Instr, sim_check_host_capacity, Call
  <2> HIDE DEF c
  <2> QED
    BY <2>1, NoTakeIn
<1>7. OneTake(r, t) /\ TakesLate(r, t)
  <2>1. DOMAIN t = 1..2 /\ t[1].on = "cores" /\ t[2].on = "memory"
        /\ t[1].do = "take" /\ t[2].do = "take"
    BY DEF Take, Instr, sim_host_resource_update_create
  <2> HIDE DEF t
  <2>2. Untaught(r, t)
    BY <2>1, UntaughtIn
  <2> QED
    BY <2>1, <2>2 DEF OneTake, Takes, TakesLate, Untaught
<1>8. NoTake(r, u) /\ Untaught(r, u)
  <2>1. IsSeq(<< >>) /\ IsSeq(<< Call("ready") >>) /\ IsSeq(<< Call("boot") >>)
    BY CallsPermitted, FitsIsSeq, List0, List1 DEF Kinds
  <2>2. NoTake(r, << >>) /\ NoTake(r, << Call("ready") >>) /\ NoTake(r, << Call("boot") >>)
    BY NoTakeIn DEF Call, Instr
  <2>3. IsSeq(<< >> \o << Call("ready") >>)
    BY CallsPermitted, FitsConcat, FitsIsSeq, List0, List1 DEF Kinds
  <2>4. NoTake(r, u)
    BY <2>1, <2>2, <2>3, TakesConcat
       DEF ReadyAndBoot, wait_for_instance_ready, wait_for_instance_boot
  <2>5. Untaught(r, << Call("ready") >>) /\ Untaught(r, << Call("boot") >>)
        /\ Untaught(r, << >>)
    BY UntaughtIn DEF Call, Instr
  <2>6. Untaught(r, u)
    BY <2>1, <2>3, <2>5, UntaughtConcat
       DEF ReadyAndBoot, wait_for_instance_ready, wait_for_instance_boot
  <2> QED
    BY <2>4, <2>6
<1> HIDE DEF s, c, t, u
<1>9. OneTake(r, c \o t) /\ TakesLate(r, c \o t) /\ IsSeq(c \o t)
  BY <1>1, <1>2, <1>4, <1>6, <1>7, TakesConcat, FitsConcat, FitsIsSeq
<1>10. OneTake(r, s \o (c \o t)) /\ TakesLate(r, s \o (c \o t)) /\ IsSeq(s \o (c \o t))
  BY <1>1, <1>2, <1>4, <1>5, <1>9, TakesConcat, FitsConcat, FitsIsSeq
<1>11. OneTake(r, (s \o (c \o t)) \o u) /\ TakesLate(r, (s \o (c \o t)) \o u)
  BY <1>4, <1>8, <1>10, TakesConcat
<1> QED
  BY <1>11 DEF s, c, t, u, sim_vmcreate, sim_vm_placement

(* The simulated vmdestroy gives each back.                                *)
LEMMA SimGives == ASSUME NEW r \in Capacity PROVE Gives(r, sim_vmdestroy)
<1> DEFINE p == << Give("cores"), Give("memory") >>
<1>1. /\ DOMAIN p = 1..2
      /\ \A k \in 1..2 : IsInstr(p[k]) /\ p[k].do = "give" /\ p[k].when = {}
      /\ p[1].on = "cores" /\ p[2].on = "memory"
  BY AreInstr DEF Give, Instr
<1> HIDE DEF p
<1>2. ASSUME NEW k \in 1..2
      PROVE  /\ k \in DOMAIN IfKnown(p)
             /\ IfKnown(p)[k].do = "give" /\ IfKnown(p)[k].when = {"known"}
             /\ IfKnown(p)[k].on = p[k].on
  <2>1. k \in DOMAIN IfKnown(p) /\ IfKnown(p)[k] = Under("known", p[k])
    BY <1>1 DEF IfKnown, If
  <2> QED
    BY <1>1, <2>1, UnderKeeps
<1>3. Gives(r, IfKnown(p))
  BY <1>1, <1>2 DEF Gives, Returns, Capacity
<1> QED
  BY <1>3 DEF p, sim_vmdestroy, sim_host_resource_update_destroy

(* What the step of a program does to what the VM holds.                   *)
LEMMA TakenIs ==
  ASSUME Shape, RunAction, at \in VMPhases, held \in [Capacity -> Int]
  PROVE  /\ held' \in [Capacity -> Int]
         /\ \A r \in Capacity :
              /\ \/ held'[r] <= held[r]
                 \/ at = "creating" /\ Takes(r, todo[1]) /\ held'[r] <= held[r] + 1
              /\ drv # "sim" => held'[r] = held[r]
<1>1. /\ UNCHANGED << drv, at >> /\ todo # << >>
      /\ \/ todo' = Tail(todo) /\ broken' = broken
         \/ todo' = << >> /\ broken' = TRUE
  BY RunIs DEF Run
<1>2. IsSeq(todo) /\ Current = {todo[1]} /\ RunEffects(todo[1])
  BY <1>1, KindOfProgram, EffectsAre
<1>3. /\ todo[1].do = "take" => at = "creating" /\ drv = "sim" /\ todo[1].on \in Capacity
      /\ todo[1].do = "give" => drv = "sim" /\ todo[1].on \in Capacity
  <2>1. Sweeps(drv, todo[1]) \/ Switches(drv, todo[1]) \/ Copies(drv, todo[1])
          => todo[1].do \notin {"take", "give"}
    BY DEF Sweeps, Switches, Copies, Drops
  <2>2. Builds(drv, todo[1]) => /\ todo[1].do # "give"
                                /\ todo[1].do = "take" => drv = "sim" /\ todo[1].on \in Capacity
    BY DEF Builds, Teaching, Makes
  <2>3. Removes(drv, todo[1]) =>
          /\ todo[1].do # "take"
          /\ todo[1].do = "give" => drv = "sim" /\ todo[1].on \in Capacity
    BY DEF Removes, Drops
  <2> QED
    BY <1>1, <2>1, <2>2, <2>3, KindOfProgram
<1>4. CASE held' = held
  BY <1>4
<1>5. CASE held' # held /\ todo[1].do = "take"
  <2>1. held' = [held EXCEPT ![todo[1].on] = @ + 1]
    BY <1>2, <1>5 DEF RunEffects
  <2> QED
    BY <1>3, <1>5, <2>1 DEF Takes
<1>6. CASE held' # held /\ todo[1].do = "give"
  <2>1. held' = [held EXCEPT ![todo[1].on] = @ - 1]
    BY <1>2, <1>6 DEF RunEffects
  <2> QED
    BY <1>3, <1>6, <2>1
<1> QED
  BY <1>2, <1>4, <1>5, <1>6 DEF RunEffects

(* A vmdestroy that goes on has given it back, or has still to do so.      *)
LEMMA GivenBack ==
  ASSUME Shape, RunAction, at \in VMPhases, at \in Destroying, drv = "sim",
         held \in [Capacity -> Int], ~broken', NEW r \in Capacity,
         held[r] <= 0 \/ (held[r] <= 1 /\ r \in ids /\ Gives(r, todo))
  PROVE  held'[r] <= 0 \/ Gives(r, todo')
<1>1. todo # << >> /\ todo' = Tail(todo)
  BY RunIs DEF Run
<1>2. IsSeq(todo) /\ Current = {todo[1]} /\ Removes(drv, todo[1])
  BY <1>1, KindOfProgram DEF Destroying
<1>3. held[r] \in Int /\ held'[r] \in Int /\ held'[r] <= held[r]
  BY TakenIs DEF Destroying
<1>4. CASE held[r] <= 0
  BY <1>3, <1>4
<1>5. CASE Gives(r, todo) /\ ~Returns(r, todo[1])
  BY <1>1, <1>2, <1>5, TailTakes
<1>6. CASE Returns(r, todo[1]) /\ held[r] <= 1 /\ r \in ids
  <2>1. Applies(todo[1])
    BY <1>6 DEF Applies, Returns
  <2>2. "skip" \notin todo[1].err
    BY <1>2, <1>6 DEF Removes, Returns
  <2>3. Step
    BY <1>2, <2>1, <2>2, CarriedOut
  <2>4. Effect(todo[1])
    BY <1>2, <2>3 DEF Step
  <2>5. held' = [held EXCEPT ![r] = @ - 1]
    BY <1>6, <2>4 DEF Returns, Effect, Making, Tagging, Dropping, Powering, Accounting,
                      Looking, Drops, Makes
  <2> QED
    BY <1>3, <1>6, <2>5
<1> QED
  BY <1>4, <1>5, <1>6

(* The vmdestroy of a simulated VM is repeated until it succeeds.          *)
LEMMA SimRepeats == ASSUME Shape, drv = "sim", at \in Destroying PROVE tries # 1
<1>1. tries = -1
  BY DEF Shape
<1> QED
  BY <1>1

(* Taken at most once by a vmcreate, and given back by the vmdestroy that  *)
(* follows.                                                                *)
LEMMA HoldingStep ==
  ASSUME Shape, Stopped, KnowsIds, Placing, Holding, [Next]_vars PROVE Holding'
<1>1. CASE RunAction /\ at' \in VMPhases
  <2>1. /\ UNCHANGED << drv, at >> /\ todo # << >>
        /\ \/ todo' = Tail(todo) /\ broken' = broken
           \/ todo' = << >> /\ broken' = TRUE
    BY <1>1, RunIs DEF Run
  <2>2. IsSeq(todo) /\ RunEffects(todo[1]) /\ ~broken
    BY <1>1, <2>1, KindOfProgram, EffectsAre DEF Stopped, Over
  <2>3. held \in [Capacity -> Int]
    BY <1>1, <2>1 DEF Holding
  <2>4. /\ held' \in [Capacity -> Int]
        /\ \A r \in Capacity :
             /\ \/ held'[r] <= held[r]
                \/ at = "creating" /\ Takes(r, todo[1]) /\ held'[r] <= held[r] + 1
             /\ drv # "sim" => held'[r] = held[r]
    BY <1>1, <2>1, <2>3, TakenIs
  <2>5. drv # "sim" => \A r \in Capacity : held'[r] = 0
    BY <1>1, <2>1, <2>4 DEF Holding
  <2>6. ASSUME drv = "sim", NEW r \in Capacity
        PROVE  /\ at \in Before \cup {"gone", "failed"} => held'[r] <= 0
               /\ at \in Settled \cup Undoing \cup {"creating"} => held'[r] <= 1
               /\ at = "creating" /\ ~broken' =>
                    \/ held'[r] <= 0 /\ OneTake(r, todo')
                    \/ held'[r] <= 1 /\ NoTake(r, todo')
               /\ at \in Destroying /\ ~broken' => held'[r] <= 0 \/ Gives(r, todo')
               /\ at \in Undoing => held'[r] <= 0 \/ r \in ids'
    <3>1. held[r] \in Int /\ held'[r] \in Int
      BY <2>3, <2>4
    <3>2. at # "creating" => held'[r] <= held[r]
      BY <2>4
    <3>3. at \in Before \cup {"gone", "failed"} => held'[r] <= 0
      BY <2>6, <3>1, <3>2 DEF Holding, Before
    <3>4. at # "creating" /\ at \in Settled \cup Undoing \cup {"creating"} => held'[r] <= 1
      BY <2>6, <3>1, <3>2 DEF Holding
    <3>5. CASE at = "creating"
      <4>1. \/ held[r] <= 0 /\ OneTake(r, todo)
            \/ held[r] <= 1 /\ NoTake(r, todo)
        BY <2>2, <2>6, <3>5 DEF Holding
      <4>2. /\ held'[r] <= 1
            /\ ~broken' => \/ held'[r] <= 0 /\ OneTake(r, todo')
                           \/ held'[r] <= 1 /\ NoTake(r, todo')
        <5>1. ~broken' => todo' = Tail(todo)
          BY <2>1
        <5>2. CASE held'[r] <= held[r]
          <6>1. OneTake(r, todo) => OneTake(r, Tail(todo))
            BY <2>1, <2>2, TailTakes
          <6>2. NoTake(r, todo) => NoTake(r, Tail(todo))
            BY <2>1, <2>2, TailTakes
          <6>3. held[r] <= 0 => held'[r] <= 0
            BY <3>1, <5>2
          <6>4. held[r] <= 1 => held'[r] <= 1
            BY <3>1, <5>2
          <6>5. held[r] <= 0 => held[r] <= 1
            BY <3>1
          <6> QED
            BY Zenon, <4>1, <5>1, <6>1, <6>2, <6>3, <6>4, <6>5
        <5>3. CASE Takes(r, todo[1]) /\ held'[r] <= held[r] + 1
          <6>1. ~NoTake(r, todo) /\ (OneTake(r, todo) => NoTake(r, Tail(todo)))
            BY <2>1, <2>2, <5>3, TailTakes
          <6>2. held[r] <= 0 /\ NoTake(r, Tail(todo))
            BY <4>1, <6>1
          <6>3. held'[r] <= 1
            BY <3>1, <5>3, <6>2
          <6> QED
            BY Zenon, <5>1, <6>2, <6>3
        <5> QED
          BY <2>4, <5>2, <5>3
      <4> QED
        BY <3>3, <3>5, <4>2 DEF Destroying, Undoing
    <3>6. CASE at \in Destroying
      <4>1. held[r] <= 0 \/ (held[r] <= 1 /\ r \in ids /\ Gives(r, todo))
        <5>1. held[r] <= 0 \/ Gives(r, todo)
          BY <2>2, <2>6, <3>6 DEF Holding
        <5>2. held[r] <= 1
          BY <2>6, <3>6 DEF Holding, Destroying, Settled, Undoing
        <5>3. held[r] <= 0 \/ r \in ids
          <6>1. CASE at \in Undoing
            BY <2>6, <6>1 DEF Holding
          <6>2. CASE at \in Settled
            <7>1. Known(drv) \subseteq ids /\ r \in Known(drv)
              BY <2>6, <6>2 DEF KnowsIds, Known
            <7> QED
              BY <7>1
          <6> QED
            BY <3>6, <6>1, <6>2 DEF Destroying, Settled, Undoing
        <5> QED
          BY <5>1, <5>2, <5>3
      <4>2. ~broken' => held'[r] <= 0 \/ Gives(r, todo')
        BY <1>1, <2>1, <2>3, <2>6, <3>6, <4>1, GivenBack
      <4>3. ids \subseteq ids'
        <5>1. Removes(drv, todo[1])
          BY <1>1, <2>1, <3>6, KindOfProgram DEF Destroying
        <5> QED
          BY <2>2, <5>1 DEF RunEffects, Removes, Makes, Drops
      <4>4. held'[r] <= 0 \/ r \in ids'
        <5>1. held'[r] <= held[r]
          BY <3>2, <3>6 DEF Destroying
        <5>2. held[r] <= 0 \/ r \in ids'
          BY <4>1, <4>3
        <5> QED
          BY <3>1, <5>1, <5>2
      <4> QED
        BY <3>3, <3>4, <3>6, <4>2, <4>4 DEF Destroying
    <3> QED
      BY <3>3, <3>4, <3>5, <3>6 DEF Destroying, Undoing
  <2> QED
    BY <2>1, <2>4, <2>5, <2>6 DEF Holding
<1>2. CASE Move /\ at' \in VMPhases
  <2>1. UNCHANGED << drv, held >>
    BY <1>2 DEF Move, cloud
  <2>2. at \in VMPhases
    BY <1>2, MoveFrom
  <2>3. held' \in [Capacity -> Int] /\ (drv # "sim" => \A r \in Capacity : held'[r] = 0)
    BY <2>1, <2>2 DEF Holding
  <2>4. ASSUME drv = "sim", NEW r \in Capacity
        PROVE  /\ at' \in Before \cup {"gone", "failed"} => held'[r] <= 0
               /\ at' \in Settled \cup Undoing \cup {"creating"} => held'[r] <= 1
               /\ at' = "creating" =>
                    \/ held'[r] <= 0 /\ OneTake(r, todo')
                    \/ held'[r] <= 1 /\ NoTake(r, todo')
               /\ at' \in Destroying => held'[r] <= 0 \/ Gives(r, todo')
               /\ at' \in Undoing => held'[r] <= 0 \/ r \in ids'
    <3> USE DEF Before, Settled, Destroying, Undoing
    <3>1. held[r] \in Int /\ held'[r] = held[r] /\ ~Gives(r, << >>)
      <4>1. held[r] \in Int /\ held'[r] = held[r]
        BY <2>1, <2>2 DEF Holding
      <4>2. ~Gives(r, << >>)
        BY DEF Gives
      <4> QED
        BY <4>1, <4>2
    <3>2. CASE ToCreate
      <4>1. held[r] <= 0
        <5>1. at = "destroying" => Over /\ ~broken
          BY <2>4, <3>2, SimRepeats DEF ToCreate
        <5> QED
          BY <2>4, <3>1, <3>2, <5>1 DEF ToCreate, Holding, Over
      <4>2. todo' = sim_vmcreate /\ at' = "creating"
        BY <2>4, <3>2, CreateOf DEF ToCreate
      <4> QED
        BY <3>1, <4>1, <4>2, SimTakesOnce
    <3>3. CASE ToUp
      BY <2>4, <3>1, <3>3 DEF ToUp, Holding, Over
    <3>4. CASE ToDestroy
      <4>1. at \in Settled /\ at' \in {"destroying", "detaching"}
        BY <3>4 DEF ToDestroy
      <4>2. todo' = sim_vmdestroy
        BY <2>4, <3>4, DestroyOf DEF ToDestroy
      <4>3. held[r] <= 1
        BY <2>4, <4>1 DEF Holding
      <4> QED
        BY <3>1, <4>1, <4>2, <4>3, SimGives
    <3>5. CASE ToAttached \/ ToState \/ ToCapture
      BY <2>4, <3>1, <3>5 DEF ToAttached, ToState, ToCapture, Holding
    <3>6. CASE ToRegister \/ ToNew
      BY <2>4, <3>1, <3>6 DEF ToRegister, ToNew, Holding
    <3>7. CASE ToGone
      BY <2>4, <3>1, <3>7 DEF ToGone, Holding, Over
    <3>8. CASE ToUndo
      <4>1. at \in Undoing \cup {"creating", "up"} /\ at' \in Undoing /\ ids' = ids
        BY <3>8 DEF ToUndo
      <4>2. todo' = sim_vmdestroy
        BY <2>4, <3>8, DestroyOf DEF ToUndo
      <4>3. held[r] <= 1
        BY <2>4, <4>1 DEF Holding
      <4>4. held[r] <= 0 \/ r \in ids
        <5>1. CASE at = "creating"
          BY <2>4, <3>1, <5>1 DEF Placing
        <5>2. CASE at = "up"
          <6>1. Known(drv) \subseteq ids /\ r \in Known(drv)
            BY <2>4, <5>2 DEF KnowsIds, Known
          <6> QED
            BY <6>1
        <5>3. CASE at \in Undoing
          BY <2>4, <5>3 DEF Holding
        <5> QED
          BY <4>1, <5>1, <5>2, <5>3
      <4> QED
        BY <3>1, <4>1, <4>2, <4>3, <4>4, SimGives
    <3>9. CASE ToFailed
      <4>1. /\ Over /\ at' \in {"failed", "left"}
            /\ at' = "failed" => at \in Undoing /\ (~broken \/ tries = 1)
        BY <3>9 DEF ToFailed
      <4>2. at' = "failed" => ~broken
        BY <2>4, <4>1, SimRepeats
      <4> QED
        BY <2>4, <3>1, <4>1, <4>2 DEF Holding, Over
    <3>10. CASE ToTest \/ ToTested \/ ToCrashed
      BY <3>10 DEF ToTest, ToTested, ToCrashed
    <3>11. CASE ToClean \/ ToCleaned \/ Elsewhere
      BY <3>11 DEF ToClean, ToCleaned, Elsewhere
    <3> QED
      BY <1>2, <3>2, <3>3, <3>4, <3>5, <3>6, <3>7, <3>8, <3>9, <3>10, <3>11 DEF Move
  <2> QED
    BY <2>1, <2>3, <2>4 DEF Holding
<1>3. CASE Vanish
  BY <1>3 DEF Vanish, Holding, program, vm
<1>4. CASE UNCHANGED vars
  BY <1>4 DEF vars, Holding, program, cloud, vm
<1>5. CASE at' \notin VMPhases
  <2>1. at' \notin Before \cup {"gone", "failed", "creating"} \cup Destroying
                   \cup Settled \cup Undoing
    BY <1>5 DEF VMPhases, Settled, After, Destroying, Undoing
  <2> QED
    BY <1>5, <2>1 DEF Holding
<1> QED
  BY <1>1, <1>2, <1>3, <1>4, <1>5, StepsAre

(* What is taken is known by then, and is not forgotten.                   *)
LEMMA PlacingStep ==
  ASSUME Shape, Stopped, KnowsIds, Holding, Placing, [Next]_vars PROVE Placing'
<1>1. CASE RunAction
  <2>1. /\ UNCHANGED << drv, at >> /\ todo # << >>
        /\ todo' = Tail(todo) \/ todo' = << >>
    BY <1>1, RunIs DEF Run
  <2>2. ASSUME at = "creating", drv = "sim", NEW r \in Capacity
        PROVE  TakesLate(r, todo') /\ (held'[r] > 0 => r \in ids' /\ Keeps(r, todo'))
    <3>1. at \in VMPhases
      BY <2>2 DEF VMPhases
    <3>2. IsSeq(todo) /\ RunEffects(todo[1]) /\ ~broken
      BY <1>1, <2>1, <3>1, KindOfProgram, EffectsAre DEF Stopped, Over
    <3>3. todo[1].do \notin Makes
      <4>1. Builds(drv, todo[1])
        BY <2>1, <2>2, <3>1, KindOfProgram DEF Destroying
      <4> QED
        BY <2>2, <4>1 DEF Builds, Owned
    <3>4. /\ held[r] \in Int /\ held'[r] \in Int
          /\ held'[r] <= held[r] \/ Takes(r, todo[1])
      BY <1>1, <3>1, TakenIs DEF Holding
    <3>5. TakesLate(r, todo)
      BY <2>2 DEF Placing
    <3>6. TakesLate(r, << >>) /\ Keeps(r, << >>)
      BY DEF TakesLate, Keeps
    <3>7. TakesLate(r, todo')
      BY <2>1, <3>2, <3>5, <3>6, TailTakes
    <3>8. held'[r] > 0 => r \in ids /\ Keeps(r, todo)
      <4>1. CASE Takes(r, todo[1])
        <5>1. Untaught(r, todo)
          BY <2>1, <3>2, <3>5, <4>1, TailTakes
        <5>2. ~Teaches(r, todo)
          BY <5>1 DEF Untaught, IsTaught, Teaches, Teaching, Makes
        <5>3. r \in Known(drv)
          BY <2>2 DEF Known
        <5> QED
          BY <2>2, <3>2, <5>2, <5>3 DEF KnowsIds
      <4>2. CASE held'[r] <= held[r]
        BY <2>2, <3>4, <4>2 DEF Placing
      <4> QED
        BY <3>4, <4>1, <4>2
    <3>9. Keeps(r, todo) => Keeps(r, todo') /\ ~Unlearns(r, todo[1])
      BY <2>1, <3>2, <3>6, TailTeaches
    <3>10. r \in ids /\ ~Unlearns(r, todo[1]) => r \in ids'
      BY <3>2, <3>3 DEF RunEffects, Unlearns
    <3> QED
      BY <3>7, <3>8, <3>9, <3>10
  <2> QED
    BY <2>1, <2>2 DEF Placing
<1>2. CASE Move
  <2>1. UNCHANGED << drv, held >>
    BY <1>2 DEF Move, cloud
  <2>2. CASE ToCreate /\ drv = "sim"
    <3>1. todo' = sim_vmcreate
      BY <2>2, CreateOf DEF ToCreate
    <3>2. ASSUME NEW r \in Capacity PROVE held[r] \in Int /\ held[r] <= 0
      <4>1. at = "new" \/ (at = "destroying" /\ Over /\ ~broken)
        BY <2>2, SimRepeats DEF ToCreate, Destroying
      <4>2. ~Gives(r, << >>)
        BY DEF Gives
      <4>3. held[r] <= 0
        BY <2>2, <4>1, <4>2 DEF Holding, Before, Destroying, Over
      <4>4. held \in [Capacity -> Int]
        BY <4>1 DEF Holding, VMPhases, Before, Settled
      <4> QED
        BY <4>3, <4>4
    <3> QED
      BY <2>1, <3>1, <3>2, SimTakesOnce DEF Placing
  <2>3. CASE ~ToCreate
    <3>1. at' # "creating"
      BY <1>2, <2>3 DEF Move, ToTest, ToTested, ToRegister, ToNew, ToUp, ToDestroy,
            ToUndo, ToAttached, ToState, ToCapture, ToGone, ToFailed, ToCrashed, ToClean,
            ToCleaned, Elsewhere, Undoing
    <3> QED
      BY <3>1 DEF Placing
  <2> QED
    BY <2>1, <2>2, <2>3 DEF Placing
<1>3. CASE Vanish
  BY <1>3 DEF Vanish, Placing, program, vm
<1>4. CASE UNCHANGED vars
  BY <1>4 DEF vars, Placing, program, cloud, vm
<1> QED
  BY <1>1, <1>2, <1>3, <1>4, StepsAre

(* ----------------------- what a run state tells ------------------------- *)

(* The drivers whose vmrunstate tells the cloud nothing.                   *)
Silent == {"kub", "ntnx", "nop", "sim"}

(* The power that a change of state from c to t asks for.                  *)
Wants(t, c) ==
    IF t \in {"fail", "save"} THEN "off"
    ELSE IF t = "attached" /\ c \in {"fail", "save"} THEN "on" ELSE "any"

(* The program has still to turn the instance to w, or to fail: now, or    *)
(* once it has looked.                                                     *)
Commands(w, i) ==
    /\ i.when \subseteq {"found"}
    /\ i.do = "impossible" \/ (i.do = "turn" /\ i.on = w)
Obeys(w, i, f) == Commands(w, i) /\ ("found" \in i.when => f)
WillTurn(w, p, f) ==
    \E k \in DOMAIN p : Obeys(w, p[k], f \/ \E j \in 1..k-1 : Finds(p[j]))

(* What is next turns it, or looks and what follows turns it, or what      *)
(* follows turns it anyway.                                                *)
LEMMA TailTurns ==
  ASSUME NEW w, NEW p, NEW f \in BOOLEAN, IsSeq(p), p # << >>, WillTurn(w, p, f)
  PROVE  \/ Obeys(w, p[1], f)
         \/ WillTurn(w, Tail(p), f)
         \/ Finds(p[1]) /\ WillTurn(w, Tail(p), TRUE)
<1>1. /\ Len(p) \in Nat \ {0} /\ DOMAIN p = 1..Len(p)
      /\ DOMAIN Tail(p) = 1..Len(p) - 1
      /\ \A k \in 1..Len(p) - 1 : Tail(p)[k] = p[k+1]
  BY TailIs
<1>2. PICK k \in DOMAIN p : Obeys(w, p[k], f \/ \E j \in 1..k-1 : Finds(p[j]))
  BY DEF WillTurn
<1>3. CASE k = 1
  <2>1. ~ \E j \in 1..k-1 : Finds(p[j])
    BY <1>3
  <2> QED
    BY <1>2, <1>3, <2>1 DEF Obeys
<1>4. CASE k # 1
  <2>1. k - 1 \in DOMAIN Tail(p) /\ Tail(p)[k-1] = p[k]
    BY <1>1, <1>4
  <2>2. CASE Obeys(w, p[k], f)
    <3>1. Obeys(w, p[k], f \/ \E j \in 1..(k-1)-1 : Finds(Tail(p)[j]))
      BY <2>2 DEF Obeys
    <3> QED
      BY <2>1, <3>1 DEF WillTurn
  <2>3. CASE ~Obeys(w, p[k], f)
    <3>1. (\E j \in 1..k-1 : Finds(p[j])) /\ Obeys(w, p[k], TRUE)
      BY <1>2, <2>3 DEF Obeys
    <3>2. PICK j \in 1..k-1 : Finds(p[j])
      BY <3>1
    <3>3. CASE j = 1
      <4>1. Obeys(w, p[k], TRUE \/ \E m \in 1..(k-1)-1 : Finds(Tail(p)[m]))
        BY <3>1 DEF Obeys
      <4> QED
        BY <2>1, <3>2, <3>3, <4>1 DEF WillTurn
    <3>4. CASE j # 1
      <4>1. j - 1 \in 1..(k-1)-1 /\ Tail(p)[j-1] = p[j]
        BY <1>1, <3>2, <3>4
      <4>2. Obeys(w, p[k], f \/ \E m \in 1..(k-1)-1 : Finds(Tail(p)[m]))
        BY <3>1, <3>2, <4>1 DEF Obeys
      <4> QED
        BY <2>1, <4>2 DEF WillTurn
    <3> QED
      BY <3>3, <3>4
  <2> QED
    BY <2>2, <2>3
<1> QED
  BY <1>3, <1>4

(* Having found the instance spoils nothing.                               *)
LEMMA SeenTurns ==
  ASSUME NEW w, NEW p, NEW f \in BOOLEAN, WillTurn(w, p, f) PROVE WillTurn(w, p, TRUE)
  BY DEF WillTurn, Obeys

(* A turning in the second part may rest on a lookup in the first.         *)
LEMMA TurnsAfter ==
  ASSUME NEW w, NEW s, NEW t, IsSeq(s), IsSeq(t),
         NEW m \in DOMAIN s, Finds(s[m]), NEW k \in DOMAIN t, Commands(w, t[k])
  PROVE  WillTurn(w, s \o t, FALSE)
<1>1. /\ DOMAIN s = 1..Len(s) /\ DOMAIN t = 1..Len(t) /\ Len(s) \in Nat /\ Len(t) \in Nat
      /\ DOMAIN (s \o t) = 1..Len(s) + Len(t)
      /\ \A j \in 1..Len(s) : (s \o t)[j] = s[j]
      /\ \A j \in 1..Len(t) : (s \o t)[Len(s) + j] = t[j]
  BY ConcatIs
<1> DEFINE n == Len(s) + k
<1>2. n \in DOMAIN (s \o t) /\ (s \o t)[n] = t[k]
  BY <1>1
<1>3. m \in 1..n-1 /\ (s \o t)[m] = s[m]
  BY <1>1
<1>4. Obeys(w, (s \o t)[n], FALSE \/ \E j \in 1..n-1 : Finds((s \o t)[j]))
  BY <1>2, <1>3 DEF Obeys
<1> QED
  BY <1>2, <1>4 DEF WillTurn

(* The instructions of a vmrunstate that tells w.                          *)
LEMMA TurnersPermitted ==
  ASSUME NEW w
  PROVE  /\ \A by, e : Permits("power", w, Find(by, e)) /\ Permits("power", w, Turn(w, e))
         /\ Permits("power", w, NeedFound) /\ Permits("power", w, Impossible)
         /\ \A x : Permits("power", w, Insist(x))
<1>1. \A by, e : /\ IsInstr(Find(by, e)) /\ IsInstr(Turn(w, e)) /\ IsInstr(NeedFound)
                 /\ IsInstr(Impossible)
  BY AreInstr DEF Find, Turn, NeedFound, Impossible
<1>2. \A x : IsInstr(Insist(x))
  BY AreInstr DEF Insist
<1> QED
  BY <1>1, <1>2 DEF Permits, Turns, Find, Turn, NeedFound, Impossible, Insist, Instr

(* What is wanted is what Turning turns to.                                *)
LEMMA WantsTurning ==
  ASSUME NEW t, NEW c, NEW e, Wants(t, c) # "any"
  PROVE  Turning(t, c, e) = << Turn(Wants(t, c), e) >> /\ Turning(t, c, e) # << >>
<1>1. Turning(t, c, e) = << Turn(Wants(t, c), e) >>
  BY DEF Wants, Turning
<1>2. << Turn(Wants(t, c), e) >> # << >>
  OBVIOUS
<1> QED
  BY <1>1, <1>2

(* A lookup, and then the telling, under the condition that it found       *)
(* something or not.                                                       *)
LEMMA TellsWhenFound ==
  ASSUME NEW w, NEW s, NEW t, Fits("power", w, s), Fits("power", w, t),
         NEW m \in DOMAIN s, Finds(s[m]), 1 \in DOMAIN t, Commands(w, t[1])
  PROVE  /\ Fits("power", w, s \o IfFound(t)) /\ WillTurn(w, s \o IfFound(t), FALSE)
         /\ Fits("power", w, s \o t) /\ WillTurn(w, s \o t, FALSE)
<1>1. Fits("power", w, IfFound(t))
  BY IfFits DEF IfFound
<1>2. IsInstr(t[1])
  BY DEF Fits, Permits
<1>3. 1 \in DOMAIN IfFound(t) /\ IfFound(t)[1] = Under("found", t[1])
  BY DEF IfFound, If
<1>4. Commands(w, IfFound(t)[1])
  BY <1>2, <1>3, UnderKeeps DEF Commands
<1> QED
  BY <1>1, <1>3, <1>4, FitsConcat, FitsIsSeq, TurnsAfter

(* Every vmrunstate that has something to tell looks for the instance and   *)
(* tells it.                                                               *)
LEMMA RunStateTells ==
  ASSUME NEW d \in DriverNames \ Silent, NEW t, NEW c, Wants(t, c) # "any"
  PROVE  /\ Fits("power", Wants(t, c), vmrunstate(d, t, c))
         /\ WillTurn(Wants(t, c), vmrunstate(d, t, c), FALSE)
<1> DEFINE w == Wants(t, c)
<1>1. /\ Turning(t, c, Stop) = << Turn(w, Stop) >> /\ Turning(t, c, Stop) # << >>
      /\ Turning(t, c, {}) = << Turn(w, {}) >>
      /\ t # "suspend"
  BY WantsTurning DEF Wants
<1>2. \A e : Commands(w, Turn(w, e)) /\ Commands(w, Impossible)
  BY DEF Commands, Turn, Impossible, Instr
<1>3. \A e : Fits("power", w, << Turn(w, e) >>)
  BY TurnersPermitted, List1
<1>4. Fits("power", w, << Impossible >>)
  BY TurnersPermitted, List1
<1>5. ASSUME NEW a, a = Call("connect"), NEW by, NEW e
      PROVE  LET s == << a, Find(by, e) >>
             IN  Fits("power", w, s) /\ 2 \in DOMAIN s /\ Finds(s[2])
  BY <1>5, CallsPermitted, TurnersPermitted, List2 DEF Kinds, Finds, Find, Instr
<1> HIDE DEF w

<1>6. Fits("power", w, osk_vmrunstate(t, c)) /\ WillTurn(w, osk_vmrunstate(t, c), FALSE)
  <2> DEFINE s == << osk_connect, osk_get_instances >>
         q == << Turn(w, Stop) >>
  <2>1. osk_vmrunstate(t, c) = s \o IfFound(q)
    BY <1>1 DEF osk_vmrunstate
  <2>2. Fits("power", w, s) /\ 2 \in DOMAIN s /\ Finds(s[2])
    BY <1>5 DEF osk_connect, osk_get_instances
  <2>3. Fits("power", w, q) /\ 1 \in DOMAIN q /\ Commands(w, q[1])
    BY <1>2, <1>3, <1>4
  <2> HIDE DEF s, q
  <2> QED
    BY <2>1, <2>2, <2>3, TellsWhenFound
<1>7. Fits("power", w, ec2_vmrunstate(t, c)) /\ WillTurn(w, ec2_vmrunstate(t, c), FALSE)
  <2> DEFINE s == << ec2_connect, ec2_get_instances >>
         q == << Turn(w, Stop) >>
  <2>1. ec2_vmrunstate(t, c) = s \o IfFound(q)
    BY <1>1 DEF ec2_vmrunstate
  <2>2. Fits("power", w, s) /\ 2 \in DOMAIN s /\ Finds(s[2])
    BY <1>5 DEF ec2_connect, ec2_get_instances
  <2>3. Fits("power", w, q) /\ 1 \in DOMAIN q /\ Commands(w, q[1])
    BY <1>2, <1>3, <1>4
  <2> HIDE DEF s, q
  <2> QED
    BY <2>1, <2>2, <2>3, TellsWhenFound
<1>8. Fits("power", w, pdm_vmrunstate(t, c)) /\ WillTurn(w, pdm_vmrunstate(t, c), FALSE)
  <2> DEFINE s == << pdm_connect, pdm_get_instances >>
         q == << Turn(w, Stop) >>
  <2>1. pdm_vmrunstate(t, c) = s \o IfFound(q)
    BY <1>1 DEF pdm_vmrunstate
  <2>2. Fits("power", w, s) /\ 2 \in DOMAIN s /\ Finds(s[2])
    BY <1>5 DEF pdm_connect, pdm_get_instances
  <2>3. Fits("power", w, q) /\ 1 \in DOMAIN q /\ Commands(w, q[1])
    BY <1>2, <1>3, <1>4
  <2> HIDE DEF s, q
  <2> QED
    BY <2>1, <2>2, <2>3, TellsWhenFound
<1>9. Fits("power", w, pcm_vmrunstate(t, c)) /\ WillTurn(w, pcm_vmrunstate(t, c), FALSE)
  <2> DEFINE s == << pcm_connect, pcm_get_instances >>
         q == << Turn(w, Stop) >>
  <2>1. pcm_vmrunstate(t, c) = s \o IfFound(q)
    BY <1>1 DEF pcm_vmrunstate
  <2>2. Fits("power", w, s) /\ 2 \in DOMAIN s /\ Finds(s[2])
    BY <1>5 DEF pcm_connect, pcm_get_instances
  <2>3. Fits("power", w, q) /\ 1 \in DOMAIN q /\ Commands(w, q[1])
    BY <1>2, <1>3, <1>4
  <2> HIDE DEF s, q
  <2> QED
    BY <2>1, <2>2, <2>3, TellsWhenFound
<1>10. Fits("power", w, csk_vmrunstate(t, c)) /\ WillTurn(w, csk_vmrunstate(t, c), FALSE)
  <2> DEFINE s == << csk_connect, csk_get_vm_instance >>
         q == << Turn(w, Stop) >>
  <2>1. csk_vmrunstate(t, c) = s \o IfFound(q)
    BY <1>1 DEF csk_vmrunstate
  <2>2. Fits("power", w, s) /\ 2 \in DOMAIN s /\ Finds(s[2])
    BY <1>5 DEF csk_connect, csk_get_vm_instance
  <2>3. Fits("power", w, q) /\ 1 \in DOMAIN q /\ Commands(w, q[1])
    BY <1>2, <1>3, <1>4
  <2> HIDE DEF s, q
  <2> QED
    BY <2>1, <2>2, <2>3, TellsWhenFound
<1>11. Fits("power", w, gce_vmrunstate(t, c)) /\ WillTurn(w, gce_vmrunstate(t, c), FALSE)
  <2> DEFINE s == << gce_connect, gce_get_instances >>
         q == << Turn(w, Stop) >> \o << gce_wait_until_operation("operation") >>
  <2>1. gce_vmrunstate(t, c) = s \o IfFound(q)
    BY <1>1 DEF gce_vmrunstate
  <2>2. Fits("power", w, s) /\ 2 \in DOMAIN s /\ Finds(s[2])
    BY <1>5 DEF gce_connect, gce_get_instances
  <2>3. Fits("power", w, << gce_wait_until_operation("operation") >>)
    BY CallsPermitted, TurnersPermitted, List1 DEF Kinds, gce_wait_until_operation
  <2>4. Fits("power", w, q)
    BY <1>3, <2>3, FitsConcat
  <2>5. 1 \in DOMAIN q /\ Commands(w, q[1])
    <3>1. 1 \in DOMAIN q /\ q[1] = Turn(w, Stop)
      OBVIOUS
    <3> HIDE DEF q
    <3> QED
      BY <1>2, <3>1
  <2> HIDE DEF s, q
  <2> QED
    BY <2>1, <2>2, <2>4, <2>5, TellsWhenFound
<1>12. Fits("power", w, plm_vmrunstate(t, c)) /\ WillTurn(w, plm_vmrunstate(t, c), FALSE)
  <2> DEFINE s == << plm_connect, plm_get_instances >>
         q == << Impossible >>
  <2>1. plm_vmrunstate(t, c) = s \o IfFound(q)
    BY <1>1 DEF plm_vmrunstate
  <2>2. Fits("power", w, s) /\ 2 \in DOMAIN s /\ Finds(s[2])
    BY <1>5 DEF plm_connect, plm_get_instances
  <2>3. Fits("power", w, q) /\ 1 \in DOMAIN q /\ Commands(w, q[1])
    BY <1>2, <1>3, <1>4
  <2> HIDE DEF s, q
  <2> QED
    BY <2>1, <2>2, <2>3, TellsWhenFound
<1>13. Fits("power", w, slr_vmrunstate(t, c)) /\ WillTurn(w, slr_vmrunstate(t, c), FALSE)
  <2> DEFINE s == << slr_connect, slr_get_instances >>
         q == << Impossible >>
  <2>1. slr_vmrunstate(t, c) = s \o IfFound(q)
    BY <1>1 DEF slr_vmrunstate
  <2>2. Fits("power", w, s) /\ 2 \in DOMAIN s /\ Finds(s[2])
    BY <1>5 DEF slr_connect, slr_get_instances
  <2>3. Fits("power", w, q) /\ 1 \in DOMAIN q /\ Commands(w, q[1])
    BY <1>2, <1>3, <1>4
  <2> HIDE DEF s, q
  <2> QED
    BY <2>1, <2>2, <2>3, TellsWhenFound
<1>14. Fits("power", w, lc_vmrunstate(t, c)) /\ WillTurn(w, lc_vmrunstate(t, c), FALSE)
  <2> DEFINE s == << lc_credentials, lc_connect, lc_get_instances >>
         q == << NeedFound >> \o << Turn(w, {}) >>
  <2>1. lc_vmrunstate(t, c) = s \o q
    BY <1>1 DEF lc_vmrunstate, lc_vmrunstate_do
  <2>2. Fits("power", w, s) /\ 3 \in DOMAIN s /\ Finds(s[3])
    BY CallsPermitted, TurnersPermitted, List3
       DEF Kinds, Finds, Find, Instr, lc_credentials, lc_connect, lc_get_instances
  <2>3. Fits("power", w, << NeedFound >>)
    BY TurnersPermitted, List1
  <2>4. Fits("power", w, q)
    BY <1>3, <2>3, FitsConcat
  <2>5. 2 \in DOMAIN q /\ Commands(w, q[2])
    <3>1. 2 \in DOMAIN q /\ q[2] = Turn(w, {})
      OBVIOUS
    <3> HIDE DEF q
    <3> QED
      BY <1>2, <3>1
  <2> HIDE DEF s, q
  <2> QED
    BY <2>1, <2>2, <2>4, <2>5, TurnsAfter, FitsConcat, FitsIsSeq
<1>15. d \in {"osk", "ec2", "gce", "pdm", "pcm", "plm", "slr", "csk", "lc", "as"}
  BY DEF DriverNames, Silent
<1>16. Fits("power", w, vmrunstate(d, t, c)) /\ WillTurn(w, vmrunstate(d, t, c), FALSE)
  <2>1. CASE d = "osk"
    <3>1. vmrunstate(d, t, c) = osk_vmrunstate(t, c)
      BY Zenon, <2>1, RunStateOf
    <3> QED
      BY <3>1, <1>6
  <2>2. CASE d = "ec2"
    <3>1. vmrunstate(d, t, c) = ec2_vmrunstate(t, c)
      BY Zenon, <2>2, RunStateOf
    <3> QED
      BY <3>1, <1>7
  <2>3. CASE d = "pdm"
    <3>1. vmrunstate(d, t, c) = pdm_vmrunstate(t, c)
      BY Zenon, <2>3, RunStateOf
    <3> QED
      BY <3>1, <1>8
  <2>4. CASE d = "pcm"
    <3>1. vmrunstate(d, t, c) = pcm_vmrunstate(t, c)
      BY Zenon, <2>4, RunStateOf
    <3> QED
      BY <3>1, <1>9
  <2>5. CASE d = "csk"
    <3>1. vmrunstate(d, t, c) = csk_vmrunstate(t, c)
      BY Zenon, <2>5, RunStateOf
    <3> QED
      BY <3>1, <1>10
  <2>6. CASE d = "gce"
    <3>1. vmrunstate(d, t, c) = gce_vmrunstate(t, c)
      BY Zenon, <2>6, RunStateOf
    <3> QED
      BY <3>1, <1>11
  <2>7. CASE d = "plm"
    <3>1. vmrunstate(d, t, c) = plm_vmrunstate(t, c)
      BY Zenon, <2>7, RunStateOf
    <3> QED
      BY <3>1, <1>12
  <2>8. CASE d = "slr"
    <3>1. vmrunstate(d, t, c) = slr_vmrunstate(t, c)
      BY Zenon, <2>8, RunStateOf
    <3> QED
      BY <3>1, <1>13
  <2>9. CASE d = "lc"
    <3>1. vmrunstate(d, t, c) = lc_vmrunstate(t, c)
      BY Zenon, <2>9, RunStateOf
    <3> QED
      BY <3>1, <1>14
  <2>10. CASE d = "as"
    <3>1. vmrunstate(d, t, c) = lc_vmrunstate(t, c)
      BY Zenon, <2>10, RunStateOf
    <3> QED
      BY <3>1, <1>14
  <2> QED
    BY <2>1, <2>2, <2>3, <2>4, <2>5, <2>6, <2>7, <2>8, <2>9, <2>10, <1>15
<1> QED
  BY <1>16 DEF w

(* On EC2 a tag gives the instance its name: the program has still to do    *)
(* that, or it is done.                                                    *)
Tags(p) ==
    \E k \in DOMAIN p :
        /\ p[k].on = "instance" /\ p[k].do = "tag"
        /\ \A j \in DOMAIN p : j > k => ~Unlearns("instance", p[j])
Tagged ==
    drv = "ec2" =>
        /\ at \in Settled => "instance" \in named
        /\ at = "creating" /\ ~broken =>
             Tags(todo) \/ ("instance" \in named /\ Keeps("instance", todo))

(* The tag is next, or still ahead.                                        *)
LEMMA TailTags ==
  ASSUME NEW p, IsSeq(p), p # << >>, Tags(p)
  PROVE  \/ Tags(Tail(p))
         \/ p[1].on = "instance" /\ p[1].do = "tag" /\ Keeps("instance", Tail(p))
<1>1. /\ Len(p) \in Nat \ {0} /\ DOMAIN p = 1..Len(p)
      /\ DOMAIN Tail(p) = 1..Len(p) - 1
      /\ \A k \in 1..Len(p) - 1 : Tail(p)[k] = p[k+1]
  BY TailIs
<1>2. PICK k \in DOMAIN p : /\ p[k].on = "instance" /\ p[k].do = "tag"
                            /\ \A j \in DOMAIN p : j > k => ~Unlearns("instance", p[j])
  BY DEF Tags
<1>3. ASSUME NEW j \in 1..Len(p) - 1, j + 1 > k PROVE ~Unlearns("instance", Tail(p)[j])
  BY <1>1, <1>2, <1>3
<1>4. CASE k = 1
  BY <1>1, <1>2, <1>3, <1>4 DEF Keeps
<1>5. CASE k # 1
  <2>1. k - 1 \in DOMAIN Tail(p) /\ Tail(p)[k-1] = p[k]
    BY <1>1, <1>5
  <2>2. \A j \in DOMAIN Tail(p) : j > k - 1 => ~Unlearns("instance", Tail(p)[j])
    BY <1>1, <1>3
  <2> QED
    BY <1>2, <2>1, <2>2 DEF Tags
<1> QED
  BY <1>4, <1>5

(* What follows does not take the name away.                               *)
LEMMA TagsBefore ==
  ASSUME NEW s, NEW t, IsSeq(s), Tags(s), Fits("keep", "instance", t)
  PROVE  Tags(s \o t)
<1>1. PICK k \in DOMAIN s : /\ s[k].on = "instance" /\ s[k].do = "tag"
                            /\ \A j \in DOMAIN s : j > k => ~Unlearns("instance", s[j])
  BY DEF Tags
<1>2. IsSeq(t) /\ \A j \in DOMAIN t : ~Unlearns("instance", t[j])
  BY DEF Fits, Permits
<1>3. ASSUME NEW j \in DOMAIN (s \o t), j > k PROVE ~Unlearns("instance", (s \o t)[j])
  <2>1. CASE j \in 1..Len(s)
    BY <1>1, <1>2, <1>3, <2>1, ConcatIs
  <2>2. CASE j \notin 1..Len(s)
    <3>1. j - Len(s) \in 1..Len(t) /\ j = Len(s) + (j - Len(s))
      BY <1>2, <2>2, ConcatIs
    <3>2. (s \o t)[j] = t[j - Len(s)]
      BY <1>2, <3>1, ConcatIs
    <3> QED
      BY <1>2, <3>1, <3>2, ConcatIs
  <2> QED
    BY <2>1, <2>2
<1>4. k \in DOMAIN (s \o t) /\ (s \o t)[k] = s[k]
  BY <1>1, <1>2, ConcatIs
<1> QED
  BY <1>1, <1>3, <1>4 DEF Tags

(* EC2's vmcreate tags the instance it makes.                              *)
LEMMA CreateTags == Tags(ec2_vmcreate)
<1> DEFINE s == << ec2_connect, ec2_is_vm_running, ec2_get_images,
                   MakeBare("instance"), Tag("instance"), Learn("instance") >>
           r == wait_for_instance_ready(ec2_is_vm_ready)
           u == << Call("attach volume"), wait_for_instance_boot >>
<1>1. Fits("build", "ec2", s)
  BY CallsPermitted, BuildersPermitted, List6
     DEF Kinds, Owned, ec2_connect, ec2_is_vm_running, ec2_get_images
<1>2. Tags(s)
  <2>1. DOMAIN s = 1..6 /\ s[5] = Tag("instance") /\ s[6] = Learn("instance")
    OBVIOUS
  <2> HIDE DEF s
  <2>2. s[5].on = "instance" /\ s[5].do = "tag" /\ ~Unlearns("instance", s[6])
    BY <2>1 DEF Tag, Learn, Instr, Unlearns
  <2> QED
    BY <2>1, <2>2 DEF Tags
<1>3. Fits("keep", "instance", ec2_vvcreate) /\ Fits("build", "ec2", ec2_vvcreate)
  BY BuildersPermitted, KeepersPermitted, List3 DEF ec2_vvcreate, Owned
<1>4. Fits("keep", "instance", r) /\ Fits("build", "ec2", r)
  BY CallsPermitted, FitsConcat, List1, List2
     DEF Kinds, wait_for_instance_ready, ec2_is_vm_ready, ec2_get_ip_address
<1>5. Fits("keep", "instance", u) /\ Fits("build", "ec2", u)
  BY CallsPermitted, List2 DEF Kinds, wait_for_instance_boot
<1> HIDE DEF s, r, u
<1>6. Tags(s \o ec2_vvcreate) /\ IsSeq(s \o ec2_vvcreate)
      /\ Fits("build", "ec2", s \o ec2_vvcreate)
  BY <1>1, <1>2, <1>3, TagsBefore, FitsConcat, FitsIsSeq
<1>7. Tags((s \o ec2_vvcreate) \o r) /\ IsSeq((s \o ec2_vvcreate) \o r)
  BY <1>4, <1>6, TagsBefore, FitsConcat, FitsIsSeq
<1>8. Tags(((s \o ec2_vvcreate) \o r) \o u)
  BY <1>5, <1>7, TagsBefore
<1> QED
  BY <1>8 DEF s, r, u, ec2_vmcreate

(* Nothing but another make takes the name away.                           *)
LEMMA TaggedStep == ASSUME Shape, Tagged, [Next]_vars PROVE Tagged'
<1>1. CASE RunAction
  <2>1. Run
    BY <1>1, RunIs
  <2>2. UNCHANGED << drv, at >> /\ todo # << >>
    BY <2>1 DEF Run
  <2>3. CASE drv = "ec2" /\ at \in Settled
    <3>1. IsSeq(todo) /\ RunEffects(todo[1])
      BY <1>1, <2>2, <2>3, KindOfProgram, EffectsAre DEF VMPhases
    <3>2. todo[1].do # "make bare"
      BY <2>2, <2>3, KindOfProgram
         DEF VMPhases, Settled, Removes, Switches, Copies, Drops, Destroying
    <3>3. "instance" \in named'
      BY <2>3, <3>1, <3>2 DEF RunEffects, Tagged
    <3> QED
      BY <2>2, <2>3, <3>3 DEF Tagged, Settled
  <2>4. CASE drv = "ec2" /\ at = "creating" /\ ~broken'
    <3>1. ~broken /\ todo' = Tail(todo)
      BY <2>1, <2>4 DEF Run
    <3>2. IsSeq(todo) /\ Permits("build", drv, todo[1]) /\ Current = {todo[1]}
      BY <2>2, <2>4, FitsTail, TailIs DEF Shape, Fits, Current
    <3>3. RunEffects(todo[1])
      BY <1>1, <3>2, EffectsAre
    <3>4. ASSUME todo[1].on = "instance", todo[1].do = "tag", Keeps("instance", todo')
          PROVE  "instance" \in named'
      <4>1. "skip" \notin todo[1].err /\ Applies(todo[1])
        BY <2>4, <3>2, <3>4, Unconditional DEF Permits, Builds, Teaching, Known
      <4>2. Step
        BY <1>1, <2>4, <3>2, <4>1, CarriedOut
      <4>3. Effect(todo[1])
        BY <3>2, <4>2 DEF Step
      <4>4. "instance" \in named'
        BY <3>4, <4>3 DEF Effect, Making, Tagging, Dropping, Powering, Accounting, Looking,
                          Drops, Makes
      <4> QED
        BY <4>4
    <3>5. ASSUME "instance" \in named, Keeps("instance", todo)
          PROVE  "instance" \in named' /\ Keeps("instance", todo')
      <4>1. Keeps("instance", todo') /\ ~Unlearns("instance", todo[1])
        BY <2>2, <3>1, <3>2, <3>5, TailTeaches
      <4>2. "instance" \in named'
        BY <3>3, <3>5, <4>1 DEF RunEffects, Unlearns
      <4> QED
        BY <4>1, <4>2
    <3>6. Tags(todo') \/ ("instance" \in named' /\ Keeps("instance", todo'))
      BY <2>2, <2>4, <3>1, <3>2, <3>4, <3>5, TailTags DEF Tagged
    <3> QED
      BY <2>2, <2>4, <3>6 DEF Tagged, Settled
  <2> QED
    BY <2>2, <2>3, <2>4 DEF Tagged
<1>2. CASE Move
  <2>1. UNCHANGED << drv, named >>
    BY <1>2 DEF Move, cloud
  <2>2. CASE ToCreate /\ drv = "ec2"
    <3>1. at' = "creating" /\ todo' = ec2_vmcreate
      BY <2>2, CreateOf DEF ToCreate
    <3> QED
      BY <2>1, <3>1, CreateTags DEF Tagged, Settled
  <2>3. CASE ToUp
    <3>1. at' = "up" /\ at = "creating" /\ ~broken /\ todo = << >>
      BY <2>3 DEF ToUp, Over
    <3>2. ~Tags(<< >>)
      BY DEF Tags
    <3> QED
      BY <2>1, <3>1, <3>2 DEF Tagged
  <2>4. CASE ToDestroy \/ ToAttached \/ ToState \/ ToCapture
    <3>1. at \in Settled /\ at' # "creating"
      BY <2>4 DEF ToDestroy, ToAttached, ToState, ToCapture, Settled
    <3> QED
      BY <2>1, <3>1 DEF Tagged
  <2>5. CASE ~ToCreate /\ ~ToUp /\ ~ToDestroy /\ ~ToAttached /\ ~ToState /\ ~ToCapture
    <3>1. at' \notin Settled \cup {"creating"}
      BY <1>2, <2>5 DEF Move, ToTest, ToTested, ToRegister, ToNew, ToGone, ToUndo, ToFailed,
            ToCrashed, ToClean, ToCleaned, Elsewhere, Undoing, Settled
    <3> QED
      BY <3>1 DEF Tagged
  <2>6. CASE drv # "ec2"
    BY <2>1, <2>6 DEF Tagged
  <2> QED
    BY <2>2, <2>3, <2>4, <2>5, <2>6
<1>3. CASE Vanish
  BY <1>3 DEF Vanish, Tagged, program
<1>4. CASE UNCHANGED vars
  BY <1>4 DEF vars, Tagged, cloud, program
<1> QED
  BY <1>1, <1>2, <1>3, <1>4, StepsAre

(* As long as no call of it fails, a vmrunstate that goes on has still to  *)
(* tell an instance that exists, or has told it.                           *)
Telling ==
    at = "changing state" /\ drv \notin Silent /\ Wants(target, state) # "any" =>
        /\ Fits("power", Wants(target, state), todo)
        /\ ~broken /\ ~slipped /\ "instance" \in things =>
             \/ power = Wants(target, state)
             \/ WillTurn(Wants(target, state), todo, found)

(* The step of a vmrunstate without an error.                              *)
LEMMA StillTells ==
  ASSUME NEW w, found \in BOOLEAN, IsSeq(todo), todo # << >>, Current = {todo[1]},
         RunEffects(todo[1]), StepOver \/ Step, todo' = Tail(todo),
         Switches(drv, todo[1]), Turns(w, todo[1]), Sees(drv),
         "instance" \in things, "instance" \in named,
         power = w \/ WillTurn(w, todo, found)
  PROVE  power' = w \/ WillTurn(w, todo', found')
<1> DEFINE i == todo[1]
<1>1. /\ i.do \notin Makes \cup Drops \cup {"tag", "take", "give"}
      /\ i.do = "find" => Seen(i.on, i.by)
      /\ i.do = "turn" => i.on = w /\ i.by = "name"
  BY DEF Switches, Turns, Sees, Makes, Drops
<1>2. StepOver => power' = power /\ found' = found
  BY DEF StepOver, cloud
<1>3. Step => Effect(i) /\ ~Refused(i) /\ found' = IF i.do = "find" THEN TRUE ELSE found
  <2>1. Step => /\ Effect(i) /\ ~Refused(i)
                /\ found' = IF i.do = "find" THEN Seen(i.on, i.by) ELSE found
    BY DEF Step
  <2> QED
    BY <1>1, <2>1
<1>4. RunEffects(i)
  OBVIOUS
<1>5. WillTurn(w, todo, found) => \/ Obeys(w, i, found)
                                  \/ WillTurn(w, Tail(todo), found)
                                  \/ Finds(i) /\ WillTurn(w, Tail(todo), TRUE)
  BY TailTurns
<1>6. Applies(i) => ~StepOver
  BY DEF StepOver
<1> HIDE DEF i
<1>7. CASE power = w
  <2>1. i.do # "turn" => power' = power
    BY <1>1, <1>4 DEF RunEffects
  <2>2. Effect(i) /\ i.do = "turn" => power' = w \/ power' = power
    BY <1>1 DEF Effect, Making, Tagging, Dropping, Powering, Accounting, Looking, cloud
  <2> QED
    BY <1>2, <1>3, <1>7, <2>1, <2>2
<1>8. CASE Obeys(w, i, found)
  <2>1. Applies(i)
    BY <1>8 DEF Obeys, Commands, Applies
  <2>2. Effect(i) /\ ~Refused(i)
    BY <1>3, <1>6, <2>1
  <2>3. i.do = "turn" /\ i.on = w
    BY <1>8, <2>2 DEF Obeys, Commands, Refused
  <2>4. Seen("instance", i.by)
    BY <1>1, <2>3 DEF Seen, Present
  <2> QED
    BY <2>2, <2>3, <2>4 DEF Effect, Making, Tagging, Dropping, Powering, Accounting, Looking,
                            Makes, Drops
<1>9. CASE WillTurn(w, Tail(todo), found)
  BY <1>2, <1>3, <1>9, SeenTurns
<1>10. CASE Finds(i) /\ WillTurn(w, Tail(todo), TRUE)
  <2>1. Applies(i) /\ i.do = "find"
    BY <1>10 DEF Finds, Applies
  <2> QED
    BY <1>3, <1>6, <1>10, <2>1
<1> QED
  BY <1>5, <1>7, <1>8, <1>9, <1>10

(* The lookup sees an instance that exists, by its name or by an id that is*)
(* known.                                                                  *)
LEMMA TellingStep ==
  ASSUME Shape, KnowsIds, Named, Tagged, found \in BOOLEAN, Telling, [Next]_vars
  PROVE  Telling'
<1>1. CASE RunAction
  <2>1. /\ UNCHANGED << drv, at, target, state >> /\ todo # << >>
        /\ todo' = Tail(todo) \/ todo' = << >>
    BY <1>1, RunIs DEF Run, store
  <2>2. ASSUME at = "changing state", drv \notin Silent, Wants(target, state) # "any"
        PROVE  Telling'
    <3> DEFINE w == Wants(target, state)
    <3>1. Wants(target, state)' = w
      BY <2>1
    <3>2. at \in VMPhases /\ at \in Settled
      BY <2>2 DEF VMPhases, Settled
    <3>3. IsSeq(todo) /\ Current = {todo[1]} /\ Switches(drv, todo[1])
      BY <2>1, <2>2, <3>2, KindOfProgram DEF Destroying
    <3>4. RunEffects(todo[1])
      BY <1>1, <3>3, EffectsAre
    <3>5. Fits("power", w, todo)
      BY <2>2 DEF Telling
    <3> HIDE DEF w
    <3>6. Turns(w, todo[1]) /\ Fits("power", w, todo')
      BY <2>1, <3>5, FitsTail, List0 DEF Permits
    <3>7. ASSUME ~broken', ~slipped', "instance" \in things'
          PROVE  power' = w \/ WillTurn(w, todo', found')
      <4>1. (StepOver \/ Step) /\ ~broken /\ ~slipped /\ todo' = Tail(todo)
        BY <1>1, <3>7, WentWell
      <4>2. "instance" \in things
        BY <3>3, <3>4, <3>7 DEF Switches, RunEffects, Makes
      <4>3. "instance" \in named
        BY <3>2, <4>2 DEF Named, Tagged
      <4>4. Sees(drv)
        BY <3>2, FindableIsSeen DEF Sees, KnowsIds
      <4>5. power = w \/ WillTurn(w, todo, found)
        BY <2>2, <4>1, <4>2 DEF Telling, w
      <4> QED
        BY <2>1, <3>3, <3>4, <3>6, <4>1, <4>2, <4>3, <4>4, <4>5, StillTells
    <3> QED
      BY <2>1, <3>1, <3>6, <3>7 DEF Telling
  <2>3. CASE at # "changing state" \/ drv \in Silent \/ Wants(target, state) = "any"
    BY <2>1, <2>3 DEF Telling
  <2> QED
    BY <2>2, <2>3
<1>2. CASE Move
  <2>1. drv' = drv
    BY <1>2 DEF Move
  <2>2. CASE ToState
    <3>1. todo' = vmrunstate(drv, target', state) /\ state' = state /\ found' = FALSE
      BY <2>2 DEF ToState, Begun
    <3>2. drv \in DriverNames
      BY DEF Shape
    <3>3. drv \notin Silent /\ Wants(target', state) # "any" =>
            /\ Fits("power", Wants(target', state), todo')
            /\ WillTurn(Wants(target', state), todo', FALSE)
      BY <3>1, <3>2, RunStateTells
    <3> QED
      BY <2>1, <3>1, <3>3 DEF Telling
  <2>3. CASE ~ToState
    <3>1. at' # "changing state"
      BY <1>2, <2>3 DEF Move, ToTest, ToTested, ToRegister, ToNew, ToCreate, ToUp, ToDestroy,
            ToUndo, ToAttached, ToCapture, ToGone, ToFailed, ToCrashed, ToClean, ToCleaned,
            Elsewhere, Undoing
    <3> QED
      BY <3>1 DEF Telling
  <2> QED
    BY <2>2, <2>3
<1>3. CASE Vanish
  BY <1>3 DEF Vanish, Telling, program, vm, store
<1>4. CASE UNCHANGED vars
  BY <1>4 DEF vars, Telling, program, cloud, vm, store
<1> QED
  BY <1>1, <1>2, <1>3, <1>4, StepsAre

(* ------------------------ what a test makes sure of ---------------------- *)

SecurityGroup == "security group"
Needs(d) == {"network", "key", SecurityGroup} \ NotTested(d)

(* It is none of the others.                                               *)
LEMMA SecurityGroupIs ==
  SecurityGroup # "key" /\ SecurityGroup # "network" /\ SecurityGroup # "jumphost"
  BY Zenon DEF SecurityGroup

(* What each driver's test must see to: nothing for those that test        *)
(* nothing.                                                                *)
LEMMA NeedsAre ==
  ASSUME NEW d \in DriverNames, NEW r \in Needs(d)
  PROVE  \/ d = "osk" /\ (r = "network" \/ r = "key" \/ r = SecurityGroup)
         \/ d = "ec2" /\ (r = "key" \/ r = SecurityGroup)
         \/ d \in {"pdm", "pcm", "plm"} /\ r = "network"
         \/ d \in {"gce", "slr", "lc", "as"} /\ r = "key"
<1>1. /\ NotTested("ec2") = {"network"}
      /\ NotTested("pdm") = {"key", SecurityGroup} /\ NotTested("pcm") = {"key", SecurityGroup}
      /\ NotTested("plm") = {"key", SecurityGroup}
      /\ NotTested("gce") = {"network", SecurityGroup} /\ NotTested("slr") = {"network", SecurityGroup}
      /\ NotTested("lc") = {"network", SecurityGroup} /\ NotTested("as") = {"network", SecurityGroup}
  BY Zenon DEF NotTested, SecurityGroup
<1>2. /\ NotTested("csk") = {"network", "key", SecurityGroup}
      /\ NotTested("ntnx") = {"network", "key", SecurityGroup}
      /\ NotTested("kub") = {"network", "key", SecurityGroup}
      /\ NotTested("nop") = {"network", "key", SecurityGroup}
      /\ NotTested("sim") = {"network", "key", SecurityGroup}
  BY Zenon DEF NotTested, SecurityGroup
<1>3. r \in {"network", "key", SecurityGroup} /\ r \notin NotTested(d)
  BY DEF Needs
<1> QED
  BY <1>1, <1>2, <1>3 DEF DriverNames

(* The program sees to r: it refuses the VMC without it, or supplies it    *)
(* when it was missed, before it takes it for granted.                     *)
Acts(r, i) ==
    /\ i.on = r
    /\ \/ i.do = "need id" /\ i.when = {}
       \/ i.do = "make" /\ i.when \subseteq {"missed"}
Secures(r, p) ==
    \E k \in DOMAIN p : Acts(r, p[k]) /\ \A j \in 1..k-1 : ~Grants(r, p[j])
SeesTo(r, p) == Fits("test", r, p) /\ Secures(r, p)

(* The instructions of a test.                                             *)
LEMMA TestersPermitted ==
  ASSUME NEW r, NEW kind \in {"test", "look"}
  PROVE  /\ \A x : /\ Permits(kind, r, Call(x)) /\ Permits(kind, r, Check(x))
                   /\ Permits(kind, r, Insist(x)) /\ Permits(kind, r, Forget(x))
         /\ \A x, e : /\ Permits(kind, r, Instr("check", x, "name", e))
                      /\ Permits(kind, r, Instr("make", x, "name", e))
                      /\ Permits(kind, r, Instr("make named", x, "name", e))
         /\ \A x : kind = "test" \/ x # r => Permits(kind, r, Granted(x))
<1>1. ASSUME NEW x, NEW e
      PROVE  /\ Tests(Call(x)) /\ Tests(Check(x)) /\ Tests(Insist(x)) /\ Tests(Forget(x))
             /\ Tests(Granted(x)) /\ Tests(Instr("check", x, "name", e))
             /\ Tests(Instr("make", x, "name", e)) /\ Tests(Instr("make named", x, "name", e))
  BY Zenon DEF Tests, Call, Check, Insist, Forget, Granted, Learn, Instr
<1>2. ASSUME NEW x, NEW e
      PROVE  /\ ~Grants(r, Call(x)) /\ ~Grants(r, Check(x)) /\ ~Grants(r, Insist(x))
             /\ ~Grants(r, Forget(x)) /\ ~Grants(r, Instr("check", x, "name", e))
             /\ ~Grants(r, Instr("make", x, "name", e))
             /\ ~Grants(r, Instr("make named", x, "name", e))
             /\ x # r => ~Grants(r, Granted(x))
  BY Zenon DEF Grants, Call, Check, Insist, Forget, Granted, Learn, Instr
<1>3. ASSUME NEW x, NEW e
      PROVE  /\ IsInstr(Call(x)) /\ IsInstr(Check(x)) /\ IsInstr(Insist(x)) /\ IsInstr(Forget(x))
             /\ IsInstr(Granted(x)) /\ IsInstr(Instr("check", x, "name", e))
             /\ IsInstr(Instr("make", x, "name", e)) /\ IsInstr(Instr("make named", x, "name", e))
  BY Zenon, AreInstr DEF Call, Check, Insist, Forget, Granted, Learn
<1>4. \A i : IsInstr(i) /\ Tests(i) /\ (kind = "look" => ~Grants(r, i)) => Permits(kind, r, i)
  BY DEF Permits
<1> QED
  BY <1>1, <1>2, <1>3, <1>4

(* A part that takes r not for granted is part of a test.                  *)
LEMMA LooksTest == ASSUME NEW r, NEW p, Fits("look", r, p) PROVE Fits("test", r, p)
  BY DEF Fits, Permits

(* What comes before must not take r for granted.                          *)
LEMMA SecuresAfter ==
  ASSUME NEW r, NEW s, NEW t, Fits("look", r, s), SeesTo(r, t)
  PROVE  SeesTo(r, s \o t)
<1>1. Fits("test", r, s \o t) /\ IsSeq(s) /\ IsSeq(t)
  BY LooksTest, FitsConcat, FitsIsSeq DEF SeesTo
<1>2. PICK k \in DOMAIN t :
        Acts(r, t[k]) /\ \A j \in 1..k-1 : ~Grants(r, t[j])
  BY DEF SeesTo, Secures
<1>3. /\ DOMAIN s = 1..Len(s) /\ DOMAIN t = 1..Len(t) /\ Len(s) \in Nat /\ Len(t) \in Nat
      /\ DOMAIN (s \o t) = 1..Len(s) + Len(t)
      /\ \A j \in 1..Len(s) : (s \o t)[j] = s[j]
      /\ \A j \in 1..Len(t) : (s \o t)[Len(s) + j] = t[j]
  BY <1>1, ConcatIs
<1>4. ASSUME NEW j \in 1..(Len(s) + k)-1
      PROVE  ~Grants(r, (s \o t)[j])
  <2>1. CASE j \in 1..Len(s)
    <3>1. (s \o t)[j] = s[j] /\ j \in DOMAIN s
      BY <1>3, <2>1
    <3>2. ~Grants(r, s[j])
      BY <3>1 DEF Fits, Permits
    <3> QED
      BY <3>1, <3>2
  <2>2. CASE j \notin 1..Len(s)
    <3>1. j - Len(s) \in 1..k-1 /\ j - Len(s) \in 1..Len(t) /\ j = Len(s) + (j - Len(s))
      BY <1>3, <2>2
    <3>2. (s \o t)[j] = t[j - Len(s)]
      BY <1>3, <3>1
    <3> QED
      BY <1>2, <3>1, <3>2
  <2> QED
    BY <2>1, <2>2
<1>5. Len(s) + k \in DOMAIN (s \o t) /\ (s \o t)[Len(s) + k] = t[k]
  BY <1>3
<1>6. Secures(r, s \o t)
  BY <1>2, <1>4, <1>5 DEF Secures
<1> QED
  BY <1>1, <1>6 DEF SeesTo

(* What comes after does no harm.                                          *)
LEMMA SecuresBefore ==
  ASSUME NEW r, NEW s, NEW t, SeesTo(r, s), Fits("test", r, t)
  PROVE  SeesTo(r, s \o t)
<1>1. Fits("test", r, s \o t) /\ IsSeq(s) /\ IsSeq(t)
  BY FitsConcat, FitsIsSeq DEF SeesTo
<1>2. PICK k \in DOMAIN s :
        Acts(r, s[k]) /\ \A j \in 1..k-1 : ~Grants(r, s[j])
  BY DEF SeesTo, Secures
<1>3. /\ DOMAIN s = 1..Len(s) /\ Len(s) \in Nat /\ Len(t) \in Nat
      /\ DOMAIN (s \o t) = 1..Len(s) + Len(t)
      /\ \A j \in 1..Len(s) : (s \o t)[j] = s[j]
  BY <1>1, ConcatIs
<1>4. /\ k \in DOMAIN (s \o t) /\ (s \o t)[k] = s[k]
      /\ \A j \in 1..k-1 : (s \o t)[j] = s[j]
  BY <1>3
<1>5. Secures(r, s \o t)
  BY <1>2, <1>4 DEF Secures
<1> QED
  BY <1>1, <1>5 DEF SeesTo

(* A part that insists on r.                                               *)
LEMMA InsistSecures ==
  ASSUME NEW r, NEW t, Fits("look", r, t), NEW k \in DOMAIN t, t[k] = Insist(r)
  PROVE  SeesTo(r, t)
<1>1. Acts(r, t[k])
  <2>1. t[k] = Instr("need id", r, "uuid", {})
    BY Zenon DEF Insist
  <2>2. t[k].on = r /\ t[k].do = "need id" /\ t[k].when = {}
    <3>1. \A w : t[k] = Instr(w, r, "uuid", {}) => t[k].on = r /\ t[k].do = w /\ t[k].when = {}
      BY InstrIs
    <3> QED
      BY Zenon, <2>1, <3>1
  <2> QED
    BY Zenon, <2>2 DEF Acts
<1>2. DOMAIN t = 1..Len(t) /\ Len(t) \in Nat
  BY SeqOfItsOwn DEF Fits, IsSeq
<1>3. \A j \in 1..k-1 : ~Grants(r, t[j])
  BY <1>2 DEF Fits, Permits
<1>4. Secures(r, t)
  BY <1>1, <1>3 DEF Secures
<1> QED
  BY <1>4, LooksTest DEF SeesTo

(* A key that is missed is uploaded.                                       *)
CheckedKey == check_ssh_key(<< Check("key") >>, upload(Either))
(* It is uploaded before it is taken for granted.                          *)
LEMMA UploadSecures == SeesTo("key", CheckedKey)
<1> DEFINE a == << Call("key file") >> \o << Check("key") >>
           i == Instr("make", "key", "name", Either)
           b == IfMissed(<< i >>)
           c == << Granted("key") >>
<1>1. Fits("look", "key", a)
  BY TestersPermitted, List1, FitsConcat
<1>2. Fits("test", "key", b) /\ Fits("test", "key", c)
  BY TestersPermitted, List1, IfFits DEF IfMissed
<1>3. /\ 1 \in DOMAIN b /\ b[1] = Under("missed", i)
      /\ i.on = "key" /\ i.do = "make" /\ i.when = {} /\ IsInstr(i)
  BY AreInstr, InstrIs DEF IfMissed, If
<1>4. CheckedKey = (a \o b) \o c
  BY DEF CheckedKey, check_ssh_key, upload
<1> HIDE DEF a, b, c, i
<1>5. Acts("key", b[1])
  <2>1. b[1].on = "key" /\ b[1].do = "make" /\ b[1].when \subseteq {"missed"}
    BY <1>3, UnderKeeps
  <2> QED
    BY Zenon, <2>1 DEF Acts
<1>6. SeesTo("key", b)
  BY <1>2, <1>3, <1>5 DEF SeesTo, Secures
<1> QED
  BY <1>1, <1>2, <1>4, <1>6, SecuresAfter, SecuresBefore

(* What the test of each driver refuses a VMC for, or supplies.            *)
LEMMA TestOf ==
  /\ test_vmc_connection("osk") = {osk_test_vmc_connection(jumphost) : jumphost \in BOOLEAN}
  /\ test_vmc_connection("gce") = {gce_test_vmc_connection(checked) : checked \in BOOLEAN}
  /\ test_vmc_connection("lc") = {lc_test_vmc_connection(listed) : listed \in BOOLEAN}
  /\ test_vmc_connection("as") = {lc_test_vmc_connection(listed) : listed \in BOOLEAN}
  /\ test_vmc_connection("ec2") = {ec2_test_vmc_connection}
  /\ test_vmc_connection("pdm") = {pdm_test_vmc_connection}
  /\ test_vmc_connection("pcm") = {pcm_test_vmc_connection}
  /\ test_vmc_connection("plm") = {plm_test_vmc_connection}
  /\ test_vmc_connection("slr") = {slr_test_vmc_connection}
  BY Zenon DEF test_vmc_connection

(* The test of every driver sees to all that it does not take for granted. *)
LEMMA TestsSupply ==
  ASSUME NEW d \in DriverNames, NEW prog \in test_vmc_connection(d), NEW r \in Needs(d)
  PROVE  SeesTo(r, prog)
<1>1. \A x : x # "key" => Fits("look", x, check_ssh_key(<< Granted("key") >>, << >>))
  BY TestersPermitted, List0, List1, IfFits, FitsConcat DEF check_ssh_key, IfMissed
<1>2. \A x : x # "key" => Fits("look", x, CheckedKey)
  BY TestersPermitted, List1, IfFits, FitsConcat DEF CheckedKey, check_ssh_key, upload, IfMissed

<1>3. ASSUME NEW x \in BOOLEAN PROVE SeesTo("network", osk_test_vmc_connection(x))
  <2> DEFINE a1 == << osk_connect, generate_rc >>
             b1 == CheckedKey
             c1 == << Check("security group") >>
             d1 == osk_check_floating_pool
             e1 == osk_check_networks
             f1 == osk_check_images
             g1 == (IF x THEN osk_check_jumphost ELSE << Granted("jumphost") >>)
             h1 == << Insist("network"), Insist("key"), Insist("security group"), Insist("jumphost") >>
  <2>1. Fits("look", "network", a1)
    BY TestersPermitted, SecurityGroupIs, FitsConcat, IfFits, List2
       DEF osk_connect, generate_rc
  <2>2. Fits("look", "network", b1)
    BY <1>2, SecurityGroupIs
  <2>3. Fits("look", "network", c1)
    BY TestersPermitted, SecurityGroupIs, FitsConcat, IfFits, List1
       DEF Check
  <2>4. Fits("look", "network", d1)
    BY TestersPermitted, SecurityGroupIs, FitsConcat, IfFits, List1
       DEF osk_check_floating_pool, Check
  <2>5. Fits("look", "network", e1)
    BY TestersPermitted, SecurityGroupIs, FitsConcat, IfFits, List1, List2
       DEF osk_check_networks, osk_get_network_list, Check
  <2>6. Fits("look", "network", f1)
    BY TestersPermitted, SecurityGroupIs, FitsConcat, IfFits, List1, List2
       DEF osk_check_images, base_check_images, Check
  <2>7. Fits("look", "network", g1)
    BY TestersPermitted, SecurityGroupIs, FitsConcat, IfFits, List0, List1,
       List2
       DEF osk_check_jumphost, Granted, IfMissed
  <2>8. Fits("look", "network", h1)
    BY TestersPermitted, SecurityGroupIs, FitsConcat, IfFits, List4
  <2>9. 1 \in DOMAIN h1 /\ h1[1] = Insist("network")
    BY DEF SecurityGroup
  <2> HIDE DEF a1, b1, c1, d1, e1, f1, g1, h1
  <2>10. SeesTo("network", h1)
    BY <2>8, <2>9, InsistSecures
  <2>11. Fits("look", "network", (((((a1 \o b1) \o c1) \o d1) \o e1) \o f1) \o g1)
    BY <2>1, <2>2, <2>3, <2>4, <2>5, <2>6, <2>7, FitsConcat
  <2>12. SeesTo("network", ((((((a1 \o b1) \o c1) \o d1) \o e1) \o f1) \o g1) \o h1)
    BY <2>10, <2>11, SecuresAfter
  <2> QED
    BY <2>12
       DEF a1, b1, c1, d1, e1, f1, g1, h1, osk_test_vmc_connection,
           osk_get_ssh_keys, osk_create_ssh_key, osk_get_security_groups,
           check_security_group, CheckedKey
<1>4. ASSUME NEW x \in BOOLEAN PROVE SeesTo("key", osk_test_vmc_connection(x))
  <2> DEFINE a1 == << osk_connect, generate_rc >>
             b1 == CheckedKey
             c1 == << Check("security group") >>
             d1 == osk_check_floating_pool
             e1 == osk_check_networks
             f1 == osk_check_images
             g1 == (IF x THEN osk_check_jumphost ELSE << Granted("jumphost") >>)
             h1 == << Insist("network"), Insist("key"), Insist("security group"), Insist("jumphost") >>
  <2>1. Fits("look", "key", a1)
    BY TestersPermitted, SecurityGroupIs, FitsConcat, IfFits, List2
       DEF osk_connect, generate_rc
  <2>3. Fits("test", "key", c1)
    BY TestersPermitted, SecurityGroupIs, FitsConcat, IfFits, List1
       DEF Check
  <2>4. Fits("test", "key", d1)
    BY TestersPermitted, SecurityGroupIs, FitsConcat, IfFits, List1
       DEF osk_check_floating_pool, Check
  <2>5. Fits("test", "key", e1)
    BY TestersPermitted, SecurityGroupIs, FitsConcat, IfFits, List1, List2
       DEF osk_check_networks, osk_get_network_list, Check
  <2>6. Fits("test", "key", f1)
    BY TestersPermitted, SecurityGroupIs, FitsConcat, IfFits, List1, List2
       DEF osk_check_images, base_check_images, Check
  <2>7. Fits("test", "key", g1)
    BY TestersPermitted, SecurityGroupIs, FitsConcat, IfFits, List0, List1,
       List2
       DEF osk_check_jumphost, Granted, IfMissed
  <2>8. Fits("test", "key", h1)
    BY TestersPermitted, SecurityGroupIs, FitsConcat, IfFits, List4
  <2> HIDE DEF a1, b1, c1, d1, e1, f1, g1, h1
  <2>9. Fits("look", "key", a1)
    BY <2>1, FitsConcat
  <2>10. SeesTo("key", a1 \o b1)
    BY <2>9, UploadSecures, SecuresAfter DEF b1
  <2>11. SeesTo("key", (a1 \o b1) \o c1)
    BY <2>10, <2>3, SecuresBefore
  <2>12. SeesTo("key", ((a1 \o b1) \o c1) \o d1)
    BY <2>11, <2>4, SecuresBefore
  <2>13. SeesTo("key", (((a1 \o b1) \o c1) \o d1) \o e1)
    BY <2>12, <2>5, SecuresBefore
  <2>14. SeesTo("key", ((((a1 \o b1) \o c1) \o d1) \o e1) \o f1)
    BY <2>13, <2>6, SecuresBefore
  <2>15. SeesTo("key", (((((a1 \o b1) \o c1) \o d1) \o e1) \o f1) \o g1)
    BY <2>14, <2>7, SecuresBefore
  <2>16. SeesTo("key", ((((((a1 \o b1) \o c1) \o d1) \o e1) \o f1) \o g1) \o h1)
    BY <2>15, <2>8, SecuresBefore
  <2> QED
    BY <2>16
       DEF a1, b1, c1, d1, e1, f1, g1, h1, osk_test_vmc_connection,
           osk_get_ssh_keys, osk_create_ssh_key, osk_get_security_groups,
           check_security_group, CheckedKey
<1>5. ASSUME NEW x \in BOOLEAN PROVE SeesTo(SecurityGroup, osk_test_vmc_connection(x))
  <2> DEFINE a1 == << osk_connect, generate_rc >>
             b1 == CheckedKey
             c1 == << Check("security group") >>
             d1 == osk_check_floating_pool
             e1 == osk_check_networks
             f1 == osk_check_images
             g1 == (IF x THEN osk_check_jumphost ELSE << Granted("jumphost") >>)
             h1 == << Insist("network"), Insist("key"), Insist("security group"), Insist("jumphost") >>
  <2>1. Fits("look", SecurityGroup, a1)
    BY TestersPermitted, SecurityGroupIs, FitsConcat, IfFits, List2
       DEF osk_connect, generate_rc
  <2>2. Fits("look", SecurityGroup, b1)
    BY <1>2, SecurityGroupIs
  <2>3. Fits("look", SecurityGroup, c1)
    BY TestersPermitted, SecurityGroupIs, FitsConcat, IfFits, List1
       DEF Check
  <2>4. Fits("look", SecurityGroup, d1)
    BY TestersPermitted, SecurityGroupIs, FitsConcat, IfFits, List1
       DEF osk_check_floating_pool, Check
  <2>5. Fits("look", SecurityGroup, e1)
    BY TestersPermitted, SecurityGroupIs, FitsConcat, IfFits, List1, List2
       DEF osk_check_networks, osk_get_network_list, Check
  <2>6. Fits("look", SecurityGroup, f1)
    BY TestersPermitted, SecurityGroupIs, FitsConcat, IfFits, List1, List2
       DEF osk_check_images, base_check_images, Check
  <2>7. Fits("look", SecurityGroup, g1)
    BY TestersPermitted, SecurityGroupIs, FitsConcat, IfFits, List0, List1,
       List2
       DEF osk_check_jumphost, Granted, IfMissed
  <2>8. Fits("look", SecurityGroup, h1)
    BY TestersPermitted, SecurityGroupIs, FitsConcat, IfFits, List4
  <2>9. 3 \in DOMAIN h1 /\ h1[3] = Insist(SecurityGroup)
    BY DEF SecurityGroup
  <2> HIDE DEF a1, b1, c1, d1, e1, f1, g1, h1
  <2>10. SeesTo(SecurityGroup, h1)
    BY <2>8, <2>9, InsistSecures
  <2>11. Fits("look", SecurityGroup, (((((a1 \o b1) \o c1) \o d1) \o e1) \o f1) \o g1)
    BY <2>1, <2>2, <2>3, <2>4, <2>5, <2>6, <2>7, FitsConcat
  <2>12. SeesTo(SecurityGroup, ((((((a1 \o b1) \o c1) \o d1) \o e1) \o f1) \o g1) \o h1)
    BY <2>10, <2>11, SecuresAfter
  <2> QED
    BY <2>12
       DEF a1, b1, c1, d1, e1, f1, g1, h1, osk_test_vmc_connection,
           osk_get_ssh_keys, osk_create_ssh_key, osk_get_security_groups,
           check_security_group, CheckedKey
<1>6. SeesTo("key", ec2_test_vmc_connection)
  <2> DEFINE a1 == << ec2_connect, generate_rc >>
             b1 == CheckedKey
             c1 == << Check("security group") >>
             d1 == ec2_check_images
             e1 == << Insist("key"), Insist("security group") >>
  <2>1. Fits("look", "key", a1)
    BY TestersPermitted, SecurityGroupIs, FitsConcat, IfFits, List2
       DEF ec2_connect, generate_rc
  <2>3. Fits("test", "key", c1)
    BY TestersPermitted, SecurityGroupIs, FitsConcat, IfFits, List1
       DEF Check
  <2>4. Fits("test", "key", d1)
    BY TestersPermitted, SecurityGroupIs, FitsConcat, IfFits, List1, List2
       DEF ec2_check_images, base_check_images, Check
  <2>5. Fits("test", "key", e1)
    BY TestersPermitted, SecurityGroupIs, FitsConcat, IfFits, List2
  <2> HIDE DEF a1, b1, c1, d1, e1
  <2>6. Fits("look", "key", a1)
    BY <2>1, FitsConcat
  <2>7. SeesTo("key", a1 \o b1)
    BY <2>6, UploadSecures, SecuresAfter DEF b1
  <2>8. SeesTo("key", (a1 \o b1) \o c1)
    BY <2>7, <2>3, SecuresBefore
  <2>9. SeesTo("key", ((a1 \o b1) \o c1) \o d1)
    BY <2>8, <2>4, SecuresBefore
  <2>10. SeesTo("key", (((a1 \o b1) \o c1) \o d1) \o e1)
    BY <2>9, <2>5, SecuresBefore
  <2> QED
    BY <2>10
       DEF a1, b1, c1, d1, e1, ec2_test_vmc_connection, ec2_get_ssh_keys,
           ec2_create_ssh_key, ec2_get_security_groups, check_security_group,
           CheckedKey
<1>7. SeesTo(SecurityGroup, ec2_test_vmc_connection)
  <2> DEFINE a1 == << ec2_connect, generate_rc >>
             b1 == CheckedKey
             c1 == << Check("security group") >>
             d1 == ec2_check_images
             e1 == << Insist("key"), Insist("security group") >>
  <2>1. Fits("look", SecurityGroup, a1)
    BY TestersPermitted, SecurityGroupIs, FitsConcat, IfFits, List2
       DEF ec2_connect, generate_rc
  <2>2. Fits("look", SecurityGroup, b1)
    BY <1>2, SecurityGroupIs
  <2>3. Fits("look", SecurityGroup, c1)
    BY TestersPermitted, SecurityGroupIs, FitsConcat, IfFits, List1
       DEF Check
  <2>4. Fits("look", SecurityGroup, d1)
    BY TestersPermitted, SecurityGroupIs, FitsConcat, IfFits, List1, List2
       DEF ec2_check_images, base_check_images, Check
  <2>5. Fits("look", SecurityGroup, e1)
    BY TestersPermitted, SecurityGroupIs, FitsConcat, IfFits, List2
  <2>6. 2 \in DOMAIN e1 /\ e1[2] = Insist(SecurityGroup)
    BY DEF SecurityGroup
  <2> HIDE DEF a1, b1, c1, d1, e1
  <2>7. SeesTo(SecurityGroup, e1)
    BY <2>5, <2>6, InsistSecures
  <2>8. Fits("look", SecurityGroup, ((a1 \o b1) \o c1) \o d1)
    BY <2>1, <2>2, <2>3, <2>4, FitsConcat
  <2>9. SeesTo(SecurityGroup, (((a1 \o b1) \o c1) \o d1) \o e1)
    BY <2>7, <2>8, SecuresAfter
  <2> QED
    BY <2>9
       DEF a1, b1, c1, d1, e1, ec2_test_vmc_connection, ec2_get_ssh_keys,
           ec2_create_ssh_key, ec2_get_security_groups, check_security_group,
           CheckedKey
<1>8. ASSUME NEW x \in BOOLEAN PROVE SeesTo("key", gce_test_vmc_connection(x))
  <2> DEFINE a1 == << gce_connect, generate_rc >>
             b1 == gce_check_networks
             c1 == CheckedKey
             d1 == (IF x THEN << >> ELSE gce_check_images \o << Insist("network"), Insist("key") >>)
  <2>1. Fits("look", "key", a1)
    BY TestersPermitted, SecurityGroupIs, FitsConcat, IfFits, List2
       DEF gce_connect, generate_rc
  <2>2. Fits("look", "key", b1)
    BY TestersPermitted, SecurityGroupIs, FitsConcat, IfFits, List1
       DEF gce_check_networks, Granted
  <2>4. Fits("test", "key", d1)
    BY TestersPermitted, SecurityGroupIs, FitsConcat, IfFits, List0, List1,
       List2
       DEF gce_check_images, base_check_images, Check
  <2> HIDE DEF a1, b1, c1, d1
  <2>5. Fits("look", "key", a1 \o b1)
    BY <2>1, <2>2, FitsConcat
  <2>6. SeesTo("key", (a1 \o b1) \o c1)
    BY <2>5, UploadSecures, SecuresAfter DEF c1
  <2>7. SeesTo("key", ((a1 \o b1) \o c1) \o d1)
    BY <2>6, <2>4, SecuresBefore
  <2> QED
    BY <2>7
       DEF a1, b1, c1, d1, gce_test_vmc_connection, gce_get_ssh_keys,
           gce_create_ssh_key, CheckedKey
<1>9. SeesTo("key", slr_test_vmc_connection)
  <2> DEFINE a1 == << slr_connect, generate_rc >>
             b1 == slr_check_networks
             c1 == CheckedKey
             d1 == slr_check_images
             e1 == << Insist("network"), Insist("key") >>
  <2>1. Fits("look", "key", a1)
    BY TestersPermitted, SecurityGroupIs, FitsConcat, IfFits, List2
       DEF slr_connect, generate_rc
  <2>2. Fits("look", "key", b1)
    BY TestersPermitted, SecurityGroupIs, FitsConcat, IfFits, List1
       DEF slr_check_networks, Granted
  <2>4. Fits("test", "key", d1)
    BY TestersPermitted, SecurityGroupIs, FitsConcat, IfFits, List1, List2
       DEF slr_check_images, base_check_images, Check
  <2>5. Fits("test", "key", e1)
    BY TestersPermitted, SecurityGroupIs, FitsConcat, IfFits, List2
  <2> HIDE DEF a1, b1, c1, d1, e1
  <2>6. Fits("look", "key", a1 \o b1)
    BY <2>1, <2>2, FitsConcat
  <2>7. SeesTo("key", (a1 \o b1) \o c1)
    BY <2>6, UploadSecures, SecuresAfter DEF c1
  <2>8. SeesTo("key", ((a1 \o b1) \o c1) \o d1)
    BY <2>7, <2>4, SecuresBefore
  <2>9. SeesTo("key", (((a1 \o b1) \o c1) \o d1) \o e1)
    BY <2>8, <2>5, SecuresBefore
  <2> QED
    BY <2>9
       DEF a1, b1, c1, d1, e1, slr_test_vmc_connection, slr_get_ssh_keys,
           slr_create_ssh_key, CheckedKey
<1>10. ASSUME NEW x \in BOOLEAN PROVE SeesTo("key", lc_test_vmc_connection(x))
  <2> DEFINE a1 == << lc_connect >>
             b1 == CheckedKey
             c1 == << generate_rc >>
             d1 == lc_check_networks(x)
             e1 == as_extra_vmc_setup
             f1 == lc_check_images
             g1 == << Insist("network"), Insist("key") >>
  <2>1. Fits("look", "key", a1)
    BY TestersPermitted, SecurityGroupIs, FitsConcat, IfFits, List1
       DEF lc_connect
  <2>3. Fits("test", "key", c1)
    BY TestersPermitted, SecurityGroupIs, FitsConcat, IfFits, List1
       DEF generate_rc
  <2>4. Fits("test", "key", d1)
    BY TestersPermitted, SecurityGroupIs, FitsConcat, IfFits, List1
       DEF lc_check_networks, Check, Granted
  <2>5. Fits("test", "key", e1)
    BY TestersPermitted, SecurityGroupIs, FitsConcat, IfFits, List0, List1,
       List2
       DEF as_extra_vmc_setup
  <2>6. Fits("test", "key", f1)
    BY TestersPermitted, SecurityGroupIs, FitsConcat, IfFits, List1, List2
       DEF lc_check_images, base_check_images, Check
  <2>7. Fits("test", "key", g1)
    BY TestersPermitted, SecurityGroupIs, FitsConcat, IfFits, List2
  <2> HIDE DEF a1, b1, c1, d1, e1, f1, g1
  <2>8. Fits("look", "key", a1)
    BY <2>1, FitsConcat
  <2>9. SeesTo("key", a1 \o b1)
    BY <2>8, UploadSecures, SecuresAfter DEF b1
  <2>10. SeesTo("key", (a1 \o b1) \o c1)
    BY <2>9, <2>3, SecuresBefore
  <2>11. SeesTo("key", ((a1 \o b1) \o c1) \o d1)
    BY <2>10, <2>4, SecuresBefore
  <2>12. SeesTo("key", (((a1 \o b1) \o c1) \o d1) \o e1)
    BY <2>11, <2>5, SecuresBefore
  <2>13. SeesTo("key", ((((a1 \o b1) \o c1) \o d1) \o e1) \o f1)
    BY <2>12, <2>6, SecuresBefore
  <2>14. SeesTo("key", (((((a1 \o b1) \o c1) \o d1) \o e1) \o f1) \o g1)
    BY <2>13, <2>7, SecuresBefore
  <2> QED
    BY <2>14
       DEF a1, b1, c1, d1, e1, f1, g1, lc_test_vmc_connection,
           lc_get_ssh_keys, lc_create_ssh_key, CheckedKey
<1>11. SeesTo("network", pdm_test_vmc_connection)
  <2> DEFINE a1 == << pdm_connect, generate_rc >>
             b1 == pdm_check_networks
             c1 == check_ssh_key(<< Granted("key") >>, << >>)
             d1 == pdm_check_images
             e1 == << Insist("network"), Insist("key") >>
  <2>1. Fits("look", "network", a1)
    BY TestersPermitted, SecurityGroupIs, FitsConcat, IfFits, List2
       DEF pdm_connect, generate_rc
  <2>2. Fits("look", "network", b1)
    BY TestersPermitted, SecurityGroupIs, FitsConcat, IfFits, List1
       DEF pdm_check_networks, Check
  <2>3. Fits("look", "network", c1)
    BY <1>1
  <2>4. Fits("look", "network", d1)
    BY TestersPermitted, SecurityGroupIs, FitsConcat, IfFits, List1, List2
       DEF pdm_check_images, base_check_images, Check
  <2>5. Fits("look", "network", e1)
    BY TestersPermitted, SecurityGroupIs, FitsConcat, IfFits, List2
  <2>6. 1 \in DOMAIN e1 /\ e1[1] = Insist("network")
    BY DEF SecurityGroup
  <2> HIDE DEF a1, b1, c1, d1, e1
  <2>7. SeesTo("network", e1)
    BY <2>5, <2>6, InsistSecures
  <2>8. Fits("look", "network", ((a1 \o b1) \o c1) \o d1)
    BY <2>1, <2>2, <2>3, <2>4, FitsConcat
  <2>9. SeesTo("network", (((a1 \o b1) \o c1) \o d1) \o e1)
    BY <2>7, <2>8, SecuresAfter
  <2> QED
    BY <2>9
       DEF a1, b1, c1, d1, e1, pdm_test_vmc_connection, pdm_get_ssh_keys,
           own_ssh_key
<1>12. SeesTo("network", pcm_test_vmc_connection)
  <2> DEFINE a1 == << pcm_connect, generate_rc >>
             b1 == pcm_check_networks
             c1 == check_ssh_key(<< Granted("key") >>, << >>)
             d1 == pcm_check_images
             e1 == << Insist("network"), Insist("key") >>
  <2>1. Fits("look", "network", a1)
    BY TestersPermitted, SecurityGroupIs, FitsConcat, IfFits, List2
       DEF pcm_connect, generate_rc
  <2>2. Fits("look", "network", b1)
    BY TestersPermitted, SecurityGroupIs, FitsConcat, IfFits, List1
       DEF pcm_check_networks, Check
  <2>3. Fits("look", "network", c1)
    BY <1>1
  <2>4. Fits("look", "network", d1)
    BY TestersPermitted, SecurityGroupIs, FitsConcat, IfFits, List1, List2
       DEF pcm_check_images, base_check_images, Check
  <2>5. Fits("look", "network", e1)
    BY TestersPermitted, SecurityGroupIs, FitsConcat, IfFits, List2
  <2>6. 1 \in DOMAIN e1 /\ e1[1] = Insist("network")
    BY DEF SecurityGroup
  <2> HIDE DEF a1, b1, c1, d1, e1
  <2>7. SeesTo("network", e1)
    BY <2>5, <2>6, InsistSecures
  <2>8. Fits("look", "network", ((a1 \o b1) \o c1) \o d1)
    BY <2>1, <2>2, <2>3, <2>4, FitsConcat
  <2>9. SeesTo("network", (((a1 \o b1) \o c1) \o d1) \o e1)
    BY <2>7, <2>8, SecuresAfter
  <2> QED
    BY <2>9
       DEF a1, b1, c1, d1, e1, pcm_test_vmc_connection, pcm_get_ssh_keys,
           own_ssh_key
<1>13. SeesTo("network", plm_test_vmc_connection)
  <2> DEFINE a1 == << plm_connect, generate_rc >>
             b1 == plm_check_networks
             c1 == check_ssh_key(<< Granted("key") >>, << >>)
             d1 == plm_check_images
             e1 == << Insist("network"), Insist("key") >>
  <2>1. Fits("look", "network", a1)
    BY TestersPermitted, SecurityGroupIs, FitsConcat, IfFits, List2
       DEF plm_connect, generate_rc
  <2>2. Fits("look", "network", b1)
    BY TestersPermitted, SecurityGroupIs, FitsConcat, IfFits, List1
       DEF plm_check_networks, Check
  <2>3. Fits("look", "network", c1)
    BY <1>1
  <2>4. Fits("look", "network", d1)
    BY TestersPermitted, SecurityGroupIs, FitsConcat, IfFits, List1, List2
       DEF plm_check_images, base_check_images, Check
  <2>5. Fits("look", "network", e1)
    BY TestersPermitted, SecurityGroupIs, FitsConcat, IfFits, List2
  <2>6. 1 \in DOMAIN e1 /\ e1[1] = Insist("network")
    BY DEF SecurityGroup
  <2> HIDE DEF a1, b1, c1, d1, e1
  <2>7. SeesTo("network", e1)
    BY <2>5, <2>6, InsistSecures
  <2>8. Fits("look", "network", ((a1 \o b1) \o c1) \o d1)
    BY <2>1, <2>2, <2>3, <2>4, FitsConcat
  <2>9. SeesTo("network", (((a1 \o b1) \o c1) \o d1) \o e1)
    BY <2>7, <2>8, SecuresAfter
  <2> QED
    BY <2>9
       DEF a1, b1, c1, d1, e1, plm_test_vmc_connection, plm_get_ssh_keys,
           own_ssh_key
<1>14. CASE d = "osk"
  BY <1>14, NeedsAre, TestOf, SecurityGroupIs, <1>3, <1>4, <1>5
<1>15. CASE d = "ec2"
  BY <1>15, NeedsAre, TestOf, SecurityGroupIs, <1>6, <1>7
<1>16. CASE d \in {"pdm", "pcm", "plm"}
  BY <1>16, NeedsAre, TestOf, SecurityGroupIs, <1>11, <1>12, <1>13
<1>17. CASE d \in {"gce", "slr", "lc", "as"}
  BY <1>17, NeedsAre, TestOf, SecurityGroupIs, <1>8, <1>9, <1>10
<1> QED
  BY NeedsAre, <1>14, <1>15, <1>16, <1>17

(* While a VMC is tested, what it needs is there or will be seen to.       *)
Testing ==
    /\ at = "untested" => ids = {}
    /\ at \in {"untested", "tested"} => Over
    /\ at = "testing" =>
         \A r \in Needs(drv) :
            /\ Fits("test", r, todo)
            /\ ~broken /\ ~slipped => r \in things \/ (r \notin ids /\ Secures(r, todo))
    /\ at = "tested" /\ ~slipped => Needs(drv) \subseteq things

(* The step of a test without an error.                                    *)
LEMMA StillSecures ==
  ASSUME NEW r, IsSeq(todo), todo # << >>, Current = {todo[1]}, RunEffects(todo[1]),
         StepOver \/ Step, todo' = Tail(todo), Tests(todo[1]),
         r \notin things, r \notin ids, Secures(r, todo)
  PROVE  r \in things' \/ (r \notin ids' /\ Secures(r, todo'))
<1> DEFINE i == todo[1]
<1>1. /\ Len(todo) \in Nat \ {0} /\ DOMAIN todo = 1..Len(todo)
      /\ DOMAIN Tail(todo) = 1..Len(todo) - 1
      /\ \A k \in 1..Len(todo) - 1 : Tail(todo)[k] = todo[k+1]
  BY TailIs
<1>2. PICK k \in DOMAIN todo :
        Acts(r, todo[k]) /\ \A j \in 1..k-1 : ~Grants(r, todo[j])
  BY DEF Secures
<1>3. StepOver => ~Applies(i) /\ things' = things /\ ids' = ids
  BY DEF StepOver, cloud, vm
<1>4. Step => /\ Effect(i) /\ ~Refused(i)
              /\ ids' = IF i.do \in {"make", "learn"} \/ (i.do = "check" /\ i.on \in things)
                        THEN ids \cup {i.on}
                        ELSE IF i.do \in {"make named", "make bare", "forget"} THEN ids \ {i.on}
                        ELSE ids
  BY DEF Step
<1>5. Effect(i) /\ i.do = "make" => i.on \in things'
  BY DEF Effect, Making, Tagging, Dropping, Powering, Accounting, Looking, Makes, Drops
<1>6. CASE k = 1
  <2>1. Acts(r, i)
    BY <1>2, <1>6
  <2>3. i.on = r /\ i.when \subseteq {"missed"}
    BY Zenon, <2>1 DEF Acts
  <2>5. Applies(i)
    BY <2>3 DEF Applies
  <2>2. Effect(i) /\ ~Refused(i)
    BY <1>3, <1>4, <2>5
  <2>4. i.do = "make"
    BY Zenon, <2>1, <2>2, <2>3 DEF Acts, Refused
  <2> QED
    BY <1>5, <2>2, <2>3, <2>4
<1>7. CASE k # 1
  <2>1. /\ k - 1 \in DOMAIN Tail(todo) /\ Tail(todo)[k-1] = todo[k]
        /\ \A j \in 1..(k-1)-1 : Tail(todo)[j] = todo[j+1] /\ j + 1 \in 1..k-1
    BY <1>1, <1>2, <1>7
  <2>2. Secures(r, todo')
    BY <1>2, <2>1 DEF Secures
  <2>3. ~Grants(r, i)
    <3>1. 1 \in 1..k-1
      BY <1>1, <1>7
    <3> QED
      BY <1>2, <3>1
  <2> HIDE DEF i
  <2>4. CASE Step
    <3>1. CASE i.do = "make" /\ i.on = r
      BY <1>4, <1>5, <2>4, <3>1
    <3>2. CASE ~(i.do = "make" /\ i.on = r)
      <4>1. r \notin ids'
        BY <1>4, <2>3, <2>4, <3>2 DEF Grants
      <4> QED
        BY <2>2, <4>1
    <3> QED
      BY <3>1, <3>2
  <2>5. CASE StepOver
    BY <1>3, <2>2, <2>5
  <2> QED
    BY <2>4, <2>5
<1> QED
  BY <1>6, <1>7

(* What is seen to is there once its instruction was carried out.          *)
LEMMA TestingStep == ASSUME Shape, Testing, [Next]_vars PROVE Testing'
<1>1. CASE RunAction
  <2>1. /\ UNCHANGED << drv, at >> /\ todo # << >>
        /\ todo' = Tail(todo) \/ todo' = << >>
    BY <1>1, RunIs DEF Run
  <2>2. CASE at = "testing"
    <3>1. ASSUME NEW r \in Needs(drv)
          PROVE  /\ Fits("test", r, todo')
                 /\ ~broken' /\ ~slipped' => r \in things' \/ (r \notin ids' /\ Secures(r, todo'))
      <4>1. Fits("test", r, todo) /\ IsSeq(todo)
        BY <2>2, <3>1, FitsIsSeq DEF Testing
      <4>2. Permits("test", r, todo[1]) /\ Fits("test", r, todo')
        BY <2>1, <4>1, FitsTail, List0
      <4>3. Current = {todo[1]} /\ RunEffects(todo[1])
        BY <1>1, <2>1, <4>1, TailIs, EffectsAre DEF Current
      <4>4. Tests(todo[1])
        BY <4>2 DEF Permits
      <4>5. things \subseteq things'
        BY <4>3, <4>4 DEF RunEffects, Tests, Drops
      <4>6. ASSUME ~broken', ~slipped', r \notin things
            PROVE  r \in things' \/ (r \notin ids' /\ Secures(r, todo'))
        <5>1. (StepOver \/ Step) /\ ~broken /\ ~slipped /\ todo' = Tail(todo)
          BY <1>1, <4>6, WentWell
        <5>2. r \notin ids /\ Secures(r, todo)
          BY <2>2, <3>1, <4>6, <5>1 DEF Testing
        <5> QED
          BY <2>1, <4>1, <4>3, <4>4, <4>6, <5>1, <5>2, StillSecures
      <4> QED
        BY <4>2, <4>5, <4>6
    <3> QED
      BY <2>1, <2>2, <3>1 DEF Testing
  <2>3. CASE at # "testing"
    <3>1. at \notin {"untested", "tested"}
      BY <2>1 DEF Testing, Over
    <3> QED
      BY <2>1, <2>3, <3>1 DEF Testing
  <2> QED
    BY <2>2, <2>3
<1>2. CASE Move
  <2>1. UNCHANGED << drv, things >>
    BY <1>2 DEF Move, cloud
  <2>2. CASE ToTest
    BY <2>1, <2>2, TestsSupply DEF ToTest, Begun, Testing, SeesTo, Shape
  <2>3. CASE ToTested
    <3>1. \A r : ~Secures(r, << >>)
      BY DEF Secures
    <3> QED
      BY <2>1, <2>3, <3>1 DEF ToTested, Testing, Over
  <2>4. CASE ~ToTest /\ ~ToTested
    <3>1. at' \notin {"untested", "testing", "tested"}
      BY <1>2, <2>4 DEF Move, ToRegister, ToNew, ToCreate, ToUp, ToDestroy, ToUndo, ToAttached,
            ToState, ToCapture, ToGone, ToFailed, ToCrashed, ToClean, ToCleaned, Elsewhere,
            Undoing
    <3> QED
      BY <3>1 DEF Testing
  <2> QED
    BY <2>2, <2>3, <2>4
<1>3. CASE Vanish
  BY <1>3 DEF Vanish, Testing, program, vm, Over
<1>4. CASE UNCHANGED vars
  BY <1>4 DEF vars, Testing, program, cloud, vm, Over
<1> QED
  BY <1>1, <1>2, <1>3, <1>4, StepsAre

(* --------------------------- the whole invariant ------------------------ *)

IInv ==
    /\ Shape /\ Stopped /\ Healthy /\ KnowsIds /\ found \in BOOLEAN
    /\ Own /\ Named /\ Spared
    /\ Keyed /\ Clearing /\ Undone /\ Cleaning
    /\ Placing /\ Holding
    /\ Reasons /\ Imaging
    /\ Tagged /\ Telling
    /\ Testing

(* It holds at first.                                                      *)
LEMMA IInvInit == Init => IInv
<1> SUFFICES ASSUME Init PROVE IInv
  OBVIOUS
<1>1. Shape
  BY ShapeInit
<1>2. /\ at \in {"untested", "unregistered"} /\ ~broken /\ found = FALSE /\ cstat = FALSE
      /\ named = things /\ held = [r \in Capacity |-> 0]
  BY DEF Init
<1>3. Stopped /\ Healthy /\ KnowsIds /\ Clearing /\ Reasons /\ Imaging
  BY <1>2 DEF Stopped, Healthy, KnowsIds, Clearing, Reasons, Imaging, Settled
<1>7. Undone /\ Cleaning /\ Placing /\ Tagged /\ Telling
  BY <1>2 DEF Undone, Cleaning, Placing, Undoing, Tagged, Telling, Settled
<1>9. Testing
  <2>1. todo = << >> /\ ids = {}
    BY DEF Init
  <2> QED
    BY <1>2, <2>1 DEF Testing, Over
<1>8. Spared
  <2>1. at \in VMPhases => at = "unregistered"
    BY <1>2 DEF VMPhases, Settled, Before, Undoing, After, Ending
  <2>2. at = "unregistered" => Another \in things
    BY <1>2, Zenon DEF Init, Another
  <2> QED
    BY <2>1, <2>2 DEF Spared
<1>4. Named
  BY <1>2 DEF Named
<1>5. Own
  <2>1. {"volume of another"} \subseteq Foreign
    BY Zenon DEF Foreign
  <2>2. at \in VMPhases => at = "unregistered"
    BY <1>2 DEF VMPhases, Settled, Before, Undoing, After, Ending
  <2>3. at = "unregistered" => things = {"volume of another"}
    BY <1>2, Zenon DEF Init
  <2> QED
    BY Zenon, <2>1, <2>2, <2>3 DEF Own
<1>10. Keyed
  <2>1. at = "unregistered" => things = {"volume of another"}
    BY <1>2, Zenon DEF Init
  <2>2. at = "untested" => at \notin Before \cup {"creating"} \cup Undoing
    BY Zenon DEF Before, Undoing
  <2>3. at # "creating" /\ "volume of another" \notin Owned(drv)
    BY <1>2 DEF Owned
  <2> QED
    BY <1>2, <2>1, <2>2, <2>3 DEF Keyed
<1>6. Holding
  <2>1. held \in [Capacity -> Int] /\ \A r \in Capacity : held[r] = 0
    BY <1>2
  <2> QED
    BY <1>2, <2>1 DEF Holding, Settled, Undoing, Destroying
<1> QED
  BY <1>1, <1>2, <1>3, <1>4, <1>5, <1>6, <1>7, <1>8, <1>9, <1>10 DEF IInv

(* Every step keeps it.                                                    *)
LEMMA IInvStep == IInv /\ [Next]_vars => IInv'
<1> SUFFICES ASSUME IInv, [Next]_vars PROVE IInv'
  OBVIOUS
<1> USE DEF IInv
<1>1. Shape'
  BY ShapeStep
<1>6. Stopped' /\ Spared'
  BY StoppedStep, SparedStep
<1>2. Healthy' /\ KnowsIds' /\ found' \in BOOLEAN
  BY HealthyStep, KnowsIdsStep, FoundStep
<1>3. Own' /\ Named'
  BY OwnStep
<1>4. Keyed' /\ Clearing' /\ Undone' /\ Cleaning'
  BY KeyedStep, ClearingStep, UndoneStep, CleaningStep
<1>7. Placing' /\ Holding'
  BY PlacingStep, HoldingStep
<1>5. Reasons' /\ Imaging'
  BY ReasonsStep, ImagingStep
<1>8. Tagged' /\ Telling' /\ Testing'
  BY TaggedStep, TellingStep, TestingStep
<1> QED
  BY <1>1, <1>2, <1>3, <1>4, <1>5, <1>6, <1>7, <1>8

(* So it always holds.                                                     *)
LEMMA Invariant == Spec => []IInv
  BY IInvInit, IInvStep, PTL DEF Spec

(* ------------------------------- theorems ------------------------------- *)

LEMMA LeftByDetachOf ==
  /\ LeftByDetach("osk") = {"address"} /\ LeftByDetach("pcm") = {"ports"}
  /\ LeftByDetach("kub") = {"controller", "service"} /\ LeftByDetach("as") = {"address", "nic"}
  BY Zenon DEF LeftByDetach

(* A driver owns nothing but what is due and what it leaves.               *)
LEMMA DueIs == ASSUME NEW d \in DriverNames PROVE Owned(d) \subseteq Due(d) \cup LeftByDetach(d)
  BY LeftByDetachOf DEF Owned, Due, DriverNames

(* What still has the VM's name when all is over is what the driver made.  *)
LEMMA LeftoverIs ==
  ASSUME IInv, at \in VMPhases, NEW x \in Leftover
  PROVE  \/ x \in Owned(drv) /\ x \in things
         \/ x \in Capacity /\ drv = "sim" /\ held[x] \in Int /\ held[x] > 0
<1>1. CASE x \in things /\ x \notin {"volume of another", "image", "image name"}
  BY <1>1 DEF IInv, Own, Foreign
<1>2. CASE x \in Capacity /\ held[x] > 0
  <2>1. held[x] \in Int /\ (drv # "sim" => held[x] = 0)
    BY <1>2 DEF IInv, Holding
  <2> QED
    BY <1>2, <2>1
<1> QED
  BY <1>1, <1>2 DEF Leftover

(* A VMC that passed the test of its driver has what its VMs need, what    *)
(* NotTested lists apart: it was there, or has been supplied, whichever    *)
(* part of it was missing, when every call of the test was answered.       *)
THEOREM TestedIsSupplied == Spec => []TestMeansSupplied
<1>1. IInv => TestMeansSupplied
  BY Zenon DEF IInv, Testing, Needs, SecurityGroup, TestMeansSupplied
<1> QED
  BY <1>1, Invariant, PTL

(* A VM that objdetach has removed from the store has nothing left in the  *)
(* cloud, what LeftByDetach lists apart, for every driver, any number of   *)
(* failed calls before, and however often it was created, saved, captured  *)
(* or detached in vain.                                                    *)
THEOREM NothingIsLeft == Spec => []DetachedIsGone
<1>1. IInv => DetachedIsGone
  <2> SUFFICES ASSUME IInv, at = "gone", ~slipped, NEW x \in Leftover
               PROVE  x \in LeftByDetach(drv)
    BY DEF DetachedIsGone
  <2>1. at \in VMPhases
    BY DEF VMPhases, After
  <2>2. CASE x \in Owned(drv) /\ x \in things
    <3>1. x \notin Due(drv) \ LeftByDetach(drv)
      BY <2>2 DEF IInv, Clearing, Duty
    <3> QED
      BY <2>2, <3>1, DueIs DEF IInv, Shape
  <2>3. CASE x \in Capacity /\ drv = "sim" /\ held[x] \in Int /\ held[x] > 0
    <3>1. held[x] <= 0
      BY <2>3 DEF IInv, Holding
    <3> QED
      BY <2>3, <3>1
  <2> QED
    BY <2>1, <2>2, <2>3, LeftoverIs
<1> QED
  BY <1>1, Invariant, PTL

(* An attach that failed leaves nothing in the cloud, what LeftByUndo      *)
(* lists apart, whichever call of vmcreate failed and wherever the undo    *)
(* was started, when every call of the last undo was answered.             *)
THEOREM UndoneLeavesNothing == Spec => []UndoneIsGone
<1>1. IInv => UndoneIsGone
  <2> SUFFICES ASSUME IInv, at = "failed", ~slipped, NEW x \in Leftover
               PROVE  x \in LeftByUndo(drv)
    BY DEF UndoneIsGone
  <2>1. at \in VMPhases
    BY DEF VMPhases, After
  <2>2. x \notin things \cap Sure(drv)
    BY DEF IInv, Undone
  <2>3. x \in Capacity /\ drv = "sim" => held[x] <= 0
    BY DEF IInv, Holding
  <2>4. CASE x \in Owned(drv) /\ x \in things
    BY <2>2, <2>4 DEF Sure
  <2>5. CASE x \in Capacity /\ drv = "sim" /\ held[x] \in Int /\ held[x] > 0
    BY <2>3, <2>5
  <2> QED
    BY <2>1, <2>4, <2>5, LeftoverIs
<1> QED
  BY <1>1, Invariant, PTL

(* A cleanup finds by their names whatever a crash, an undo or a detach    *)
(* has left, what LeftByCleanup lists apart, and spares the volumes of     *)
(* others except on CloudStack.                                            *)
THEOREM CleanupsClean == Spec => []CleanedIsClean
<1>1. IInv => CleanedIsClean
  <2> SUFFICES ASSUME IInv, at = "cleaned", ~broken, ~slipped
               PROVE  /\ Leftover \subseteq LeftByCleanup(drv)
                      /\ drv # "csk" => Another \in things
    BY Zenon DEF CleanedIsClean, Another
  <2>1. at \in VMPhases
    BY DEF VMPhases, Ending
  <2>2. drv # "csk" => Another \in things
    BY <2>1 DEF IInv, Spared
  <2>3. ASSUME NEW x \in Leftover PROVE x \in LeftByCleanup(drv)
    <3>1. x \notin things \cap Swept(drv)
      BY DEF IInv, Cleaning
    <3>2. CASE x \in Owned(drv) /\ x \in things
      BY <3>1, <3>2 DEF Swept
    <3>3. CASE x \in Capacity /\ drv = "sim"
      <4>1. LeftByCleanup("sim") = Capacity
        BY Zenon DEF LeftByCleanup
      <4> QED
        BY <3>3, <4>1
    <3> QED
      BY <2>1, <2>3, <3>2, <3>3, LeftoverIs
  <2> QED
    BY <2>2, <2>3
<1> QED
  BY <1>1, Invariant, PTL

(* A detach fails only because a call failed or a wait timed out in it,    *)
(* except for the drivers that ask for what may have gone: an earlier      *)
(* detach, a capture or a lost answer is no reason.                        *)
THEOREM NoDetachFailsForNothing == Spec => DetachFailsForAReason
<1>1. IInv /\ [Next]_vars => [Detached /\ broken => slipped \/ drv \in {"plm", "ntnx"}]_vars
  BY DEF IInv, Reasons, Detached, Destroyed, Ended
<1> QED
  BY <1>1, Invariant, PTL DEF Spec, DetachFailsForAReason

(* A capture gives up the instance only once there is an image of it,      *)
(* except on Google's cloud and OpenStack.                                 *)
THEOREM OneIsAlwaysKept == Spec => CaptureKeepsOne
<1>1. IInv /\ [Next]_vars =>
        [at = "capturing" /\ drv \notin {"gce", "osk"} =>
           /\ "instance" \in things => "instance" \in things'
           /\ at' = "detaching" => "image" \in things]_vars
  BY KeepsOne DEF IInv
<1> QED
  BY <1>1, Invariant, PTL DEF Spec, CaptureKeepsOne

(* A vmrunstate that went well has told the instance, if it still exists,  *)
(* to stop or to start, for every driver that has something to tell: found *)
(* by a name or an id that is still right, EC2's tag included.             *)
THEOREM RunStatesAreTold == Spec => RunStateTold
<1>1. IInv /\ [Next]_vars =>
        [RunStateChanged /\ ~broken /\ ~slipped /\ "instance" \in things
           /\ drv \notin {"kub", "ntnx", "nop", "sim"} =>
              /\ state' \in {"fail", "save"} => power = "off"
              /\ state \in {"fail", "save"} /\ state' = "attached" => power = "on"]_vars
  <2> SUFFICES ASSUME IInv, RunStateChanged, ~broken, ~slipped, "instance" \in things,
                      drv \notin {"kub", "ntnx", "nop", "sim"}
               PROVE  /\ state' \in {"fail", "save"} => power = "off"
                      /\ state \in {"fail", "save"} /\ state' = "attached" => power = "on"
    OBVIOUS
  <2>1. at = "changing state" /\ todo = << >> /\ state' = target
    BY DEF RunStateChanged, Ended, Over
  <2>2. \A w : ~WillTurn(w, << >>, found)
    BY DEF WillTurn
  <2>3. Wants(target, state) # "any" => power = Wants(target, state)
    BY <2>1, <2>2 DEF IInv, Telling, Silent
  <2> QED
    BY <2>1, <2>3 DEF Wants
<1> QED
  BY <1>1, Invariant, PTL DEF Spec, RunStateTold

====
