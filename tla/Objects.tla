------------------------------ MODULE Objects ------------------------------
(***************************************************************************)
(* The object store's functions on objects (RedisMgdConn), as the round    *)
(* trips that each of them makes, in order.                                *)
(*                                                                         *)
(* An object is nothing but the keys that carry its uuid or its name: its  *)
(* entry in the list of its type, its hash, its entry in the set of names, *)
(* the pointer from its name, its entries in the views, its state.  Every  *)
(* one of these is written by a round trip of its own, and no function     *)
(* here is a transaction.  A program is the sequence of instructions of    *)
(* one function; Console.tla runs the programs of several commands side by *)
(* side.  Instructions:                                                    *)
(*                                                                         *)
(*   need o P    raise, unless the object is listed and has the pieces P   *)
(*   refuse o x  raise, if the object has the piece x                      *)
(*   add o x, drop o P, write o f v (an attribute of the hash), put o v    *)
(*               (the state), point n o, unpoint n (name to object)        *)
(*   if o x      go on with then, if the object has the piece x, with else *)
(*   follow n    read the pointer of a name; raise if there is none        *)
(*   count c d   INCR or DECR a counter; add up o f d: HINCRBY             *)
(*   copy o, paste o   read the attributes of the cloud, write them back   *)
(*                                                                         *)
(* "seen" is the object that the last lookup by name has found, "it" the   *)
(* object of the command; "its name", "its vmc" are attributes of it that  *)
(* the command has read.                                                   *)
(* The lists that nothing here reads (the types of tags and views, the     *)
(* FINISHEDTRACKING records, the lifetime key) are left out; a record of a *)
(* finished command has a key of its own, and of its creation only the     *)
(* call of signal_api_refresh is left.                                     *)
(***************************************************************************)
EXTENDS Sequences, Naturals

Cloud   == "cloud"
Globals == << "time", "defaults", "query" >>    \* three of the GLOBAL objects

Need(o, P)        == << [do |-> "need", on |-> o, has |-> P] >>
Refuse(o, x)      == << [do |-> "refuse", on |-> o, val |-> x] >>
Add(o, x)         == << [do |-> "add", on |-> o, val |-> x] >>
Drop(o, P)        == << [do |-> "drop", on |-> o, has |-> P] >>
Write(o, f, v)    == << [do |-> "write", on |-> o, field |-> f, val |-> v] >>
Put(o, v)         == << [do |-> "put", on |-> o, val |-> v] >>
Point(n, o)       == << [do |-> "point", on |-> n, val |-> o] >>
Follow(n)         == << [do |-> "follow", on |-> n] >>
If(o, x, th, el)  == << [do |-> "if", on |-> o, val |-> x, then |-> th, else |-> el] >>
Count(c, d)       == << [do |-> "count", counter |-> c, by |-> d] >>
AddUp(o, f, d)    == << [do |-> "add up", on |-> o, field |-> f, by |-> d] >>

Some  == {"attributes"}                     \* a hash with the first of its attributes
Whole == {"attributes", "all attributes"}   \* and with the last

(* get_object is object_exists and one HGETALL; whoever goes on to use an  *)
(* attribute that is not there yet raises as well.                         *)
get_object(o)   == Need(o, Some)
whole_object(o) == Need(o, Whole)

(* All the attributes of the cloud are read, and all are written back.     *)
copy_cloud          == << [do |-> "copy", on |-> Cloud, has |-> Some] >>
update_cloud(v)     == << [do |-> "paste", on |-> Cloud, val |-> v] >>
signal_api_refresh  == copy_cloud \o update_cloud("as read")

update_object_attribute(o, f, v) == Need(o, {}) \o Write(o, f, v)
increment_attribute(o, f, d)     == Need(o, {}) \o AddUp(o, f, d)
update_counter(type, c, d)       == Count(<< type, c >>, d)

set_object_state(o, v) == Put(o, v)
get_object_state(o)    == << [do |-> "state", on |-> o] >>

add_to_list(o, list)      == signal_api_refresh \o Add(o, list)
remove_from_list(o, list) == signal_api_refresh \o Drop(o, {list})

pending_object_set(o)     == signal_api_refresh \o Add(o, "pending status")
pending_object_attrs(o)   == signal_api_refresh \o Add(o, "pending attributes")
pending_object_remove(o)  == Drop(o, {"pending status"})

(* object_exists by name: the name is looked for among the tags, the       *)
(* pointer is followed, and the object it leads to must be in the list.    *)
Lost == << [do |-> "lost"] >>
object_exists(name) ==
    whole_object("query")
    \o If(name, "tag", Follow(name) \o If("seen", "list", << >>, Lost), Lost)

tag_object(name, o) ==
    Refuse(name, "tag") \o Add(name, "tag") \o Point(name, o)
    \o update_object_attribute(o, "name", name)

untag_object(name) ==
    If(name, "tag", Drop(name, {"tag"}) \o Point(name, "none"), << >>)

add_to_view(o)      == Add(o, "views")
remove_from_view(o) == Drop(o, {"views", "by aidrs"})

update_object_views(o, change) ==
    signal_api_refresh
    \o If(o, "list", whole_object("query") \o change, << >>)

(* The attributes are written one by one; v is that of the VMC of a host.  *)
create_attributes(o, v) ==
    update_object_attribute(o, "vmc", v) \o Need(o, {}) \o Add(o, "all attributes")
create_global(g) ==
    signal_api_refresh \o Add(g, "list") \o create_attributes(g, "none")
create_object(type, o, name, v) ==
    signal_api_refresh
    \o Refuse(o, "list") \o Add(o, "list")
    \o create_attributes(o, v)
    \o whole_object("query")
    \o tag_object(name, o) \o add_to_view(o)
    \o (IF type \in {"VMC", "HOST"} THEN Add(o, "RESERVATIONS") \o add_to_list(Cloud, "lists")
        ELSE << >>)
    \o set_object_state(o, "attached")

(* Mutant: the hash goes first, the entry in the list last.                *)
destroy_objectListLast(type, o, name) ==
    signal_api_refresh
    \o If(o, "list",
          Drop(o, Whole)
          \o whole_object("query") \o untag_object(name) \o whole_object("query")
          \o remove_from_view(o) \o Drop(o, {"RESERVATIONS"})
          \o set_object_state(o, "none") \o Drop(o, {"list"}), << >>)
destroy_global(g) ==
    signal_api_refresh \o If(g, "list", Drop(g, {"list"}) \o Drop(g, Whole), << >>)
destroy_object(type, o, name) ==
    signal_api_refresh
    \o If(o, "list",
          Drop(o, {"list"}) \o Drop(o, Whole)
          \o whole_object("query") \o untag_object(name) \o whole_object("query")
          \o remove_from_view(o) \o Drop(o, {"RESERVATIONS"})
          \o set_object_state(o, "none"), << >>)

(* A cloud that is attached already is only asked for its experiment.      *)
reset_counters(counters) ==
    [k \in 1..Len(counters) |-> [do |-> "zero", counter |-> counters[k]]]
initialize_object_store(counters) ==
    If(Cloud, "list", whole_object("time"),
       Add(Cloud, "list") \o update_cloud("false") \o Add(Cloud, "all attributes")
       \o Add(Cloud, "views")
       \o create_global(Globals[1]) \o create_global(Globals[2]) \o create_global(Globals[3])
       \o add_to_list(Cloud, "lists") \o reset_counters(counters))

(* Mutant: the GLOBAL objects are forgotten.                               *)
clean_object_storeGlobals(counters) ==
    whole_object("query") \o Drop(Cloud, {"list"}) \o Drop(Cloud, Whole)
    \o reset_counters(counters) \o Drop(Cloud, {"views"}) \o Drop(Cloud, {"lists"})
clean_object_store(counters) ==
    whole_object("query")
    \o destroy_global(Globals[1]) \o destroy_global(Globals[2]) \o destroy_global(Globals[3])
    \o Drop(Cloud, {"list"}) \o Drop(Cloud, Whole)
    \o reset_counters(counters)
    \o Drop(Cloud, {"views"}) \o Drop(Cloud, {"lists"})
=============================================================================
