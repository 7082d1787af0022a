------------------------------ MODULE JsonTree ------------------------------
(***************************************************************************)
(* The wrappers around a JSON library (lib/core/json_cjson.c, and          *)
(* json_yyjson.c, which does the same with another library but for the     *)
(* conversion of numbers and for what it takes to follow the last element  *)
(* of an array).  A wrapper has the value it stands for and at most one    *)
(* child, the wrapper returned by the last look into it; a new look        *)
(* deletes that child with all behind it.  A value is the path that leads  *)
(* to it: a sequence of keys.                                              *)
(***************************************************************************)
EXTENDS Heap, Integers

VARIABLES
  doc,    \* the document: its paths (nodes), those of strings, and so on
  json    \* every wrapper made for it: its value and its child

jvars == <<doc, json>>

NoWrapper == 0       \* a null pointer
NoDoc == [parses |-> FALSE]
Garbage == NoDoc     \* a body that is not JSON

JsonInit == doc = NoDoc /\ json = <<>>

Wrapper(w) == <<"json", w>>   \* its block
Tree == <<"document">>        \* what the library allocated

(* The wrappers behind w, w included, as the recursion of delete meets them. *)
Chain(w) ==
  LET from[v \in 0 .. Len(json)] ==
        IF v = NoWrapper THEN {} ELSE {v} \cup from[json[v].child]
  IN from[w]
Blocks(ws) == {Wrapper(w) : w \in ws}

(* What reading through w does wrong. *)
Through(w) ==
  IF w # NoWrapper /\ Wrapper(w) \notin blocks THEN {"used after free"} ELSE {}

-----------------------------------------------------------------------------
(* parse: r is its result, w the wrapper it returns. *)
revoltc_json_parse(body, r, w) ==
  \/ /\ r = "NOMEM" /\ w = NoWrapper
     /\ Memory({}, {}, 1, {}) /\ UNCHANGED jvars
  \/ /\ r = "PARSE" /\ w = NoWrapper
     /\ \/ ~body.parses /\ Memory({}, {}, 0, {})
        \/ body.parses /\ Memory({}, {}, 1, {})
     /\ UNCHANGED jvars
  \/ /\ r = "OK" /\ w = 1 /\ body.parses
     /\ doc' = body
     /\ json' = << [val |-> <<>>, child |-> NoWrapper] >>
     /\ Memory({Wrapper(1), Tree}, {}, 0, {})

(* delete, of the root: the library's values go with it. *)
revoltc_json_delete(w) ==
  /\ Memory({}, Blocks(Chain(w)) \cup {Tree}, 0, Through(w))
  /\ doc' = NoDoc /\ json' = <<>>

(* Faulty: the new wrapper is put in front of the old ones. *)
KeepsChildren(w, found, v, c) ==
  \/ w = NoWrapper /\ c = NoWrapper /\ Memory({}, {}, 0, {}) /\ UNCHANGED jvars
  \/ /\ w # NoWrapper /\ ~found /\ c = NoWrapper
     /\ Memory({}, {}, 0, Through(w)) /\ UNCHANGED jvars
  \/ /\ w # NoWrapper /\ found /\ c = Len(json) + 1
     /\ json' = Append([json EXCEPT ![w].child = c], [val |-> v, child |-> json[w].child])
     /\ Memory({Wrapper(c)}, {}, 0, Through(w)) /\ UNCHANGED doc

(* Faulty: keeps the pointer to the deleted child when it finds nothing. *)
ChildNotReset(w, found, v, c) ==
  \/ w = NoWrapper /\ c = NoWrapper /\ Memory({}, {}, 0, {}) /\ UNCHANGED jvars
  \/ /\ w # NoWrapper
     /\ LET old == Blocks(Chain(json[w].child)) IN
        \/ /\ found /\ c = Len(json) + 1
           /\ json' = Append([json EXCEPT ![w].child = c], [val |-> v, child |-> NoWrapper])
           /\ Memory({Wrapper(c)}, old, 0, Through(w))
        \/ /\ c = NoWrapper /\ UNCHANGED json
           /\ Memory({}, old, IF found THEN 1 ELSE 0, Through(w))
     /\ UNCHANGED doc

(* child: w gets the wrapper c for the value v, if one was found. *)
revoltc_json_child(w, found, v, c) ==
  \/ w = NoWrapper /\ c = NoWrapper /\ Memory({}, {}, 0, {}) /\ UNCHANGED jvars
  \/ /\ w # NoWrapper
     /\ LET old == Blocks(Chain(json[w].child)) IN
        \/ /\ found /\ c = Len(json) + 1
           /\ json' = Append([json EXCEPT ![w].child = c], [val |-> v, child |-> NoWrapper])
           /\ Memory({Wrapper(c)}, old, 0, Through(w))
        \/ /\ c = NoWrapper
           /\ json' = [json EXCEPT ![w].child = NoWrapper]
           /\ Memory({}, old, IF found THEN 1 ELSE 0, Through(w))
     /\ UNCHANGED doc

At(w, key) == IF w = NoWrapper THEN <<>> ELSE json[w].val \o key

revoltc_json_get_obj(w, key, c) ==
  revoltc_json_child(w, At(w, key) \in doc.nodes, At(w, key), c)

(* get_arr returns a: nothing, if there is a child but not of an array. *)
IsArray(path) == path \in DOMAIN doc.arrays
revoltc_json_get_arr(w, key, a) ==
  \E c \in {NoWrapper, Len(json) + 1} :
    /\ revoltc_json_get_obj(w, key, c)
    /\ a = IF IsArray(At(w, key)) THEN c ELSE NoWrapper

revoltc_json_arr_size(a) == Len(doc.arrays[json[a].val])

Element(array, i) ==
  IF i \in DOMAIN doc.arrays[array] THEN array \o << doc.arrays[array][i] >> ELSE <<>>

(* Indices count from 1 here, from 0 in the code. *)
revoltc_json_arr_get(a, i, c) ==
  LET v == Element(json[a].val, i) IN revoltc_json_child(a, v # <<>>, v, c)

(* The element behind w's in its array. *)
Following(w) ==
  LET v == json[w].val
      array == SubSeq(v, 1, Len(v) - 1)
      i == CHOOSE n \in DOMAIN doc.arrays[array] : doc.arrays[array][n] = v[Len(v)]
  IN Element(array, i + 1)

revoltc_json_unsafe_next(w, c) ==
  IF w = NoWrapper THEN revoltc_json_child(w, FALSE, <<>>, c)
  ELSE revoltc_json_child(w, Following(w) # <<>>, Following(w), c)

-----------------------------------------------------------------------------
(* The strings among the keys that w has, by field; each is copied. *)
Copyable(w, keys) ==
  {f \in DOMAIN keys : w # NoWrapper /\ At(w, keys[f]) \in DOMAIN doc.strings}

(* get_strn for each of keys, into the fields of obj, of which some copies   *)
(* may fail: what the fields are then.                                       *)
Copy(obj, w, key) == Fresh(<<Head(obj)>> \o At(w, key))
Copied(old, obj, w, keys, lost) ==
  [f \in DOMAIN old |->
    IF f \notin DOMAIN keys THEN old[f]
    ELSE IF f \in Copyable(w, keys) \ lost THEN Copy(obj, w, keys[f])
    ELSE NULL]
Copies(obj, w, keys, lost) ==
  {Copy(obj, w, keys[f]) : f \in Copyable(w, keys) \ lost}

(* What a caller learns from a string it copies and frees again; NoName if   *)
(* there is none, or no memory for it.                                       *)
NoName == "none"
NameAt(w, key) ==
  IF w # NoWrapper /\ At(w, key) \in DOMAIN doc.strings THEN doc.strings[At(w, key)] ELSE NoName

CONSTANT MaxI64       \* INT64_MAX; as a double it is the next number, MaxI64 + 1

ASSUME MaxI64Assumption == MaxI64 \in Nat

(* get_i64: what it may return.  The conversion of a double out of range is  *)
(* undefined.                                                                *)
I64 == -MaxI64 - 1 .. MaxI64
revoltc_json_get_i64(w, key) ==
  IF w = NoWrapper \/ At(w, key) \notin DOMAIN doc.numbers THEN {0}
  ELSE LET value == doc.numbers[At(w, key)]
       IN IF value < -MaxI64 - 1 \/ value > MaxI64 + 1 THEN {0}
          ELSE IF value \in I64 THEN {value} ELSE I64
=============================================================================
