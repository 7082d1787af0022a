----------------------------- MODULE FetchProofs -----------------------------
(***************************************************************************)
(* What is proved of Fetch, for every document and any number of failures. *)
(* The invariant FetchInv is a conjunction of what the steps rely on: the  *)
(* place in the code (PlaceInv), the document (DocInv), the names of what  *)
(* fields hold (FieldInv), which fields are still empty (UnsetInv), the    *)
(* line of wrappers (WrapperInv), that what is used is allocated (LiveInv),*)
(* that what is allocated belongs to someone or is lost in a known way     *)
(* (AccountInv) and that parsed objects are written (WrittenInv).  There   *)
(* is one lemma per conjunct, ending in Step.  From FetchInv follow the    *)
(* memory invariants of FetchProps and, with what each look does to the    *)
(* line of wrappers (LineCut), that Fetch implements Cursor.               *)
(***************************************************************************)
EXTENDS FetchProps, TLAPS, WellFoundedInduction, SequenceTheorems

(* The words that paths are made of: those the code asks for, and the names  *)
(* of the elements of arrays.                                                *)
Literals ==
  {"user", "channel", "again", "_id", "username", "discriminator", "display_name", "status",
   "text", "bot", "owner", "tag", "filename", "content_type", "message_id", "user_id",
   "server_id", "object_id", "last_message_id", "name", "description", "server", "avatar",
   "icon", "metadata", "relations"}
Parsed == {b \in UNION {Documents[k] : k \in Kinds} : b.parses}
ElementsOf(b) == UNION {{b.arrays[a][i] : i \in DOMAIN b.arrays[a]} : a \in DOMAIN b.arrays}
Words == Literals \cup UNION {ElementsOf(b) : b \in Parsed}

(* Where the application is while it reads a document, and in a fetch.       *)
UserPlaces == {"user", "avatar", "status", "presence", "relations", "allocate", "first",
               "relation", "relation status", "next", "relationship", "bot"}
ChannelPlaces == {"channel", "strings", "icon", "channel end", "voice end"}
FilePlaces == {"file", "metadata", "metadata type", "file end"}
OpenPlaces == UserPlaces \cup ChannelPlaces \cup FilePlaces \cup {"leave"}
EarlyPlaces == {"request", "receive", "aborted", "deserialize"}
CallPlaces == EarlyPlaces \cup OpenPlaces \cup {"cleanup"}
LastPlaces == {"delete user", "delete channel", "exit"}

PlaceInv ==
  /\ kind \in Kinds
  /\ at \in {"init", "fetch", "end"} \cup CallPlaces \cup LastPlaces
  /\ at \in UserPlaces => kind = "user"
  /\ at \in ChannelPlaces \cup LastPlaces => kind = "channel"
  /\ root = IF at \in OpenPlaces THEN 1 ELSE NoWrapper
  /\ DOMAIN object = Kinds /\ \A k \in Kinds : object[k] \in {NULL, <<k>>}
  /\ DOMAIN err = Kinds
  /\ kind = "user" => object["channel"] = NULL /\ err["channel"] = "NONE"
  /\ at = "init" => kind = "user"
  /\ at \in {"init", "fetch"} => object[kind] = NULL /\ err[kind] = "NONE"
  /\ at \in CallPlaces => object[kind] = <<kind>>
  /\ at \in EarlyPlaces => err[kind] = "NONE"
  /\ at \in OpenPlaces \ {"leave"} => err[kind] = "OK"
  /\ resp \in [{"header", "body"} -> Nat]
  /\ at \notin CallPlaces \ {"request"} => resp = NothingReceived

(* The document and how far its relations have been read.                    *)
BeforeRelations == {"init", "fetch", "user", "avatar", "status", "presence", "relations", "allocate", "first"}
InRelations == {"relation", "relation status", "next"}
DocInv ==
  /\ at = "deserialize" => body \in Documents[kind] \cup {NoBody}
  /\ at \in OpenPlaces => doc.parses /\ \E k \in Kinds : doc \in Documents[k]
  /\ count \in 0 .. MostRelations
  /\ at \in {"allocate", "first"} \cup InRelations => IsArray(<<"relations">>)
  /\ kind = "user" /\ at \in BeforeRelations \cup EarlyPlaces \cup FilePlaces => count = 0
  /\ at = "relation" => count <= max
  /\ at \in {"relation status", "next"} => count < max

(* What the fields of an object hold: blocks named after it, or nothing that *)
(* is there.                                                                 *)
Owner(k, b) ==
  /\ b \in Seq(Words) /\ b[1] = k /\ Len(b) >= 2
  /\ Len(b) = 2 => b[2] \notin {"path", "header", "body"}
Nowhere == {NULL, WILD}

FieldInv ==
  /\ DOMAIN field = DOMAIN Parts
  /\ \A p \in DOMAIN Parts :
       /\ DOMAIN field[p] = Parts[p]
       /\ \A f \in Parts[p] : field[p][f] \in Nowhere \/ Owner(p[1], field[p][f])

(* What no field of a part but these holds. *)
Only(p, fs) == \A f \in Parts[p] \ fs : field[p][f] \in Nowhere
Empty(p, fs) == \A f \in fs : field[p][f] = NULL
Icon == <<"channel", "icon">>
WithIcon == {"GROUP", "TEXT", "VOICE"}
(* The relations that something has been read into. *)
Filled == IF at \in {"relation status", "next"} THEN count + 1 ELSE count

(* Which fields the object can have at all, by its type; the cleanup relies  *)
(* on it.                                                                    *)
UserFields == DOMAIN UserKeys \cup {"text", "relations", "owner_id"}
ShapeInv ==
  /\ DOMAIN value = Values
  /\ Only(User, UserFields)
  /\ Only(Channel, DOMAIN ChannelKeys(type))
  /\ type \notin WithIcon => Only(Icon, {})

(* What a channel's type has become when its icon or its end is read.        *)
IconPlaces == {"icon", "channel end"}
TypeInv ==
  /\ at = "strings" => type \in {"SM", "DM"} \cup WithIcon
  /\ at \in IconPlaces \/ (at \in FilePlaces /\ kind = "channel") => type \in WithIcon
  /\ at = "voice end" => type = "VOICE"
  /\ at \in IconPlaces \cup {"voice end"} \/ (at \in FilePlaces /\ kind = "channel") =>
       field[Channel].id \in {NULL, <<"channel", "_id">>}

(* Fields are empty before they are read: nothing is overwritten.            *)
EmptyInv ==
  /\ at = "strings" => Empty(Channel, Parts[Channel])
  /\ at \in {"avatar", "strings", "icon", "file"} => Empty(File, Parts[File])
  /\ at \in {"metadata", "metadata type", "file end"} => Empty(File, DOMAIN FileEndKeys)
  /\ kind = "user" /\ at \in {"avatar", "status"} \cup FilePlaces => field[User].text = NULL
  /\ kind = "user" /\ at \in {"avatar", "status", "presence", "relations", "allocate"} \cup FilePlaces =>
       field[User].relations = NULL
  /\ at \in EarlyPlaces \cup Kinds => \A p \in PartsOf(kind) : Only(p, {})
  /\ kind = "user" /\ at \in OpenPlaces \ {"user", "leave"} => field[User].owner_id = NULL
  /\ \A i \in 1 .. MostRelations : i > Filled => Empty(Relation(i), Parts[Relation(i)])
  /\ \A k \in Kinds : object[k] = NULL => \A p \in PartsOf(k) : Empty(p, Parts[p])

UnsetInv == ShapeInv /\ TypeInv /\ EmptyInv

(* The wrappers in use are the root and what is behind it, in the order in   *)
(* which they were made; each has the next one as its child.                 *)
InUse == {w \in DOMAIN json : Wrapper(w) \in blocks}
Linked ==
  \A w \in InUse :
    /\ json[w].child # NoWrapper => json[w].child \in InUse
    /\ \A v \in InUse : w < v => json[w].child # NoWrapper /\ json[w].child <= v
JsonType ==
  /\ json \in Seq([val : Seq(Words), child : Nat])
  /\ \A w \in DOMAIN json : json[w].child \in {NoWrapper} \cup (w + 1 .. Len(json))
WrapperInv ==
  /\ JsonType
  /\ Linked
  /\ at \in OpenPlaces => 1 \in InUse /\ json[1].val = <<>>
  /\ at \in FilePlaces => file \in InUse \cup {NoWrapper}
  /\ at \in {"metadata", "metadata type", "file end"} => file # NoWrapper
  /\ at \in {"metadata type", "allocate", "first"} \cup InRelations =>
       buf \in InUse \cup {NoWrapper}
  /\ at \in {"allocate", "first"} => buf # NoWrapper /\ json[buf].val = <<"relations">>
  /\ at \in InRelations /\ buf # NoWrapper =>
       /\ count < max
       /\ json[buf].val = <<"relations", doc.arrays[<<"relations">>][count + 1]>>

(* An object that was returned and is not deleted yet, and its strings.      *)
Alive(k) ==
  object[k] # NULL /\ at \notin {"exit", "end"} /\ (k = "user" => at # "delete channel")
Held(k) == {b \in UNION {{field[p][f] : f \in Parts[p]} : p \in PartsOf(k)} : b \notin Nowhere}

(* What is used is allocated.                                                *)
LiveInv ==
  /\ at \notin {"init", "end"} => ClientBlocks \subseteq blocks
  /\ at \in CallPlaces => <<kind, "path">> \in blocks
  /\ at \in {"receive", "aborted"} => RequestBlocks \subseteq blocks
  /\ \A p \in DOMAIN resp : resp[p] > 0 => <<kind, p>> \in blocks
  /\ at \in OpenPlaces => Tree \in blocks
  /\ \A k \in Kinds : Alive(k) => <<k>> \in blocks /\ Held(k) \subseteq blocks

(* What is allocated belongs to someone, or the code has forgotten it.       *)
Given(b) ==
  \/ at \notin {"init", "end"} /\ b \in ClientBlocks
  \/ at \in CallPlaces /\ b = <<kind, "path">>
  \/ at \in {"receive", "aborted"} /\ b \in RequestBlocks
  \/ \E p \in DOMAIN resp : resp[p] > 0 /\ b = <<kind, p>>
  \/ at \in OpenPlaces /\ (b = Tree \/ \E w \in DOMAIN json : b = Wrapper(w))
  \/ \E k \in Kinds : Alive(k) /\ b \in {<<k>>} \cup Held(k)
Lost(b) ==
  \/ \E k \in Kinds : err[k] = "NOMEM" /\ object[k] = NULL /\ b = <<k>>
  \/ \E k \in Kinds : err[k] = "CURL" /\ b \in {<<k, "header">>, <<k, "body">>}
  \/ /\ kind = "channel" /\ at \in {"leave", "cleanup", "end"} \cup LastPlaces
     /\ type = "VOICE" /\ b = <<"channel", "_id">>
  \/ at \in {"exit", "end"} /\ ~clean /\ b \in Owned(Icon, Parts[Icon])
AccountInv == \A b \in blocks : Given(b) \/ Lost(b)

(* Objects whose document was parsed have been written.                      *)
WrittenInv ==
  /\ root # NoWrapper /\ at # kind => Written(kind)
  /\ \A k \in Kinds : object[k] # NULL /\ err[k] = "OK" /\ at # k => Written(k)
  /\ \A k \in Kinds : object[k] = NULL => Written(k)

(* The invariant, while the application runs and when it has crashed.        *)
Core ==
  /\ PlaceInv /\ DocInv /\ FieldInv /\ UnsetInv /\ WrapperInv /\ LiveInv /\ AccountInv
  /\ WrittenInv /\ misuse = {}
Stopped ==
  /\ misuse \in {{"null"}, {"wild"}}
  /\ root # NoWrapper => at # kind /\ Written(kind)
  /\ \A k \in Kinds : object[k] # NULL /\ err[k] = "OK" => Written(k)
  /\ "wild" \in misuse => \E k \in Kinds : err[k] # "OK" /\ ~Written(k)
FetchInv == IF at = "crashed" THEN Stopped ELSE Core

-----------------------------------------------------------------------------
(* A non-empty set of natural numbers has a least element.                   *)
LEMMA LeastOf ==
  ASSUME NEW S \in SUBSET Nat, S # {}
  PROVE  \E m \in S : \A n \in S : m <= n
<1> DEFINE R == {p \in Nat \X Nat : p[1] < p[2]}
<1>1. IsWellFoundedOn(R, Nat)
  BY NatLessThanWellFounded DEF OpToRel
<1> HIDE DEF R
<1>2. PICK m \in S : \A n \in S : ~(<<n, m>> \in R)
  BY <1>1, WFMin
<1>3. ASSUME NEW n \in S PROVE m <= n
  <2>1. n < m => <<n, m>> \in R BY DEF R
  <2> QED BY <1>2, <2>1
<1> QED BY <1>3

(* Children of wrappers are younger wrappers.                                *)
LEMMA JsonBasics ==
  ASSUME JsonType
  PROVE  /\ Len(json) \in Nat /\ DOMAIN json = 1 .. Len(json)
         /\ \A w \in 1 .. Len(json) :
              /\ json[w].val \in Seq(Words)
              /\ json[w].child \in {0} \cup (w + 1 .. Len(json))
<1>1. Len(json) \in Nat /\ DOMAIN json = 1 .. Len(json)
  BY LenProperties DEF JsonType
<1>2. ASSUME NEW w \in 1 .. Len(json) PROVE json[w] \in [val : Seq(Words), child : Nat]
  BY ElementOfSeq DEF JsonType
<1> QED BY <1>1, <1>2 DEF JsonType, NoWrapper

(* What two recursions along the children build up, Chain and Line.          *)
NoMoreBehind == [chain |-> {}, line |-> <<>>]
Onward(v, rest) == [chain |-> {v} \cup rest.chain, line |-> <<json[v].val>> \o rest.line]
ChainOn(n, f) ==
  \A v \in {NoWrapper} \cup (Len(json) - n + 1 .. Len(json)) :
    f[v] = IF v = NoWrapper THEN NoMoreBehind ELSE Onward(v, f[json[v].child])
SomeChain(n) == \E f : ChainOn(n, f)

(* The recursions can be followed one wrapper further back.                  *)
LEMMA ChainStep ==
  ASSUME JsonType, NEW n \in Nat, n < Len(json), SomeChain(n)
  PROVE  SomeChain(n + 1)
<1> DEFINE low == Len(json) - n
           D == {NoWrapper} \cup (low .. Len(json))
<1>1. PICK f : ChainOn(n, f)
  BY DEF SomeChain
<1> DEFINE g == [v \in D |-> IF v = low THEN Onward(v, f[json[v].child]) ELSE f[v]]
<1>a. Len(json) \in Nat /\ DOMAIN json = 1 .. Len(json)
  BY JsonBasics
<1>2. /\ low \in 1 .. Len(json) /\ low \in DOMAIN json /\ Len(json) \in Nat
      /\ low \in D /\ NoWrapper \in D
  <2>1. low \in 1 .. Len(json) BY <1>a
  <2>2. low \in DOMAIN json
    <3> HIDE DEF low
    <3> QED BY <1>a, <2>1
  <2>3. low <= Len(json) /\ low \in Int BY <1>a
  <2>4. low \in D /\ NoWrapper \in D
    <3> HIDE DEF low
    <3> QED BY <1>a, <2>3 DEF NoWrapper
  <2> QED BY <1>a, <2>1, <2>2, <2>4
<1>3. ASSUME NEW v \in D, v # NoWrapper
      PROVE  v \in DOMAIN json /\ json[v].child \in D \ {low} /\ v >= low
  <2>1. v \in 1 .. Len(json) /\ v >= low
    BY <1>2, <1>3
  <2>2. json[v].child \in {0} \cup (v + 1 .. Len(json))
    BY <2>1, JsonBasics
  <2> QED BY <2>1, <2>2, <1>2 DEF NoWrapper
<1>4. ASSUME NEW v \in D 
      PROVE  g[v] = IF v = NoWrapper THEN NoMoreBehind ELSE Onward(v, g[json[v].child])
  <2>1. CASE v = NoWrapper
    <3>1. g[v] = f[v] BY <1>2, <2>1 DEF NoWrapper
    <3> QED BY <3>1, <2>1, <1>1 DEF ChainOn
  <2>2. CASE v = low
    BY <1>2, <1>3, <2>2 DEF NoWrapper
  <2>3. CASE v # low /\ v # NoWrapper
    <3>1. v \in Len(json) - n + 1 .. Len(json) BY <1>2, <2>3
    <3>2. f[v] = Onward(v, f[json[v].child]) BY <3>1, <2>3, <1>1 DEF ChainOn
    <3> QED BY <3>2, <1>3, <2>3
  <2> QED BY <2>1, <2>2, <2>3
<1>5. {NoWrapper} \cup (Len(json) - (n + 1) + 1 .. Len(json)) = D
  BY <1>2
<1>6. ChainOn(n + 1, g)
  <2> HIDE DEF g, D
  <2> QED BY <1>4, <1>5 DEF ChainOn
<1> QED BY <1>6 DEF SomeChain

LEMMA ChainExists ==
  ASSUME JsonType PROVE SomeChain(Len(json))
<1> DEFINE Bad == {n \in 0 .. Len(json) : ~SomeChain(n)}
<1>1. SUFFICES ASSUME Bad # {} PROVE FALSE
  BY JsonBasics DEF JsonType
<1>2. Bad \subseteq Nat
  OBVIOUS
<1>3. PICK n \in Bad : \A m \in Bad : n <= m
  BY <1>1, <1>2, LeastOf
<1>4. n # 0
  <2>1. ChainOn(0, [v \in {NoWrapper} |-> NoMoreBehind])
    BY DEF ChainOn, JsonType, NoWrapper
  <2> QED BY <2>1 DEF SomeChain
<1>5. n - 1 \in 0 .. Len(json) /\ n - 1 < Len(json) /\ n - 1 \in Nat
  BY <1>4, JsonBasics
<1>6. SomeChain(n - 1)
  BY <1>3, <1>5
<1>7. SomeChain((n - 1) + 1)
  BY <1>5, <1>6, ChainStep
<1> QED BY <1>5, <1>7

(* What they build up for each wrapper.                                      *)
LEMMA BehindIs ==
  ASSUME JsonType
  PROVE  \E f : \A v \in 0 .. Len(json) :
            f[v] = IF v = NoWrapper THEN NoMoreBehind ELSE Onward(v, f[json[v].child])
<1>1. PICK f : ChainOn(Len(json), f)
  BY ChainExists DEF SomeChain
<1>2. Len(json) \in Nat BY JsonBasics
<1>3. 0 .. Len(json) = {NoWrapper} \cup (Len(json) - Len(json) + 1 .. Len(json))
  BY <1>2 DEF NoWrapper
<1> QED BY <1>1, <1>3 DEF ChainOn

(* What the deletion of w meets: w, and what the deletion of its child       *)
(* meets.                                                                    *)
LEMMA ChainIs ==
  ASSUME JsonType, NEW w \in 0 .. Len(json)
  PROVE  Chain(w) = IF w = NoWrapper THEN {} ELSE {w} \cup Chain(json[w].child)
<1> DEFINE D == 0 .. Len(json)
           Eq(f) == f = [v \in D |-> IF v = NoWrapper THEN {} ELSE {v} \cup f[json[v].child]]
           from == CHOOSE f : Eq(f)
<1>1. PICK f : \A v \in D :
        f[v] = IF v = NoWrapper THEN NoMoreBehind ELSE Onward(v, f[json[v].child])
  BY BehindIs
<1> DEFINE g == [v \in D |-> f[v].chain]
<1>2. \A v \in D : v # NoWrapper => json[v].child \in D
  BY JsonBasics DEF NoWrapper
<1>3. ASSUME NEW v \in D
      PROVE  f[v].chain = IF v = NoWrapper THEN {} ELSE {v} \cup f[json[v].child].chain
  <2>1. f[v] = IF v = NoWrapper THEN NoMoreBehind ELSE Onward(v, f[json[v].child]) BY <1>1
  <2>2. NoMoreBehind.chain = {} BY DEF NoMoreBehind
  <2>3. Onward(v, f[json[v].child]).chain = {v} \cup f[json[v].child].chain BY DEF Onward
  <2> QED BY <2>1, <2>2, <2>3
<1>4. Eq(g)
  BY <1>2, <1>3
<1>5. Eq(from)
  <2> HIDE DEF g, Eq
  <2> QED BY <1>4
<1>6. \A u \in D : Chain(u) = from[u]
  BY DEF Chain
<1>7. from[w] = IF w = NoWrapper THEN {} ELSE {w} \cup from[json[w].child]
  <2> HIDE DEF from
  <2> QED BY <1>5
<1>8. w # NoWrapper => json[w].child \in D
  BY <1>2
<1> HIDE DEF from, D
<1> QED BY <1>6, <1>7, <1>8 DEF D

(* The values on the way from w: its own, and those from its child.          *)
LEMMA LineIs ==
  ASSUME JsonType, NEW w \in 0 .. Len(json)
  PROVE  Line(w) = IF w = NoWrapper THEN <<>> ELSE <<json[w].val>> \o Line(json[w].child)
<1> DEFINE D == 0 .. Len(json)
           Eq(f) == f = [v \in D |-> IF v = NoWrapper THEN <<>> ELSE <<json[v].val>> \o f[json[v].child]]
           from == CHOOSE f : Eq(f)
<1>1. PICK f : \A v \in D :
        f[v] = IF v = NoWrapper THEN NoMoreBehind ELSE Onward(v, f[json[v].child])
  BY BehindIs
<1> DEFINE g == [v \in D |-> f[v].line]
<1>2. \A v \in D : v # NoWrapper => json[v].child \in D
  BY JsonBasics DEF NoWrapper
<1>3. ASSUME NEW v \in D
      PROVE  f[v].line = IF v = NoWrapper THEN <<>> ELSE <<json[v].val>> \o f[json[v].child].line
  <2>1. f[v] = IF v = NoWrapper THEN NoMoreBehind ELSE Onward(v, f[json[v].child]) BY <1>1
  <2>2. NoMoreBehind.line = <<>> BY DEF NoMoreBehind
  <2>3. Onward(v, f[json[v].child]).line = <<json[v].val>> \o f[json[v].child].line BY DEF Onward
  <2> QED BY <2>1, <2>2, <2>3
<1>4. Eq(g)
  BY <1>2, <1>3
<1>5. Eq(from)
  <2> HIDE DEF g, Eq
  <2> QED BY <1>4
<1>6. \A u \in D : Line(u) = from[u]
  BY DEF Line
<1>7. from[w] = IF w = NoWrapper THEN <<>> ELSE <<json[w].val>> \o from[json[w].child]
  <2> HIDE DEF from
  <2> QED BY <1>5
<1>8. w # NoWrapper => json[w].child \in D
  BY <1>2
<1> HIDE DEF from, D
<1> QED BY <1>6, <1>7, <1>8 DEF D

From(w) == {v \in InUse : w <= v}

(* A wrapper in use is one that was made, and so is its child.               *)
LEMMA InUseTyped ==
  ASSUME JsonType, NEW w \in InUse
  PROVE  /\ w \in 1 .. Len(json) /\ w \in DOMAIN json /\ w \in Nat /\ w # NoWrapper
         /\ json[w].child \in 0 .. Len(json)
         /\ json[w].child # NoWrapper => w < json[w].child
<1>1. w \in DOMAIN json BY DEF InUse
<1>2. w \in 1 .. Len(json) BY <1>1, JsonBasics
<1>3. json[w].child \in {0} \cup (w + 1 .. Len(json)) BY <1>2, JsonBasics
<1> QED BY <1>1, <1>2, <1>3, JsonBasics DEF NoWrapper

(* Behind a wrapper in use are those made after it that still are.           *)
LEMMA ChainInUse ==
  ASSUME JsonType, Linked, NEW w \in InUse
  PROVE  Chain(w) = From(w)
<1> DEFINE Bad == {u \in InUse : Chain(u) # From(u)}
           Far == {Len(json) - u : u \in Bad}
<1>0. Len(json) \in Nat BY JsonBasics
<1>1. SUFFICES ASSUME Bad # {} PROVE FALSE
  OBVIOUS
<1>2. Far \subseteq Nat /\ Far # {}
  <2>1. \A u \in Bad : u \in 1 .. Len(json) BY InUseTyped
  <2> QED BY <1>0, <1>1, <2>1
<1>3. PICK n \in Far : \A m \in Far : n <= m
  <2> HIDE DEF Far
  <2> QED BY <1>2, LeastOf
<1>4. PICK u \in Bad : n = Len(json) - u
  OBVIOUS
<1>5. /\ u \in InUse /\ u \in 1 .. Len(json) /\ u # NoWrapper
      /\ json[u].child \in 0 .. Len(json)
      /\ json[u].child # NoWrapper => u < json[u].child
  BY InUseTyped
<1>6. Chain(u) = {u} \cup Chain(json[u].child)
  <2>1. u \in 0 .. Len(json) BY <1>5, <1>0
  <2> QED BY <1>5, <2>1, ChainIs
<1>7. CASE json[u].child = NoWrapper
  <2>1. Chain(json[u].child) = {}
    <3>1. 0 \in 0 .. Len(json) BY <1>0
    <3> QED BY <3>1, <1>7, ChainIs DEF NoWrapper
  <2>2. From(u) = {u}
    <3>1. \A v \in InUse : ~(u < v) BY <1>5, <1>7 DEF Linked
    <3>2. \A v \in InUse : v \in Nat BY InUseTyped
    <3>3. u \in InUse /\ u \in Nat BY <1>5, <3>2
    <3>4. ASSUME NEW v \in InUse, u <= v PROVE v = u
      <4>1. v \in Nat /\ ~(u < v) BY <3>1, <3>2
      <4> HIDE DEF Bad
      <4> QED BY <4>1, <3>3, <3>4
    <3>5. u <= u BY <3>3
    <3> HIDE DEF Bad
    <3> QED BY <3>3, <3>4, <3>5 DEF From
  <2> QED BY <1>4, <1>6, <2>1, <2>2
<1>8. CASE json[u].child # NoWrapper
  <2> DEFINE c == json[u].child
  <2>1. c \in InUse /\ u < c /\ \A v \in InUse : u < v => c <= v
    BY <1>5, <1>8 DEF Linked
  <2>2. Chain(c) = From(c)
    <3>1. c \in 1 .. Len(json) BY <2>1, InUseTyped
    <3>2. ~(n <= Len(json) - c) BY <3>1, <2>1, <1>4, <1>5, <1>0
    <3> QED BY <3>2, <2>1, <1>3
  <2>3. From(u) = {u} \cup From(c)
    <3>1. \A v \in InUse : v \in Nat BY InUseTyped
    <3> HIDE DEF c
    <3> QED BY <2>1, <3>1, <1>5 DEF From
  <2> QED BY <1>4, <1>6, <2>2, <2>3
<1> QED BY <1>7, <1>8

(* What a look into w deletes: the wrappers in use that were made after w.   *)
LEMMA ChainBehind ==
  ASSUME JsonType, Linked, NEW w \in InUse
  PROVE  Chain(json[w].child) = {v \in InUse : w < v}
<1>1. /\ w \in 1 .. Len(json) /\ w # NoWrapper /\ json[w].child \in 0 .. Len(json)
      /\ json[w].child # NoWrapper => w < json[w].child
  BY InUseTyped
<1>2. \A v \in InUse : v \in Nat BY InUseTyped
<1>3. CASE json[w].child = NoWrapper
  <2>1. Chain(json[w].child) = {}
    BY <1>1, <1>3, ChainIs
  <2>2. \A v \in InUse : ~(w < v) BY <1>1, <1>3 DEF Linked
  <2> QED BY <2>1, <2>2
<1>4. CASE json[w].child # NoWrapper
  <2>1. json[w].child \in InUse BY <1>4 DEF Linked
  <2>2. Chain(json[w].child) = From(json[w].child)
    BY <2>1, ChainInUse
  <2>3. \A v \in InUse : w < v <=> json[w].child <= v
    <3>1. \A v \in InUse : w < v => json[w].child <= v BY <1>4 DEF Linked
    <3> QED BY <3>1, <1>1, <1>2, <1>4
  <2> QED BY <2>2, <2>3 DEF From
<1> QED BY <1>3, <1>4

(* What looking into w leaves: c is what is found there. *)
Others ==
  /\ \A b : b[1] # "json" => (b \in blocks' <=> b \in blocks)
  /\ \A b \in blocks' \ blocks : \E u \in DOMAIN json' : b = Wrapper(u)
Looked(w, v, c) ==
  /\ JsonType' /\ Linked'
  /\ w # NoWrapper => InUse' = {u \in InUse : u <= w} \cup ({c} \ {NoWrapper})
  /\ w = NoWrapper => InUse' = InUse
  /\ c # NoWrapper => w # NoWrapper /\ c \in InUse' /\ json'[c].val = v
  /\ \A u \in InUse : u \in DOMAIN json' /\ json'[u].val = json[u].val
  /\ DOMAIN json \subseteq DOMAIN json'
  /\ Others /\ doc' = doc /\ misuse' = misuse

(* A look into a wrapper in use deletes those behind it and none before it.  *)
LEMMA ChildLooks ==
  ASSUME JsonType, Linked, NEW w, w \in InUse \cup {NoWrapper},
         NEW found, NEW v, found => v \in Seq(Words), NEW c,
         revoltc_json_child(w, found, v, c)
  PROVE  Looked(w, v, c)
<1>0. Len(json) \in Nat /\ DOMAIN json = 1 .. Len(json)
  BY JsonBasics
<1>1. CASE w = NoWrapper
  <2>1. c = NoWrapper /\ doc' = doc /\ json' = json /\ Memory({}, {}, 0, {})
    BY <1>1 DEF revoltc_json_child, jvars
  <2>2. blocks' = blocks /\ misuse' = misuse
    BY <2>1 DEF Memory
  <2>3. InUse' = InUse
    BY <2>1, <2>2 DEF InUse
  <2>4. JsonType' /\ Linked'
    BY <2>1, <2>3 DEF JsonType, Linked
  <2> QED BY <1>0, <1>1, <2>1, <2>2, <2>3, <2>4 DEF Looked, Others, InUse
<1>2. CASE w # NoWrapper
  <2> DEFINE old == Blocks(Chain(json[w].child))
             gone == {u \in InUse : w < u}
  <2>0. w \in InUse BY <1>2
  <2>1. /\ w \in 1 .. Len(json) /\ w \in DOMAIN json /\ w \in Nat
        /\ json[w].child \in 0 .. Len(json)
    BY <2>0, InUseTyped
  <2>2. Wrapper(w) \in blocks /\ Through(w) = {}
    BY <2>0 DEF InUse, Through
  <2>3. Chain(json[w].child) = gone
    BY <2>0, ChainBehind
  <2>4. old \subseteq blocks /\ \A b \in old : b[1] = "json"
    <3>1. \A u \in gone : Wrapper(u) \in blocks /\ Wrapper(u)[1] = "json"
      BY DEF InUse, Wrapper
    <3> QED BY <2>3, <3>1 DEF Blocks
  <2>5. \A u \in Nat : Wrapper(u) \in old <=> u \in gone
    <3>1. \A u \in Nat, x \in gone : Wrapper(u) = Wrapper(x) => u = x BY DEF Wrapper
    <3> QED BY <2>3, <3>1 DEF Blocks
  <2>6. doc' = doc
    BY <1>2 DEF revoltc_json_child
  <2>7. \A u \in InUse : u \in Nat /\ u \in 1 .. Len(json) /\ u \in DOMAIN json
    BY InUseTyped
  <2>8. CASE found /\ c = Len(json) + 1
             /\ json' = Append([json EXCEPT ![w].child = c], [val |-> v, child |-> NoWrapper])
             /\ Memory({Wrapper(c)}, old, 0, {})
    <3> DEFINE upd == [json EXCEPT ![w].child = c]
               rec == [val |-> v, child |-> NoWrapper]
               kept == {u \in InUse : u <= w}
    <3> HIDE DEF old, gone
    <3>1. /\ c \in Nat /\ c # NoWrapper /\ c = Len(json) + 1 /\ v \in Seq(Words)
          /\ c \notin DOMAIN json /\ w < c
      BY <2>8, <1>0, <2>1 DEF NoWrapper
    <3>2. upd \in Seq([val : Seq(Words), child : Nat]) /\ Len(upd) = Len(json)
      <4>1. upd = [u \in 1 .. Len(json) |-> IF u = w THEN [json[w] EXCEPT !.child = c] ELSE json[u]]
        BY <1>0, <2>1, JsonType DEF JsonType
      <4>2. \A u \in 1 .. Len(json) : json[u] \in [val : Seq(Words), child : Nat]
        BY <1>0, ElementOfSeq DEF JsonType
      <4>3. \A u \in 1 .. Len(json) : upd[u] \in [val : Seq(Words), child : Nat]
        BY <4>1, <4>2, <2>1, <3>1
      <4>4. upd \in [1 .. Len(json) -> [val : Seq(Words), child : Nat]]
        BY <4>1, <4>3
      <4> HIDE DEF upd
      <4> QED BY <4>1, <4>4, <1>0
    <3>3. /\ json' \in Seq([val : Seq(Words), child : Nat])
          /\ Len(json') = c /\ DOMAIN json' = 1 .. c
          /\ json'[c] = rec
          /\ \A u \in 1 .. Len(json) : json'[u] = upd[u]
      <4>1. json' = Append(upd, rec) BY <2>8
      <4>2. rec \in [val : Seq(Words), child : Nat] BY <3>1 DEF NoWrapper
      <4> HIDE DEF upd, rec
      <4> QED BY <4>1, <4>2, <3>1, <3>2, AppendProperties
    <3>4. /\ json'[c].val = v /\ json'[c].child = NoWrapper
          /\ json'[w].val = json[w].val /\ json'[w].child = c
          /\ \A u \in 1 .. Len(json) : u # w => json'[u] = json[u]
      <4>1. json[w] \in [val : Seq(Words), child : Nat]
        BY <1>0, <2>1, ElementOfSeq DEF JsonType
      <4> QED BY <3>3, <4>1, <1>0, <2>1
    <3>5. JsonType'
      <4>1. ASSUME NEW u \in 1 .. c PROVE json'[u].child \in {NoWrapper} \cup (u + 1 .. c)
        <5>1. CASE u = c BY <5>1, <3>4
        <5>2. CASE u = w BY <5>2, <3>4, <3>1, <2>1
        <5>3. CASE u # w /\ u # c
          <6>1. u \in 1 .. Len(json) BY <5>3, <3>1, <1>0
          <6>2. json'[u].child \in {0} \cup (u + 1 .. Len(json))
            BY <6>1, <5>3, <3>4, JsonBasics
          <6> QED BY <6>2, <3>1, <1>0 DEF NoWrapper
        <5> QED BY <5>1, <5>2, <5>3
      <4> QED BY <4>1, <3>3 DEF JsonType
    <3>6. blocks' = (blocks \cup {Wrapper(c)}) \ old /\ misuse' = misuse
      BY <2>8, <2>4 DEF Memory
    <3>7. \A x \in Nat : Wrapper(x) \in blocks' <=> x \notin gone /\ (x = c \/ Wrapper(x) \in blocks)
      <4>1. \A x \in Nat : Wrapper(x) = Wrapper(c) => x = c BY DEF Wrapper
      <4> QED BY <4>1, <3>6, <2>5
    <3>8. \A x \in kept : x \in InUse /\ x \in 1 .. Len(json) /\ x \in Nat /\ x \notin gone /\ x <= w /\ x # c
      BY <2>7, <3>1, <2>1 DEF gone
    <3>9. InUse' = kept \cup {c}
      <4>1. ASSUME NEW x \in InUse' PROVE x \in kept \cup {c}
        <5>1. x \in 1 .. c /\ x \notin gone /\ (x = c \/ Wrapper(x) \in blocks)
          BY <3>3, <3>7, <3>1 DEF InUse
        <5>2. x # c => x \in DOMAIN json BY <5>1, <3>1, <1>0
        <5>3. x # c => x \in InUse BY <5>1, <5>2 DEF InUse
        <5> QED BY <5>1, <5>3, <2>1 DEF gone
      <4>2. ASSUME NEW x \in kept PROVE x \in InUse'
        <5>1. x \in DOMAIN json' BY <3>8, <3>3, <3>1, <1>0
        <5>2. Wrapper(x) \in blocks BY <3>8 DEF InUse
        <5> QED BY <5>1, <5>2, <3>7, <3>8 DEF InUse
      <4>3. c \in InUse'
        <5>1. c \notin gone BY <2>7, <3>1, <1>0 DEF gone
        <5> QED BY <5>1, <3>3, <3>7, <3>1 DEF InUse
      <4> QED BY <4>1, <4>2, <4>3
    <3>10. Linked'
      <4> HIDE DEF kept
      <4>1. ASSUME NEW x \in InUse'
            PROVE  /\ json'[x].child # NoWrapper => json'[x].child \in InUse'
                   /\ \A y \in InUse' : x < y => json'[x].child # NoWrapper /\ json'[x].child <= y
        <5>1. CASE x = c
          <6>1. \A y \in InUse' : ~(x < y)
            BY <5>1, <3>9, <3>8, <3>1, <2>1
          <6> QED BY <6>1, <5>1, <3>4
        <5>2. CASE x = w
          <6>1. \A y \in InUse' : x < y => y = c
            BY <5>2, <3>9, <3>8, <3>1, <2>1
          <6> QED BY <6>1, <5>2, <3>4, <3>9, <3>1
        <5>3. CASE x # c /\ x # w
          <6>1. x \in kept /\ x \in InUse /\ x < w /\ json'[x].child = json[x].child
            BY <5>3, <3>9, <3>8, <3>4, <2>1
          <6>2. json[x].child # NoWrapper /\ json[x].child <= w /\ json[x].child \in InUse
            BY <6>1, <2>0 DEF Linked
          <6>3. json[x].child \in kept BY <6>2 DEF kept
          <6>4. ASSUME NEW y \in InUse', x < y PROVE json[x].child <= y
            <7>1. CASE y = c BY <7>1, <6>3, <3>8, <3>1, <2>1
            <7>2. CASE y # c
              <8>1. y \in InUse BY <7>2, <3>9, <3>8
              <8> QED BY <8>1, <6>4, <6>1 DEF Linked
            <7> QED BY <7>1, <7>2
          <6> QED BY <6>1, <6>2, <6>3, <6>4, <3>9
        <5> QED BY <5>1, <5>2, <5>3
      <4> QED BY <4>1 DEF Linked
    <3>11. Others
      <4>1. Wrapper(c)[1] = "json" BY DEF Wrapper
      <4>2. c \in DOMAIN json' BY <3>1, <3>3
      <4>3. \A b \in blocks' \ blocks : b = Wrapper(c) BY <3>6
      <4> QED BY <4>1, <4>2, <4>3, <3>6, <2>4 DEF Others
    <3>12. \A u \in InUse : u \in DOMAIN json' /\ json'[u].val = json[u].val
      <4>1. ASSUME NEW u \in InUse PROVE u \in DOMAIN json' /\ json'[u].val = json[u].val
        <5>1. u \in 1 .. Len(json) BY <2>7
        <5>2. json'[u].val = json[u].val BY <5>1, <3>4
        <5>3. u \in DOMAIN json' BY <5>1, <3>1, <3>3, <1>0
        <5> QED BY <5>2, <5>3
      <4> QED BY <4>1
    <3>13. DOMAIN json \subseteq DOMAIN json'
      BY <3>3, <3>1, <1>0
    <3> HIDE DEF kept
    <3> QED BY <1>2, <2>6, <3>1, <3>4, <3>5, <3>6, <3>9, <3>10, <3>11, <3>12, <3>13 DEF Looked, kept
  <2>9. CASE c = NoWrapper /\ json' = [json EXCEPT ![w].child = NoWrapper]
             /\ Memory({}, old, IF found THEN 1 ELSE 0, {})
    <3> DEFINE kept == {u \in InUse : u <= w}
    <3> HIDE DEF old, gone
    <3>1. /\ json' = [u \in 1 .. Len(json) |->
                       IF u = w THEN [json[w] EXCEPT !.child = NoWrapper] ELSE json[u]]
          /\ \A u \in 1 .. Len(json) : json[u] \in [val : Seq(Words), child : Nat]
      <4>1. \A u \in 1 .. Len(json) : json[u] \in [val : Seq(Words), child : Nat]
        BY <1>0, ElementOfSeq DEF JsonType
      <4> QED BY <4>1, <1>0, <2>1, <2>9 DEF JsonType
    <3>2. /\ json'[w].val = json[w].val /\ json'[w].child = NoWrapper
          /\ \A u \in 1 .. Len(json) : u # w => json'[u] = json[u]
      BY <3>1, <2>1
    <3>3. /\ json' \in Seq([val : Seq(Words), child : Nat])
          /\ Len(json') = Len(json) /\ DOMAIN json' = 1 .. Len(json)
      <4>1. \A u \in 1 .. Len(json) : json'[u] \in [val : Seq(Words), child : Nat]
        BY <3>1, <2>1 DEF NoWrapper
      <4>2. json' \in [1 .. Len(json) -> [val : Seq(Words), child : Nat]]
        BY <4>1, <3>1
      <4> QED BY <4>2, <3>1, <1>0
    <3>5. JsonType'
      <4>1. ASSUME NEW u \in 1 .. Len(json)
            PROVE  json'[u].child \in {NoWrapper} \cup (u + 1 .. Len(json))
        <5>1. CASE u = w BY <5>1, <3>2
        <5>2. CASE u # w
          <6>1. json'[u].child \in {0} \cup (u + 1 .. Len(json))
            BY <5>2, <3>2, JsonBasics
          <6> QED BY <6>1 DEF NoWrapper
        <5> QED BY <5>1, <5>2
      <4> QED BY <4>1, <3>3 DEF JsonType
    <3>6. blocks' = blocks \ old /\ misuse' = misuse
      BY <2>9, <2>4 DEF Memory
    <3>7. \A x \in Nat : Wrapper(x) \in blocks' <=> x \notin gone /\ Wrapper(x) \in blocks
      BY <3>6, <2>5
    <3>8. \A x \in kept : x \in InUse /\ x \in 1 .. Len(json) /\ x \in Nat /\ x \notin gone /\ x <= w
      BY <2>7, <2>1 DEF gone
    <3>9. InUse' = kept
      <4>1. ASSUME NEW x \in InUse' PROVE x \in kept
        <5>1. x \in 1 .. Len(json) /\ x \notin gone /\ Wrapper(x) \in blocks
          BY <3>3, <3>7, <1>0 DEF InUse
        <5>3. x \in InUse BY <5>1, <1>0 DEF InUse
        <5> QED BY <5>1, <5>3, <2>1 DEF gone
      <4>2. ASSUME NEW x \in kept PROVE x \in InUse'
        <5>2. Wrapper(x) \in blocks BY <3>8 DEF InUse
        <5> QED BY <5>2, <3>3, <3>7, <3>8 DEF InUse
      <4> QED BY <4>1, <4>2
    <3>10. Linked'
      <4> HIDE DEF kept
      <4>1. ASSUME NEW x \in InUse'
            PROVE  /\ json'[x].child # NoWrapper => json'[x].child \in InUse'
                   /\ \A y \in InUse' : x < y => json'[x].child # NoWrapper /\ json'[x].child <= y
        <5>2. CASE x = w
          <6>1. \A y \in InUse' : ~(x < y)
            BY <5>2, <3>9, <3>8, <2>1
          <6> QED BY <6>1, <5>2, <3>2, <3>9
        <5>3. CASE x # w
          <6>1. x \in kept /\ x \in InUse /\ x < w /\ json'[x].child = json[x].child
            BY <5>3, <3>9, <3>8, <3>2, <2>1
          <6>2. json[x].child # NoWrapper /\ json[x].child <= w /\ json[x].child \in InUse
            BY <6>1, <2>0 DEF Linked
          <6>3. json[x].child \in kept BY <6>2 DEF kept
          <6>4. ASSUME NEW y \in InUse', x < y PROVE json[x].child <= y
            <7>1. y \in InUse BY <3>9, <3>8
            <7> QED BY <7>1, <6>4, <6>1 DEF Linked
          <6> QED BY <6>1, <6>2, <6>3, <6>4, <3>9
        <5> QED BY <5>2, <5>3
      <4> QED BY <4>1 DEF Linked
    <3>11. Others
      BY <3>6, <2>4 DEF Others
    <3>12. \A u \in InUse : u \in DOMAIN json' /\ json'[u].val = json[u].val
      BY <2>7, <3>3, <3>2
    <3>13. DOMAIN json \subseteq DOMAIN json'
      BY <3>3, <1>0
    <3> HIDE DEF kept
    <3> QED BY <1>2, <2>6, <2>9, <3>5, <3>6, <3>9, <3>10, <3>11, <3>12, <3>13 DEF Looked, kept
  <2> QED BY <1>2, <2>2, <2>8, <2>9 DEF revoltc_json_child
<1> QED BY <1>1, <1>2

-----------------------------------------------------------------------------
LEMMA StringsFrame ==
  ASSUME NEW fields, NEW obj, NEW w, NEW keys, GetStrings(fields, obj, w, keys)
  PROVE  /\ json' = json /\ doc' = doc /\ kind' = kind /\ resp' = resp /\ body' = body
         /\ root' = root /\ file' = file /\ buf' = buf /\ object' = object /\ bits' = bits
         /\ clean' = clean
BY DEF GetStrings, jvars, request_vars, wrapper_vars

LEMMA NameFrame ==
  ASSUME NEW w, NEW key, NEW name, NEW v, NEW m, GetName(w, key, name, v, m)
  PROVE  /\ json' = json /\ doc' = doc /\ kind' = kind /\ resp' = resp /\ body' = body
         /\ root' = root /\ file' = file /\ buf' = buf /\ object' = object /\ count' = count
         /\ clean' = clean /\ value' = [value EXCEPT ![v] = m]
BY DEF GetName, jvars, request_vars, wrapper_vars

FileActions ==
  GetFile \/ FileStrings \/ GetMetadata \/ revolt_file_metadata_deserialize_json_obj \/ FileEnd
RequestActions == revolt_rest_request \/ write_callback \/ request_perform
DeleteActions == revolt_user_delete \/ revolt_channel_delete \/ revolt_cleanup

(* The places of the application, its root, objects and results go together. *)
LEMMA PlaceStep ==
  ASSUME PlaceInv, FetchNext, at' # "crashed"
  PROVE  PlaceInv'
<1> USE DEF PlaceInv, FilePlaces, ChannelPlaces, UserPlaces, OpenPlaces, EarlyPlaces, CallPlaces,
            LastPlaces, Kinds, request_vars, wrapper_vars, object_vars, jvars, NULL, NoWrapper,
            NothingReceived, Finds, Leaves, Ends, Returned
<1>1. CASE revolt_init
  BY <1>1 DEF revolt_init
<1>2. CASE Fetch
  BY <1>2 DEF Fetch
<1>3. CASE FetchReturns
  <2>1. NothingReceived \in [{"header", "body"} -> Nat]
    OBVIOUS
  <2>2. kind' \in Kinds /\ at' \in {"fetch", "delete user"} /\ root' = NoWrapper
    BY <1>3 DEF FetchReturns
  <2> HIDE DEF NothingReceived
  <2> QED BY <1>3, <2>1, <2>2 DEF FetchReturns
<1>4. CASE RequestActions
  <2>1. CASE revolt_rest_request BY <2>1 DEF revolt_rest_request, revoltc_http_request
  <2>2. CASE write_callback 
    <3>1. \/ at' = "receive" /\ \E p \in {"header", "body"} : resp' = [resp EXCEPT ![p] = @ + 1]
          \/ at' = "aborted" /\ resp' = resp
      BY <2>2 DEF write_callback
    <3>2. resp' \in [{"header", "body"} -> Nat]
      <4>1. resp \in [{"header", "body"} -> Nat] OBVIOUS
      <4> HIDE DEF PlaceInv
      <4> QED BY <3>1, <4>1
    <3> QED BY <2>2, <3>1, <3>2 DEF write_callback
  <2>3. CASE request_perform 
    <3>1. NothingReceived \in [{"header", "body"} -> Nat]
      OBVIOUS
    <3> HIDE DEF NothingReceived
    <3> QED BY <2>3, <3>1 DEF request_perform
  <2> QED BY <1>4, <2>1, <2>2, <2>3 DEF RequestActions
<1>5. CASE Deserialize
  <2>1. /\ at = "deserialize" /\ kind' = kind /\ resp' = resp /\ object' = object
        /\ \/ at' = "cleanup" /\ root' = root /\ err' = [err EXCEPT ![kind] = "INVAL"]
           \/ \E r \in {"OK", "NOMEM", "PARSE"} :
                /\ err' = [err EXCEPT ![kind] = r]
                /\ IF r = "OK" THEN at' = kind /\ root' = 1 ELSE at' = "cleanup" /\ root' = NoWrapper
    BY <1>5 DEF Deserialize, revoltc_json_parse
  <2> QED BY <2>1
<1>6. CASE Leave
  BY <1>6 DEF Leave
<1>7. CASE FileActions
  <2>1. CASE GetFile BY <2>1 DEF GetFile
  <2>2. CASE FileStrings
    <3>1. kind' = kind /\ resp' = resp /\ root' = root /\ object' = object
      BY <2>2, StringsFrame DEF FileStrings
    <3>2. /\ at = "file"
          /\ (Leaves("INVAL") \/ (at' = "metadata" /\ UNCHANGED err))
      BY <2>2 DEF FileStrings
    <3> QED BY <3>1, <3>2
  <2>3. CASE GetMetadata BY <2>3 DEF GetMetadata
  <2>4. CASE revolt_file_metadata_deserialize_json_obj
    <3>1. kind' = kind /\ resp' = resp /\ root' = root /\ object' = object
      BY <2>4, NameFrame DEF revolt_file_metadata_deserialize_json_obj
    <3>2. /\ at = "metadata type"
          /\ (Leaves("INVAL") \/ (at' = "file end" /\ UNCHANGED err))
      BY <2>4 DEF revolt_file_metadata_deserialize_json_obj
    <3> QED BY <3>1, <3>2
  <2>5. CASE FileEnd
    <3>1. kind' = kind /\ resp' = resp /\ root' = root /\ object' = object
      BY <2>5, StringsFrame DEF FileEnd
    <3> QED BY <2>5, <3>1 DEF FileEnd
  <2> QED BY <1>7, <2>1, <2>2, <2>3, <2>4, <2>5 DEF FileActions
<1>8. CASE revolt_user_deserialize_json_obj
  <2>1. CASE UserStrings \/ Status \/ RelationString \/ Bot
    <3>1. kind' = kind /\ resp' = resp /\ root' = root /\ object' = object /\ err' = err
      BY <2>1, StringsFrame DEF UserStrings, Status, RelationString, Bot
    <3>2. \/ at = "user" /\ at' = "avatar"
          \/ at = "status" /\ at' = "presence"
          \/ at = "relation" /\ at' = "relation status"
          \/ at = "bot" /\ at' = "leave"
      <4> HIDE DEF PlaceInv
      <4>1. UserStrings => at = "user" /\ at' = "avatar" BY DEF UserStrings
      <4>2. Status => at = "status" /\ at' = "presence" BY DEF Status
      <4>3. RelationString => at = "relation" /\ at' = "relation status" BY DEF RelationString
      <4>4. Bot => at = "bot" /\ at' = "leave" BY DEF Bot
      <4> QED BY <2>1, <4>1, <4>2, <4>3, <4>4
    <3> QED BY <3>1, <3>2
  <2>2. CASE Presence \/ RelationStatus \/ Relationship
    <3>1. kind' = kind /\ resp' = resp /\ root' = root /\ object' = object /\ err' = err
      BY <2>2, NameFrame DEF Presence, RelationStatus, Relationship
    <3>2. \/ at = "presence" /\ at' = "relations"
          \/ at = "relation status" /\ at' = "next"
          \/ at = "relationship" /\ at' = "bot"
      <4> HIDE DEF PlaceInv
      <4>1. Presence => at = "presence" /\ at' = "relations" BY DEF Presence
      <4>2. RelationStatus => at = "relation status" /\ at' = "next" BY DEF RelationStatus
      <4>3. Relationship => at = "relationship" /\ at' = "bot" BY DEF Relationship
      <4> QED BY <2>2, <4>1, <4>2, <4>3
    <3> QED BY <3>1, <3>2
  <2>3. CASE GetRelations \/ FirstRelation \/ NextRelation
    BY <2>3 DEF GetRelations, FirstRelation, NextRelation
  <2>4. CASE AllocateRelations \/ RelationsMissing \/ NoMoreRelations
    BY <2>4 DEF AllocateRelations, RelationsMissing, NoMoreRelations
  <2> QED BY <1>8, <2>1, <2>2, <2>3, <2>4 DEF revolt_user_deserialize_json_obj
<1>9. CASE revolt_channel_deserialize_json_obj
  <2>1. CASE ChannelType
    <3>1. kind' = kind /\ resp' = resp /\ root' = root /\ object' = object
      BY <2>1, NameFrame DEF ChannelType
    <3>2. /\ at = "channel" /\ (Leaves("PARSE") \/ (at' = "strings" /\ UNCHANGED err))
      BY <2>1 DEF ChannelType
    <3> QED BY <3>1, <3>2
  <2>2. CASE ChannelStrings \/ VoiceEnd
    <3>1. kind' = kind /\ resp' = resp /\ root' = root /\ object' = object /\ err' = err
      BY <2>2, StringsFrame DEF ChannelStrings, VoiceEnd
    <3>2. at \in {"strings", "voice end"} /\ at' \in {"leave", "icon"}
      BY <2>2 DEF ChannelStrings, VoiceEnd
    <3> QED BY <3>1, <3>2
  <2>3. CASE Permissions BY <2>3 DEF Permissions
  <2> QED BY <1>9, <2>1, <2>2, <2>3 DEF revolt_channel_deserialize_json_obj
<1>10. CASE DeleteActions
  <2>1. CASE revolt_user_delete BY <2>1 DEF revolt_user_delete, Delete
  <2>2. CASE revolt_channel_delete BY <2>2 DEF revolt_channel_delete, Delete
  <2>3. CASE revolt_cleanup BY <2>3 DEF revolt_cleanup
  <2> QED BY <1>10, <2>1, <2>2, <2>3 DEF DeleteActions
<1> QED
  BY <1>1, <1>2, <1>3, <1>4, <1>5, <1>6, <1>7, <1>8, <1>9, <1>10
  DEF FetchNext, FileActions, RequestActions, DeleteActions

-----------------------------------------------------------------------------
ArrayOf(path) == doc.arrays[path]
(* The arrays of a document that was parsed have names for their elements.   *)
LEMMA Arrays ==
  ASSUME DocInv, at \in OpenPlaces, NEW array \in DOMAIN doc.arrays
  PROVE  /\ ArrayOf(array) \in Seq(Words)
         /\ \A i, j \in DOMAIN ArrayOf(array) : ArrayOf(array)[i] = ArrayOf(array)[j] => i = j
         /\ array = <<"relations">> => Len(ArrayOf(array)) <= MostRelations
<1>1. PICK k \in Kinds : doc \in Documents[k] /\ doc.parses
  BY DEF DocInv
<1>2. PICK s : s = ArrayOf(array)
  OBVIOUS
<1>3. /\ s \in Seq(STRING) /\ \A i, j \in DOMAIN s : s[i] = s[j] => i = j
      /\ array = <<"relations">> => Len(s) <= MostRelations
  BY <1>1, <1>2, DocumentsAssumption DEF ArrayOf
<1>4. /\ DOMAIN s = 1 .. Len(s) /\ Len(s) \in Nat /\ s = [i \in 1 .. Len(s) |-> s[i]]
  <2>1. s \in [1 .. Len(s) -> STRING] BY <1>3, LenProperties
  <2> QED BY <2>1, <1>3, LenProperties
<1>5. \A i \in 1 .. Len(s) : s[i] \in Words
  <2>1. doc \in Parsed BY <1>1 DEF Parsed
  <2>2. \A i \in DOMAIN s : s[i] \in ElementsOf(doc) BY <1>2 DEF ElementsOf, ArrayOf
  <2> QED BY <2>1, <2>2, <1>4 DEF Words
<1>6. s \in Seq(Words)
  <2>1. s \in [1 .. Len(s) -> Words] BY <1>4, <1>5
  <2> QED BY <2>1, <1>4
<1> QED BY <1>2, <1>3, <1>6

LEMMA OneOf ==
  ASSUME NEW a \in Words
  PROVE  <<a>> \in Seq(Words) /\ Len(<<a>>) = 1 /\ <<a>>[1] = a
OBVIOUS

LEMMA TwoOf ==
  ASSUME NEW a \in Words, NEW b \in Words
  PROVE  <<a, b>> \in Seq(Words) /\ <<a>> \o <<b>> = <<a, b>>
<1> DEFINE s == <<a>> \o <<b>>
           t == <<a, b>>
<1>1. /\ s \in Seq(Words) /\ Len(s) = Len(<<a>>) + Len(<<b>>)
      /\ \A i \in 1 .. Len(<<a>>) + Len(<<b>>) :
           s[i] = IF i <= Len(<<a>>) THEN <<a>>[i] ELSE <<b>>[i - Len(<<a>>)]
  <2>1. <<a>> \in Seq(Words) /\ <<b>> \in Seq(Words) BY OneOf
  <2> QED BY <2>1, ConcatProperties
<1>2. Len(<<a>>) = 1 /\ Len(<<b>>) = 1 /\ <<a>>[1] = a /\ <<b>>[1] = b BY OneOf
<1>3. t \in Seq(Words) /\ Len(t) = 2 /\ t[1] = a /\ t[2] = b
  OBVIOUS
<1>4. Len(s) = 2 /\ s[1] = a /\ s[2] = b
  <2> HIDE DEF s
  <2> QED BY <1>1, <1>2
<1>5. s = t
  <2> HIDE DEF s, t
  <2>1. \A i \in 1 .. Len(s) : s[i] = t[i] BY <1>3, <1>4
  <2> QED BY <2>1, <1>1, <1>3, <1>4, SeqEqual
<1> QED BY <1>3, <1>5

LEMMA AtRoot ==
  ASSUME json[1].val = <<>>, NEW a \in Words
  PROVE  At(1, <<a>>) = <<a>> /\ <<a>> \in Seq(Words)
<1>1. At(1, <<a>>) = <<>> \o <<a>> BY DEF At, NoWrapper
<1>2. <<a>> \in Seq(Words) BY OneOf
<1>3. PICK s : s = <<a>> OBVIOUS
<1>4. <<>> \o s = s BY <1>2, <1>3, ConcatEmptySeq
<1> QED BY <1>1, <1>2, <1>3, <1>4

(* A key is looked up behind the path of the wrapper.                        *)
LEMMA AtTyped ==
  ASSUME JsonType, NEW w \in InUse, NEW key \in Seq(Words)
  PROVE  At(w, key) \in Seq(Words) /\ At(w, key) = json[w].val \o key
<1>1. json[w].val \in Seq(Words) /\ w # NoWrapper BY InUseTyped, JsonBasics
<1>2. PICK v : v = json[w].val OBVIOUS
<1>3. v \o key \in Seq(Words) BY <1>1, <1>2, ConcatProperties
<1> QED BY <1>1, <1>2, <1>3 DEF At

LEMMA GetFileLooks ==
  ASSUME PlaceInv, WrapperInv, GetFile
  PROVE  \E c : Looked(1, <<at>>, c) /\ file' = c /\ buf' = buf
<1>1. root = 1 /\ 1 \in InUse /\ json[1].val = <<>> /\ at \in {"avatar", "icon"} /\ JsonType /\ Linked
  BY DEF GetFile, PlaceInv, WrapperInv, OpenPlaces, UserPlaces, ChannelPlaces
<1>2. PICK c : revoltc_json_get_obj(root, <<at>>, c) /\ file' = c /\ buf' = buf
  BY DEF GetFile
<1>3. At(1, <<at>>) = <<at>> /\ <<at>> \in Seq(Words)
  <2>1. at \in Words BY <1>1 DEF Words, Literals
  <2> QED BY <2>1, <1>1, AtRoot
<1>4. Looked(1, At(1, <<at>>), c)
  <2>1. PICK found : revoltc_json_child(1, found, At(1, <<at>>), c)
    BY <1>1, <1>2 DEF revoltc_json_get_obj
  <2> HIDE DEF At
  <2> QED BY <2>1, <1>1, <1>3, ChildLooks
<1> QED BY <1>2, <1>3, <1>4

LEMMA GetMetadataLooks ==
  ASSUME PlaceInv, WrapperInv, GetMetadata
  PROVE  \E v, c : /\ Looked(file, v, c) /\ file \in InUse /\ buf' = c /\ file' = file
                   /\ v = At(file, <<"metadata">>)
<1>1. file # NoWrapper /\ file \in InUse /\ JsonType /\ Linked
  BY DEF GetMetadata, PlaceInv, WrapperInv, OpenPlaces, FilePlaces
<1>2. PICK c : revoltc_json_get_obj(file, <<"metadata">>, c) /\ file' = file /\ buf' = c
  BY DEF GetMetadata
<1>3. At(file, <<"metadata">>) \in Seq(Words)
  <2>1. PICK key : key = <<"metadata">> OBVIOUS
  <2>2. key \in Seq(Words)
    <3>1. "metadata" \in Words BY DEF Words, Literals
    <3> QED BY <2>1, <3>1, OneOf
  <2> QED BY <1>1, <2>1, <2>2, AtTyped
<1>4. Looked(file, At(file, <<"metadata">>), c)
  <2>1. PICK found : revoltc_json_child(file, found, At(file, <<"metadata">>), c)
    BY <1>2 DEF revoltc_json_get_obj
  <2> HIDE DEF At
  <2> QED BY <2>1, <1>1, <1>3, ChildLooks
<1> QED BY <1>1, <1>2, <1>4

LEMMA GetRelationsLooks ==
  ASSUME PlaceInv, WrapperInv, GetRelations
  PROVE  \E c : /\ Looked(1, <<"relations">>, c) /\ file' = file
                /\ buf' = IF IsArray(<<"relations">>) THEN c ELSE NoWrapper
                /\ at' = IF buf' = NoWrapper THEN "relationship" ELSE "allocate"
<1>1. root = 1 /\ 1 \in InUse /\ json[1].val = <<>> /\ JsonType /\ Linked
  BY DEF GetRelations, PlaceInv, WrapperInv, OpenPlaces, UserPlaces
<1>2. PICK a : /\ revoltc_json_get_arr(root, <<"relations">>, a) /\ file' = file /\ buf' = a
               /\ at' = IF a = NoWrapper THEN "relationship" ELSE "allocate"
  BY DEF GetRelations, Finds
<1>3. At(1, <<"relations">>) = <<"relations">> /\ <<"relations">> \in Seq(Words)
  <2>1. "relations" \in Words BY DEF Words, Literals
  <2> QED BY <2>1, <1>1, AtRoot
<1>4. PICK c : /\ revoltc_json_get_obj(root, <<"relations">>, c)
               /\ a = IF IsArray(At(1, <<"relations">>)) THEN c ELSE NoWrapper
  BY <1>1, <1>2 DEF revoltc_json_get_arr
<1>5. Looked(1, At(1, <<"relations">>), c)
  <2>1. PICK found : revoltc_json_child(1, found, At(1, <<"relations">>), c)
    BY <1>1, <1>4 DEF revoltc_json_get_obj
  <2> HIDE DEF At
  <2> QED BY <2>1, <1>1, <1>3, ChildLooks
<1> QED BY <1>2, <1>3, <1>4, <1>5

(* The relation number i, if there are so many. *)
NthRelation(v, i, c) ==
  c # NoWrapper => i <= max /\ v = <<"relations", doc.arrays[<<"relations">>][i]>>

(* The element number i of the relations.                                    *)
LEMMA ElementIs ==
  ASSUME DocInv, at \in OpenPlaces, IsArray(<<"relations">>), NEW i \in Nat, i > 0
  PROVE  /\ Element(<<"relations">>, i) =
              IF i <= max THEN <<"relations", doc.arrays[<<"relations">>][i]>> ELSE <<>>
         /\ Element(<<"relations">>, i) \in Seq(Words)
<1>1. PICK s : s = doc.arrays[<<"relations">>]
  OBVIOUS
<1>2. s \in Seq(Words)
  BY <1>1, Arrays DEF IsArray, ArrayOf
<1>3. DOMAIN s = 1 .. Len(s) /\ Len(s) \in Nat
  BY <1>2, LenProperties
<1>4. Element(<<"relations">>, i) = IF i \in DOMAIN s THEN <<"relations">> \o << s[i] >> ELSE <<>>
  BY <1>1 DEF Element
<1>5. ASSUME i <= max
      PROVE  /\ <<"relations", s[i]>> \in Seq(Words)
             /\ <<"relations">> \o << s[i] >> = <<"relations", s[i]>>
  <2>1. s[i] \in Words BY <1>2, <1>3, <1>5, <1>1, ElementOfSeq DEF max
  <2>2. PICK r : r = s[i] OBVIOUS
  <2>3. "relations" \in Words BY DEF Words, Literals
  <2> QED BY <2>1, <2>2, <2>3, TwoOf
<1>6. i <= max <=> i \in DOMAIN s
  BY <1>1, <1>3 DEF max
<1>7. <<>> \in Seq(Words) BY EmptySeq
<1> QED BY <1>1, <1>4, <1>5, <1>6, <1>7

LEMMA FirstRelationLooks ==
  ASSUME PlaceInv, DocInv, WrapperInv, FirstRelation
  PROVE  \E v, c : Looked(buf, v, c) /\ buf \in InUse /\ NthRelation(v, 1, c) /\ buf' = c
<1>1. /\ buf # NoWrapper /\ buf \in InUse /\ JsonType /\ Linked /\ json[buf].val = <<"relations">>
      /\ at \in OpenPlaces /\ IsArray(<<"relations">>)
  BY DEF FirstRelation, PlaceInv, DocInv, WrapperInv, OpenPlaces, UserPlaces
<1> DEFINE v == Element(<<"relations">>, 1)
<1>2. PICK c : revoltc_json_arr_get(buf, 1, c) /\ buf' = c
  BY DEF FirstRelation
<1>3. revoltc_json_child(buf, v # <<>>, v, c)
  BY <1>1, <1>2 DEF revoltc_json_arr_get
<1>4. v = (IF 1 <= max THEN <<"relations", doc.arrays[<<"relations">>][1]>> ELSE <<>>)
      /\ v \in Seq(Words)
  BY <1>1, ElementIs
<1> HIDE DEF v
<1>5. Looked(buf, v, c)
  <2>1. PICK found : found = (v # <<>>) OBVIOUS
  <2> QED BY <2>1, <1>1, <1>3, <1>4, ChildLooks
<1>6. c # NoWrapper => v # <<>>
  BY <1>3, <1>1 DEF revoltc_json_child
<1> QED BY <1>1, <1>2, <1>4, <1>5, <1>6 DEF NthRelation

(* The element behind the current one is found though only its name is       *)
(* known.                                                                    *)
LEMMA FollowingIs ==
  ASSUME PlaceInv, DocInv, WrapperInv, at = "next", buf # NoWrapper
  PROVE  Following(buf) = Element(<<"relations">>, count + 2)
<1>1. /\ at \in OpenPlaces /\ IsArray(<<"relations">>) /\ count \in Nat /\ count < max
      /\ json[buf].val = <<"relations", doc.arrays[<<"relations">>][count + 1]>>
  BY DEF WrapperInv, DocInv, InRelations, OpenPlaces, UserPlaces
<1>2. PICK s : s = doc.arrays[<<"relations">>]
  OBVIOUS
<1>3. s \in Seq(Words) /\ \A i, j \in DOMAIN s : s[i] = s[j] => i = j
  BY <1>1, <1>2, Arrays DEF IsArray, ArrayOf
<1>4. DOMAIN s = 1 .. Len(s) /\ Len(s) \in Nat
  BY <1>3, LenProperties
<1>5. count + 1 \in DOMAIN s
  BY <1>1, <1>2, <1>4 DEF max
<1>6. s[count + 1] \in Words
  BY <1>3, <1>4, <1>5, ElementOfSeq
<1>7. PICK v : v = json[buf].val
  OBVIOUS
<1>8. v = <<"relations", s[count + 1]>> /\ Len(v) = 2 /\ v[Len(v)] = s[count + 1]
      /\ SubSeq(v, 1, Len(v) - 1) = <<"relations">>
  <2>1. PICK r : r = s[count + 1] OBVIOUS
  <2>2. v = <<"relations", r>> /\ r \in Words BY <2>1, <1>1, <1>2, <1>6, <1>7
  <2>3. Len(v) = 2 /\ v[2] = r /\ v[1] = "relations" BY <2>2
  <2>4. SubSeq(v, 1, 1) = <<"relations">>
    <3>0. "relations" \in Words BY DEF Words, Literals
    <3>1. \A i \in 1 .. 1 : v[i] \in Words BY <2>3, <3>0
    <3>2. PICK t : t = SubSeq(v, 1, 1) OBVIOUS
    <3>3. t \in Seq(Words) /\ Len(t) = 1 /\ t[1] = v[1] BY <3>1, <3>2, SubSeqProperties
    <3>4. PICK u : u = <<"relations">> OBVIOUS
    <3>5. u \in Seq(Words) /\ Len(u) = 1 /\ u[1] = "relations" BY <3>0, <3>4, OneOf
    <3>6. \A i \in 1 .. Len(t) : t[i] = u[i] BY <3>3, <3>5, <2>3
    <3>7. t = u BY <3>3, <3>5, <3>6, SeqEqual
    <3> QED BY <3>2, <3>4, <3>7
  <2> QED BY <2>1, <2>2, <2>3, <2>4
<1>9. (CHOOSE n \in DOMAIN s : s[n] = v[Len(v)]) = count + 1
  BY <1>3, <1>5, <1>8
<1>10. (count + 1) + 1 = count + 2
  BY <1>1
<1> QED BY <1>2, <1>7, <1>8, <1>9, <1>10 DEF Following

LEMMA NextRelationLooks ==
  ASSUME PlaceInv, DocInv, WrapperInv, NextRelation
  PROVE  \E v, c : /\ Looked(buf, v, c) /\ buf \in InUse \cup {NoWrapper}
                   /\ NthRelation(v, count + 2, c) /\ buf' = c
<1>1. /\ buf \in InUse \cup {NoWrapper} /\ JsonType /\ Linked /\ count \in Nat
      /\ at = "next" /\ at \in OpenPlaces /\ IsArray(<<"relations">>)
  BY DEF NextRelation, PlaceInv, DocInv, WrapperInv, OpenPlaces, UserPlaces, InRelations
<1>2. PICK c : revoltc_json_unsafe_next(buf, c) /\ buf' = c
  BY DEF NextRelation
<1>3. CASE buf = NoWrapper
  <2>1. revoltc_json_child(buf, FALSE, <<>>, c) BY <1>2, <1>3 DEF revoltc_json_unsafe_next
  <2>2. Looked(buf, <<>>, c)
    <3>1. PICK v : v = <<>> /\ v \in Seq(Words) BY EmptySeq
    <3> QED BY <3>1, <2>1, <1>1, ChildLooks
  <2>3. c = NoWrapper BY <2>1, <1>3 DEF revoltc_json_child
  <2> QED BY <1>1, <1>2, <2>2, <2>3 DEF NthRelation
<1>4. CASE buf # NoWrapper
  <2> DEFINE v == Element(<<"relations">>, count + 2)
  <2>1. revoltc_json_child(buf, v # <<>>, v, c)
    BY <1>1, <1>2, <1>4, FollowingIs DEF revoltc_json_unsafe_next
  <2>2. v = (IF count + 2 <= max THEN <<"relations", doc.arrays[<<"relations">>][count + 2]>> ELSE <<>>)
        /\ v \in Seq(Words)
    BY <1>1, ElementIs
  <2> HIDE DEF v
  <2>3. Looked(buf, v, c)
    <3>1. PICK found : found = (v # <<>>) OBVIOUS
    <3> QED BY <3>1, <1>1, <2>1, <2>2, ChildLooks
  <2>4. c # NoWrapper => v # <<>>
    BY <2>1, <1>4 DEF revoltc_json_child
  <2> QED BY <1>1, <1>2, <2>2, <2>3, <2>4 DEF NthRelation
<1> QED BY <1>3, <1>4

-----------------------------------------------------------------------------
KeySet == {<<s>> : s \in Literals} \cup {<<s, t>> : s \in Literals, t \in Literals}
KeyTable(keys, p) == DOMAIN keys \subseteq Parts[p] /\ \A f \in DOMAIN keys : keys[f] \in KeySet

LEMMA KeyOf ==
  ASSUME NEW key \in KeySet
  PROVE  key \in Seq(Words) /\ Len(key) >= 1 /\ Len(key) \in Nat /\ key[1] \in Literals
<1>1. CASE \E s \in Literals : key = <<s>>
  <2>1. PICK s \in Literals : key = <<s>> BY <1>1
  <2>2. s \in Words BY DEF Words
  <2> QED BY <2>1, <2>2, OneOf
<1>2. CASE \E s \in Literals, t \in Literals : key = <<s, t>>
  <2>1. PICK s \in Literals, t \in Literals : key = <<s, t>> BY <1>2
  <2>2. s \in Words /\ t \in Words BY DEF Words
  <2>3. key \in Seq(Words) BY <2>1, <2>2, TwoOf
  <2>4. Len(key) = 2 /\ key[1] = s BY <2>1
  <2> QED BY <2>3, <2>4
<1> QED BY <1>1, <1>2 DEF KeySet

(* The name of a copy says whose it is; a copy is no object and no buffer.   *)
LEMMA FreshOwned ==
  ASSUME NEW k \in Kinds, NEW val \in Seq(Words), NEW key \in KeySet
  PROVE  Owner(k, Fresh(<<k>> \o (val \o key)))
<1>1. key \in Seq(Words) /\ Len(key) >= 1 /\ Len(key) \in Nat /\ key[1] \in Literals
  BY KeyOf
<1>2. k \in Words BY DEF Kinds, Words, Literals
<1>3. PICK a : a = <<k>> OBVIOUS
<1>4. a \in Seq(Words) /\ Len(a) = 1 /\ a[1] = k BY <1>2, <1>3, OneOf
<1>5. PICK c : c = val \o key OBVIOUS
<1>6. /\ c \in Seq(Words) /\ Len(c) = Len(val) + Len(key)
      /\ \A i \in 1 .. Len(val) + Len(key) : c[i] = IF i <= Len(val) THEN val[i] ELSE key[i - Len(val)]
  BY <1>1, <1>5, ConcatProperties
<1>7. Len(val) \in Nat /\ Len(c) \in Nat BY <1>6, LenProperties
<1>8. PICK b : b = a \o c OBVIOUS
<1>9. /\ b \in Seq(Words) /\ Len(b) = Len(a) + Len(c)
      /\ \A i \in 1 .. Len(a) + Len(c) : b[i] = IF i <= Len(a) THEN a[i] ELSE c[i - Len(a)]
  <2>1. a \in Seq(Words) /\ c \in Seq(Words) BY <1>4, <1>6
  <2> QED BY <2>1, <1>8, ConcatProperties
<1>10. b[1] = k /\ Len(b) = 1 + Len(c)
  BY <1>4, <1>7, <1>9
<1>11. ASSUME Len(b) = 2 PROVE b[2] \notin {"path", "header", "body"}
  <2>1. Len(c) = 1 /\ Len(val) = 0 BY <1>11, <1>10, <1>6, <1>7, <1>1
  <2>2. b[2] = c[1] BY <1>9, <1>4, <2>1
  <2>3. c[1] = key[1] BY <1>6, <2>1, <1>1
  <2> QED BY <2>2, <2>3, <1>1 DEF Literals
<1>12. Owner(k, b)
  BY <1>9, <1>10, <1>11, <1>6, <1>7, <1>1 DEF Owner
<1>13. Owner(k, b \o <<"again">>)
  <2>1. PICK d : d = <<"again">> OBVIOUS
  <2>2. "again" \in Words BY DEF Words, Literals
  <2>3. d \in Seq(Words) /\ Len(d) = 1 BY <2>1, <2>2, OneOf
  <2>4. PICK e : e = b \o d OBVIOUS
  <2>5. /\ e \in Seq(Words) /\ Len(e) = Len(b) + Len(d)
        /\ \A i \in 1 .. Len(b) + Len(d) : e[i] = IF i <= Len(b) THEN b[i] ELSE d[i - Len(b)]
    <3>1. b \in Seq(Words) /\ d \in Seq(Words) BY <2>3, <1>9
    <3> QED BY <3>1, <2>4, ConcatProperties
  <2>6. e[1] = k /\ Len(e) > 2
    BY <2>3, <2>5, <1>10, <1>6, <1>7, <1>1
  <2> QED BY <2>1, <2>4, <2>5, <2>6, <1>7 DEF Owner
<1> QED BY <1>3, <1>5, <1>8, <1>12, <1>13 DEF Fresh

LEMMA PartsAre ==
  /\ \A i \in 1 .. MostRelations : Relation(i) \in DOMAIN Parts /\ Parts[Relation(i)] = {"user_id"}
  /\ User \in DOMAIN Parts /\ Parts[User] = ObjectFields
  /\ Channel \in DOMAIN Parts /\ Parts[Channel] = ObjectFields
  /\ File \in DOMAIN Parts /\ Parts[File] = DOMAIN FileKeys \cup DOMAIN FileEndKeys
  /\ Icon \in DOMAIN Parts /\ Parts[Icon] = DOMAIN FileKeys \cup DOMAIN FileEndKeys
<1>1. User \notin Files \cup Relations /\ Channel \notin Files \cup Relations
  BY DEF User, Channel, Files, Relations, Relation
<1>2. File \in Files /\ File \notin Relations /\ Icon \in Files /\ Icon \notin Relations
  BY DEF File, Files, Relations, Relation, Icon
<1>3. DOMAIN RelationKeys = {"user_id"}
  BY DEF RelationKeys
<1>4. \A i \in 1 .. MostRelations : Relation(i) \in Relations
  BY DEF Relations
<1> QED BY <1>1, <1>2, <1>3, <1>4 DEF Parts, User, Channel

(* Strings are read into fields that the part has, from keys that are words. *)
LEMMA Tables ==
  /\ KeyTable(UserKeys, User) /\ KeyTable(StatusKeys, User) /\ KeyTable(BotKeys, User)
  /\ KeyTable(FileKeys, File) /\ KeyTable(FileEndKeys, File)
  /\ \A i \in 1 .. MostRelations : KeyTable(RelationKeys, Relation(i))
  /\ KeyTable(ChannelKeys(type), Channel) /\ KeyTable(VoiceEndKeys, Channel)
<1> USE DEF KeySet, Literals
<1>1. \A f \in DOMAIN UserKeys : UserKeys[f] \in KeySet BY DEF UserKeys
<1>2. \A f \in DOMAIN StatusKeys : StatusKeys[f] \in KeySet BY DEF StatusKeys
<1>3. \A f \in DOMAIN BotKeys : BotKeys[f] \in KeySet BY DEF BotKeys
<1>4. \A f \in DOMAIN FileKeys : FileKeys[f] \in KeySet BY DEF FileKeys
<1>5. \A f \in DOMAIN FileEndKeys : FileEndKeys[f] \in KeySet BY DEF FileEndKeys
<1>6. \A f \in DOMAIN RelationKeys : RelationKeys[f] \in KeySet BY DEF RelationKeys
<1>7. \A f \in DOMAIN VoiceEndKeys : VoiceEndKeys[f] \in KeySet BY DEF VoiceEndKeys
<1>8. \A f \in DOMAIN SmKeys : SmKeys[f] \in KeySet BY DEF SmKeys
<1>9. \A f \in DOMAIN DmKeys : DmKeys[f] \in KeySet BY DEF DmKeys
<1>10. \A f \in DOMAIN GroupKeys : GroupKeys[f] \in KeySet BY DEF GroupKeys
<1>11. \A f \in DOMAIN TextKeys : TextKeys[f] \in KeySet BY DEF TextKeys
<1>12. \A f \in DOMAIN VoiceKeys : VoiceKeys[f] \in KeySet BY DEF VoiceKeys
<1>13. ChannelKeys(type) \in {SmKeys, DmKeys, GroupKeys, TextKeys, VoiceKeys, <<>>}
  BY DEF ChannelKeys
<1>14. DOMAIN <<>> = {} OBVIOUS
<1> HIDE DEF KeySet, Literals
<1>15. \A f \in DOMAIN ChannelKeys(type) : ChannelKeys(type)[f] \in KeySet
  BY <1>8, <1>9, <1>10, <1>11, <1>12, <1>13, <1>14
<1>16. /\ DOMAIN SmKeys \subseteq ObjectFields /\ DOMAIN DmKeys \subseteq ObjectFields
       /\ DOMAIN GroupKeys \subseteq ObjectFields /\ DOMAIN TextKeys \subseteq ObjectFields
       /\ DOMAIN VoiceKeys \subseteq ObjectFields /\ DOMAIN VoiceEndKeys \subseteq ObjectFields
  BY
  DEF SmKeys, DmKeys, GroupKeys, TextKeys, VoiceKeys, VoiceEndKeys, ObjectFields, UserKeys, BotKeys, StatusKeys
<1>17. DOMAIN ChannelKeys(type) \subseteq ObjectFields
  BY <1>13, <1>14, <1>16
<1>18. DOMAIN RelationKeys = {"user_id"}
  BY DEF RelationKeys
<1> QED
  BY <1>1, <1>2, <1>3, <1>4, <1>5, <1>6, <1>7, <1>15, <1>16, <1>17, <1>18, PartsAre
  DEF KeyTable, ObjectFields

(* What get_str for keys leaves: the fields of obj hold nothing or a block   *)
(* of their own, the others what they held.                                  *)
GotStrings(fields, obj, keys) ==
  /\ DOMAIN field' = DOMAIN fields
  /\ \A p \in DOMAIN fields : p # obj => field'[p] = fields[p]
  /\ DOMAIN field'[obj] = DOMAIN fields[obj]
  /\ \A f \in DOMAIN fields[obj] :
       IF f \in DOMAIN keys
       THEN \/ field'[obj][f] = NULL
            \/ Owner(obj[1], field'[obj][f]) /\ field'[obj][f] \in blocks'
       ELSE field'[obj][f] = fields[obj][f]
  /\ blocks \subseteq blocks'
  /\ \A b \in blocks' \ blocks :
       Owner(obj[1], b) /\ \E f \in DOMAIN keys : f \in DOMAIN fields[obj] /\ field'[obj][f] = b
  /\ misuse' = misuse

(* What get_strn for several keys does to an object: fields hold new copies  *)
(* or nothing.                                                               *)
LEMMA Strings ==
  ASSUME JsonType, NEW fields, NEW obj \in DOMAIN fields, NEW keys,
         NEW w, w \in InUse \cup {NoWrapper},
         DOMAIN fields[obj] = Parts[obj], Head(obj) = obj[1], obj[1] \in Kinds,
         KeyTable(keys, obj), GetStrings(fields, obj, w, keys)
  PROVE  GotStrings(fields, obj, keys)
<1>1. PICK lost : /\ field' = [fields EXCEPT ![obj] = Copied(@, obj, w, keys, lost)]
                  /\ Memory(Copies(obj, w, keys, lost), {}, Cardinality(lost), Through(w))
  BY DEF GetStrings
<1>2. Through(w) = {}
  BY DEF Through, InUse
<1>3. blocks' = blocks \cup Copies(obj, w, keys, lost) /\ misuse' = misuse
  BY <1>1, <1>2 DEF Memory
<1> DEFINE old == fields[obj]
           new == Copied(old, obj, w, keys, lost)
           got == Copyable(w, keys) \ lost
<1>4. /\ DOMAIN field' = DOMAIN fields /\ field'[obj] = new
      /\ \A p \in DOMAIN fields : p # obj => field'[p] = fields[p]
  <2> HIDE DEF new
  <2>1. field' = [fields EXCEPT ![obj] = new] BY <1>1 DEF new
  <2> QED BY <2>1
<1>5. /\ DOMAIN new = DOMAIN old
      /\ \A f \in DOMAIN old :
           /\ f \notin DOMAIN keys => new[f] = old[f]
           /\ f \in DOMAIN keys /\ f \in got => new[f] = Copy(obj, w, keys[f])
           /\ f \in DOMAIN keys /\ f \notin got => new[f] = NULL
  <2> HIDE DEF old, got
  <2> QED BY DEF Copied, got
<1>6. \A f \in got : f \in DOMAIN keys /\ f \in DOMAIN old
  BY DEF Copyable, KeyTable
<1>7. ASSUME NEW f \in got PROVE Owner(obj[1], Copy(obj, w, keys[f]))
  <2>1. w \in InUse /\ keys[f] \in KeySet
    <3>1. w # NoWrapper /\ f \in DOMAIN keys BY DEF Copyable
    <3> QED BY <3>1 DEF KeyTable
  <2>2. PICK key : key = keys[f] OBVIOUS
  <2>3. PICK val : val = json[w].val OBVIOUS
  <2>4. PICK k : k = obj[1] OBVIOUS
  <2>5. val \in Seq(Words) BY <2>1, <2>3, InUseTyped, JsonBasics
  <2>6. At(w, key) = val \o key
    <3>1. key \in Seq(Words) BY <2>1, <2>2, KeyOf
    <3> QED BY <3>1, <2>1, <2>3, AtTyped
  <2>7. Owner(k, Fresh(<<k>> \o (val \o key)))
    BY <2>1, <2>2, <2>4, <2>5, FreshOwned
  <2> QED BY <2>2, <2>4, <2>6, <2>7 DEF Copy
<1>8. \A b \in Copies(obj, w, keys, lost) : \E f \in got : b = Copy(obj, w, keys[f])
  BY DEF Copies
<1>9. \A f \in got : Copy(obj, w, keys[f]) \in Copies(obj, w, keys, lost)
  BY DEF Copies
<1> HIDE DEF old, new, got
<1>10. \A f \in DOMAIN old :
         IF f \in DOMAIN keys
         THEN new[f] = NULL \/ (Owner(obj[1], new[f]) /\ new[f] \in blocks')
         ELSE new[f] = old[f]
  BY <1>3, <1>5, <1>7, <1>9
<1>11. ASSUME NEW b \in blocks' \ blocks
       PROVE Owner(obj[1], b) /\ \E f \in DOMAIN keys : f \in DOMAIN old /\ new[f] = b
  <2>1. PICK f \in got : b = Copy(obj, w, keys[f]) BY <1>3, <1>8
  <2>2. Owner(obj[1], b) BY <2>1, <1>7
  <2>3. new[f] = b BY <2>1, <1>5, <1>6
  <2> QED BY <2>2, <2>3, <1>6
<1>12. blocks \subseteq blocks' /\ misuse' = misuse
  BY <1>3
<1>13. old = fields[obj]
  BY DEF old
<1> QED BY <1>4, <1>5, <1>10, <1>11, <1>12, <1>13 DEF GotStrings

(* A name that is copied, looked at and freed leaves the heap as it was.     *)
LEMMA NamesQuiet ==
  ASSUME NEW w, w \in InUse \cup {NoWrapper}, NEW key, NEW name, NEW v, NEW m,
         GetName(w, key, name, v, m)
  PROVE  blocks' = blocks /\ misuse' = misuse
<1>1. Through(w) = {}
  BY DEF Through, InUse
<1> QED BY <1>1 DEF GetName, Memory

LEMMA Heads ==
  /\ Head(User) = "user" /\ User[1] = "user" /\ Head(Channel) = "channel" /\ Channel[1] = "channel"
  /\ kind \in Kinds => Head(File) = kind /\ File[1] = kind
  /\ \A i \in 1 .. MostRelations : Head(Relation(i)) = "user" /\ Relation(i)[1] = "user"
  /\ Icon[1] = "channel"
<1>1. Head(User) = "user" /\ User[1] = "user" BY DEF User
<1>2. Head(Channel) = "channel" /\ Channel[1] = "channel" BY DEF Channel
<1>3. kind \in Kinds => Head(File) = kind /\ File[1] = kind BY DEF File, Kinds
<1>4. \A i \in 1 .. MostRelations : Head(Relation(i)) = "user" /\ Relation(i)[1] = "user"
  BY DEF Relation
<1>5. Icon[1] = "channel" BY DEF Icon
<1> QED BY <1>1, <1>2, <1>3, <1>4, <1>5

(* What an application that reads a document can rely on.                    *)
LEMMA InPlace ==
  ASSUME Core
  PROVE  /\ JsonType /\ DOMAIN field = DOMAIN Parts /\ kind \in Kinds
         /\ \A p \in DOMAIN Parts : DOMAIN field[p] = Parts[p]
         /\ at \in OpenPlaces => root = 1 /\ root \in InUse
BY DEF Core, WrapperInv, PlaceInv, FieldInv

(* The strings of each part are read from a wrapper that is in use.          *)
LEMMA UserReads ==
  ASSUME Core, UserStrings
  PROVE  GotStrings(Wiped("user", NULL), User, UserKeys)
<1>1. GetStrings(Wiped("user", NULL), User, root, UserKeys) /\ at = "user" BY DEF UserStrings
<1>2. JsonType /\ root \in InUse
  BY <1>1, InPlace DEF OpenPlaces, UserPlaces
<1>3. PICK fields : fields = Wiped("user", NULL)
  OBVIOUS
<1>4. User \in DOMAIN fields /\ DOMAIN fields[User] = Parts[User]
  <2>1. User \notin Relations /\ User[1] = "user" BY DEF User, Relations, Relation
  <2> QED BY <2>1, <1>3, PartsAre DEF Wiped
<1> QED BY <1>1, <1>2, <1>3, <1>4, Heads, Tables, Strings DEF Kinds

LEMMA RootReads ==
  ASSUME Core, at \in OpenPlaces, NEW obj \in {User, Channel}, NEW keys, KeyTable(keys, obj),
         GetStrings(field, obj, root, keys)
  PROVE  GotStrings(field, obj, keys)
<1>1. JsonType /\ root \in InUse
  BY InPlace
<1>2. obj \in DOMAIN field /\ DOMAIN field[obj] = Parts[obj]
  BY InPlace, PartsAre
<1>3. Head(obj) = obj[1] /\ obj[1] \in Kinds
  BY Heads DEF Kinds
<1> QED BY <1>1, <1>2, <1>3, Strings

LEMMA StatusReads == Core /\ Status => GotStrings(field, User, StatusKeys)
<1>1. SUFFICES ASSUME Core, Status PROVE GotStrings(field, User, StatusKeys)
  OBVIOUS
<1>2. at \in OpenPlaces /\ GetStrings(field, User, root, StatusKeys)
  BY <1>1 DEF Status, OpenPlaces, UserPlaces
<1> QED BY <1>1, <1>2, Tables, RootReads

LEMMA BotReads == Core /\ Bot => GotStrings(field, User, BotKeys)
<1>1. SUFFICES ASSUME Core, Bot PROVE GotStrings(field, User, BotKeys)
  OBVIOUS
<1>2. at \in OpenPlaces /\ GetStrings(field, User, root, BotKeys)
  BY <1>1 DEF Bot, OpenPlaces, UserPlaces
<1> QED BY <1>1, <1>2, Tables, RootReads

LEMMA ChannelReads == Core /\ ChannelStrings => GotStrings(field, Channel, ChannelKeys(type))
<1>1. SUFFICES ASSUME Core, ChannelStrings PROVE GotStrings(field, Channel, ChannelKeys(type))
  OBVIOUS
<1>2. at \in OpenPlaces /\ GetStrings(field, Channel, root, ChannelKeys(type))
  BY <1>1 DEF ChannelStrings, OpenPlaces, ChannelPlaces
<1> QED BY <1>1, <1>2, Tables, RootReads

LEMMA VoiceEndReads == Core /\ VoiceEnd => GotStrings(field, Channel, VoiceEndKeys)
<1>1. SUFFICES ASSUME Core, VoiceEnd PROVE GotStrings(field, Channel, VoiceEndKeys)
  OBVIOUS
<1>2. at \in OpenPlaces /\ GetStrings(field, Channel, root, VoiceEndKeys)
  BY <1>1 DEF VoiceEnd, OpenPlaces, ChannelPlaces
<1> QED BY <1>1, <1>2, Tables, RootReads

LEMMA RelationReads ==
  ASSUME Core, RelationString
  PROVE  /\ count + 1 \in 1 .. MostRelations
         /\ GotStrings(field, Relation(count + 1), RelationKeys)
<1>1. /\ at = "relation" /\ count < max /\ GetStrings(field, Relation(count + 1), buf, RelationKeys)
      /\ at \in OpenPlaces
  BY DEF RelationString, OpenPlaces, UserPlaces
<1>2. JsonType /\ buf \in InUse \cup {NoWrapper} /\ DocInv /\ IsArray(<<"relations">>) /\ count \in Nat
  BY <1>1 DEF Core, WrapperInv, DocInv, InRelations
<1>3. count + 1 \in 1 .. MostRelations
  <2>1. ArrayOf(<<"relations">>) \in Seq(Words) /\ Len(ArrayOf(<<"relations">>)) <= MostRelations
    BY <1>1, <1>2, Arrays DEF IsArray
  <2>2. max <= MostRelations /\ max \in Nat
    BY <2>1, LenProperties DEF max, ArrayOf
  <2> QED BY <2>2, <1>1, <1>2, FetchBounds
<1>4. PICK obj : obj = Relation(count + 1)
  OBVIOUS
<1>5. obj \in DOMAIN field /\ DOMAIN field[obj] = Parts[obj]
  BY <1>3, <1>4, InPlace, PartsAre
<1>6. Head(obj) = obj[1] /\ obj[1] \in Kinds
  BY <1>3, <1>4, Heads DEF Kinds
<1>7. KeyTable(RelationKeys, obj)
  BY <1>3, <1>4, Tables
<1> QED BY <1>1, <1>2, <1>3, <1>4, <1>5, <1>6, <1>7, Strings

LEMMA FileEndReads ==
  ASSUME Core, FileEnd
  PROVE  GotStrings(field, File, FileEndKeys)
<1>1. at = "file end" /\ GetStrings(field, File, file, FileEndKeys)
  BY DEF FileEnd
<1>2. JsonType /\ file \in InUse \cup {NoWrapper} /\ kind \in Kinds
  BY <1>1, InPlace DEF Core, WrapperInv, FilePlaces
<1>3. PICK obj : obj = File
  OBVIOUS
<1>4. obj \in DOMAIN field /\ DOMAIN field[obj] = Parts[obj]
  BY <1>3, InPlace, PartsAre
<1>5. Head(obj) = obj[1] /\ obj[1] \in Kinds
  BY <1>2, <1>3, Heads
<1> QED BY <1>1, <1>2, <1>3, <1>4, <1>5, Tables, Strings

FileNulled == [field EXCEPT ![File] = [f \in DOMAIN @ |-> NULL]]
LEMMA FileReads ==
  ASSUME Core, FileStrings, file # NoWrapper
  PROVE  GotStrings(FileNulled, File, FileKeys)
<1>1. at = "file" /\ GetStrings(FileNulled, File, file, FileKeys)
  BY DEF FileStrings, FileNulled
<1>2. JsonType /\ file \in InUse \cup {NoWrapper} /\ kind \in Kinds
  BY <1>1, InPlace DEF Core, WrapperInv, FilePlaces
<1>3. PICK obj, fields : obj = File /\ fields = FileNulled
  OBVIOUS
<1>4. obj \in DOMAIN fields /\ DOMAIN fields[obj] = Parts[obj]
  BY <1>3, InPlace, PartsAre DEF FileNulled
<1>5. Head(obj) = obj[1] /\ obj[1] \in Kinds
  BY <1>2, <1>3, Heads
<1> QED BY <1>1, <1>2, <1>3, <1>4, <1>5, Tables, Strings

-----------------------------------------------------------------------------
(* Nothing happens to the document or its wrappers.                          *)
SameWrappers == json' = json /\ doc' = doc /\ InUse' = InUse

LEMMA InUseSame ==
  ASSUME JsonType, json' = json, doc' = doc,
         \A b \in (blocks \ blocks') \cup (blocks' \ blocks) : b[1] # "json"
  PROVE  SameWrappers
<1>1. ASSUME NEW w \in DOMAIN json PROVE Wrapper(w) \in blocks' <=> Wrapper(w) \in blocks
  <2>1. Wrapper(w)[1] = "json" BY DEF Wrapper
  <2> QED BY <2>1
<1> QED BY <1>1 DEF SameWrappers, InUse

LEMMA ReadsSame ==
  ASSUME JsonType, NEW fields, NEW obj, NEW keys, obj[1] \in Kinds,
         GotStrings(fields, obj, keys), json' = json, doc' = doc
  PROVE  SameWrappers
<1>1. \A b \in (blocks \ blocks') \cup (blocks' \ blocks) : b[1] # "json"
  BY DEF GotStrings, Kinds, Owner
<1> QED BY <1>1, InUseSame

LEMMA BlocksSame ==
  ASSUME JsonType, blocks' = blocks, json' = json, doc' = doc
  PROVE  SameWrappers
BY InUseSame

LEMMA MemorySame ==
  ASSUME JsonType, NEW new, NEW freed, NEW n, NEW wrong, Memory(new, freed, n, wrong),
         \A b \in new \cup freed : b[1] # "json", json' = json, doc' = doc
  PROVE  SameWrappers
<1>1. \A b \in (blocks \ blocks') \cup (blocks' \ blocks) : b[1] # "json"
  BY DEF Memory
<1> QED BY <1>1, InUseSame

LEMMA NotJson ==
  /\ \A b \in ClientBlocks : b[1] # "json"
  /\ \A b \in RequestBlocks : b[1] # "json"
  /\ kind \in Kinds => <<kind>>[1] # "json"
  /\ kind \in Kinds => \A p : <<kind, p>>[1] # "json"
  /\ <<"user", "relations">>[1] # "json"
<1>1. \A b \in ClientBlocks : b[1] # "json" BY DEF ClientBlocks
<1>2. \A b \in RequestBlocks : b[1] # "json" BY DEF RequestBlocks
<1>3. kind \in Kinds => <<kind>>[1] # "json" BY DEF Kinds
<1>4. kind \in Kinds => \A p : <<kind, p>>[1] # "json" BY DEF Kinds
<1> QED BY <1>1, <1>2, <1>3, <1>4

(* The cleanup of a part that is written frees only what it holds.           *)
LEMMA OwnedHeld ==
  ASSUME NEW k \in Kinds, Written(k), FieldInv, NEW p \in PartsOf(k), NEW fs \in SUBSET Parts[p]
  PROVE  Owned(p, fs) \subseteq Held(k)
<1>1. ASSUME NEW b \in Owned(p, fs) PROVE b \in Held(k)
  <2>1. PICK f \in fs : b = field[p][f] /\ b # NULL
    BY DEF Owned
  <2>2. p \in DOMAIN Parts /\ DOMAIN field[p] = Parts[p]
    BY DEF PartsOf, FieldInv
  <2>3. b # WILD BY <2>1, <2>2 DEF Written
  <2> QED BY <2>1, <2>3 DEF Held, Nowhere
<1> QED BY <1>1

LEMMA UserParts ==
  /\ User \in PartsOf("user") /\ <<"user", "avatar">> \in PartsOf("user")
  /\ \A i \in 1 .. MostRelations : Relation(i) \in PartsOf("user")
  /\ Parts[<<"user", "avatar">>] = DOMAIN FileKeys \cup DOMAIN FileEndKeys
  /\ Channel \in PartsOf("channel") /\ Icon \in PartsOf("channel")
  /\ \A p \in PartsOf("user") :
       p = User \/ p = <<"user", "avatar">> \/ \E i \in 1 .. MostRelations : p = Relation(i)
  /\ \A p \in PartsOf("channel") : p = Channel \/ p = Icon
<1>1. <<"user", "avatar">> \in Files /\ <<"user", "avatar">> \notin Relations
  BY DEF Files, Relations, Relation
<1>2. DOMAIN Parts = {User, Channel} \cup Files \cup Relations
  BY DEF Parts, User, Channel
<1>3. Parts[<<"user", "avatar">>] = DOMAIN FileKeys \cup DOMAIN FileEndKeys
  BY <1>1 DEF Parts
<1>4. Files = {<<"user", "avatar">>, Icon} BY DEF Files, Icon
<1>5. <<"user", "avatar">>[1] = "user" OBVIOUS
<1>6. \A p \in Relations : p[1] = "user" /\ \E i \in 1 .. MostRelations : p = Relation(i)
  BY Heads DEF Relations
<1> QED BY <1>1, <1>2, <1>3, <1>4, <1>5, <1>6, Heads, PartsAre DEF PartsOf

(* The cleanup of a user frees nothing but strings of that user.             *)
LEMMA UserCleanup ==
  ASSUME FieldInv, Written("user"), count \in 0 .. MostRelations
  PROVE  revolt_user_cleanup \subseteq Held("user")
<1>0. "user" \in Kinds BY DEF Kinds
<1>1. ASSUME NEW fs \in SUBSET ObjectFields PROVE Owned(User, fs) \subseteq Held("user")
  <2>1. fs \in SUBSET Parts[User] /\ User \in PartsOf("user") BY PartsAre, UserParts
  <2> QED BY <2>1, <1>0, OwnedHeld
<1>2. revolt_file_cleanup(<<"user", "avatar">>) \subseteq Held("user")
  <2>1. PICK p : p = <<"user", "avatar">> OBVIOUS
  <2>2. {"id", "tag", "filename", "content_type", "message_id", "user_id", "server_id", "object_id"}
          \in SUBSET Parts[p]
    BY <2>1, UserParts DEF FileKeys, FileEndKeys
  <2>3. p \in PartsOf("user") BY <2>1, UserParts
  <2> QED BY <2>1, <2>2, <2>3, <1>0, OwnedHeld DEF revolt_file_cleanup
<1>3. ASSUME NEW i \in 1 .. count PROVE Owned(Relation(i), {"user_id"}) \subseteq Held("user")
  <2>1. i \in 1 .. MostRelations BY FetchBounds
  <2>2. PICK p : p = Relation(i) OBVIOUS
  <2>3. p \in PartsOf("user") /\ {"user_id"} \in SUBSET Parts[p] BY <2>1, <2>2, PartsAre, UserParts
  <2> QED BY <2>2, <2>3, <1>0, OwnedHeld
<1>4. /\ {"id", "username", "discriminator", "display_name"} \in SUBSET ObjectFields
      /\ {"text"} \in SUBSET ObjectFields
      /\ {"relations", "owner_id"} \in SUBSET ObjectFields
  BY DEF ObjectFields, UserKeys, StatusKeys, BotKeys
<1>5. /\ Owned(User, {"id", "username", "discriminator", "display_name"}) \subseteq Held("user")
      /\ Owned(User, {"text"}) \subseteq Held("user")
      /\ Owned(User, {"relations", "owner_id"}) \subseteq Held("user")
  BY <1>1, <1>4
<1>6. UNION {Owned(Relation(i), {"user_id"}) : i \in 1 .. count} \subseteq Held("user")
  BY <1>3
<1> DEFINE part == UNION {Owned(Relation(i), {"user_id"}) : i \in 1 .. count}
<1>7. revolt_user_cleanup =
        Owned(User, {"id", "username", "discriminator", "display_name"})
        \cup revolt_file_cleanup(<<"user", "avatar">>) \cup Owned(User, {"text"})
        \cup part \cup Owned(User, {"relations", "owner_id"})
  BY DEF revolt_user_cleanup
<1>8. part \subseteq Held("user")
  BY <1>6
<1> HIDE DEF part
<1> QED BY <1>2, <1>5, <1>7, <1>8

(* The cleanup of a channel frees nothing but strings of that channel.       *)
LEMMA ChannelCleanup ==
  ASSUME FieldInv, Written("channel"), NEW c
  PROVE  revolt_channel_cleanup(c) \subseteq Held("channel")
<1>0. "channel" \in Kinds BY DEF Kinds
<1>1. ASSUME NEW fs \in SUBSET ObjectFields PROVE Owned(Channel, fs) \subseteq Held("channel")
  <2>1. fs \in SUBSET Parts[Channel] /\ Channel \in PartsOf("channel") BY PartsAre, UserParts
  <2> QED BY <2>1, <1>0, OwnedHeld
<1>2. revolt_file_cleanup(Icon) \subseteq Held("channel")
  <2>2. {"id", "tag", "filename", "content_type", "message_id", "user_id", "server_id", "object_id"}
          \in SUBSET Parts[Icon]
    BY PartsAre DEF FileKeys, FileEndKeys
  <2>3. Icon \in PartsOf("channel") BY UserParts
  <2> QED BY <2>2, <2>3, <1>0, OwnedHeld DEF revolt_file_cleanup
<1>3. /\ {"id", "owner_id"} \in SUBSET ObjectFields
      /\ {"id", "last_message_id"} \in SUBSET ObjectFields
      /\ {"id", "owner_id", "last_message_id", "name", "description"} \in SUBSET ObjectFields
      /\ {"id", "server_id", "last_message_id", "name", "description"} \in SUBSET ObjectFields
      /\ {"id", "server_id", "name", "description"} \in SUBSET ObjectFields
  BY DEF ObjectFields, UserKeys, GroupKeys, TextKeys
<1>4. Icon = <<"channel", "icon">> BY DEF Icon
<1>5. /\ Owned(Channel, {"id", "owner_id"}) \subseteq Held("channel")
      /\ Owned(Channel, {"id", "last_message_id"}) \subseteq Held("channel")
      /\ Owned(Channel, {"id", "owner_id", "last_message_id", "name", "description"}) \subseteq Held("channel")
      /\ Owned(Channel, {"id", "server_id", "last_message_id", "name", "description"}) \subseteq Held("channel")
      /\ Owned(Channel, {"id", "server_id", "name", "description"}) \subseteq Held("channel")
  BY <1>1, <1>3
<1>6. CASE type = "SM" BY <1>5, <1>6 DEF revolt_channel_cleanup
<1>7. CASE type = "DM" BY <1>5, <1>7 DEF revolt_channel_cleanup
<1>8. CASE type = "GROUP" BY <1>2, <1>4, <1>5, <1>8 DEF revolt_channel_cleanup
<1>9. CASE type = "TEXT" BY <1>2, <1>4, <1>5, <1>9 DEF revolt_channel_cleanup
<1>10. CASE type = "VOICE" BY <1>2, <1>4, <1>5, <1>10 DEF revolt_channel_cleanup
<1>11. CASE type \notin {"SM", "DM", "GROUP", "TEXT", "VOICE"} BY <1>11 DEF revolt_channel_cleanup
<1> QED BY <1>6, <1>7, <1>8, <1>9, <1>10, <1>11

Looks == GetFile \/ GetMetadata \/ GetRelations \/ FirstRelation \/ NextRelation

(* What an object holds is named after it.                                   *)
LEMMA HeldHeads ==
  ASSUME FieldInv, NEW k \in Kinds, NEW b \in Held(k)
  PROVE  Owner(k, b)
<1>0. b \notin Nowhere /\ b \in UNION {{field[p][f] : f \in Parts[p]} : p \in PartsOf(k)}
  BY DEF Held
<1>1. PICK p \in PartsOf(k) : b \in {field[p][f] : f \in Parts[p]}
  BY <1>0
<1>2. PICK f \in Parts[p] : b = field[p][f]
  BY <1>1
<1>3. p \in DOMAIN Parts /\ p[1] = k BY DEF PartsOf
<1> QED BY <1>0, <1>2, <1>3 DEF FieldInv

(* Deletion of an object does not touch the wrappers.                        *)
LEMMA DeleteSame ==
  ASSUME Core, NEW k \in Kinds, NEW owned, Written(k) => owned \subseteq Held(k), NEW next,
         Delete(k, owned, next), json' = json, doc' = doc
  PROVE  SameWrappers
<1>1. JsonType /\ FieldInv BY InPlace DEF Core
<1>2. CASE object[k] = NULL
  BY <1>1, <1>2, MemorySame DEF Delete
<1>3. CASE object[k] # NULL /\ Written(k)
  <2>1. Memory({}, owned \cup {object[k]}, 0, {}) BY <1>3 DEF Delete
  <2>2. object[k] = <<k>> BY <1>3 DEF Core, PlaceInv
  <2>3. \A b \in owned \cup {object[k]} : b[1] # "json"
    BY <1>1, <1>3, <2>2, HeldHeads DEF Owner, Kinds
  <2>4. PICK freed : freed = owned \cup {object[k]} OBVIOUS
  <2>5. PICK new : new = {} OBVIOUS
  <2>6. \A b \in new \cup freed : b[1] # "json" BY <2>3, <2>4, <2>5
  <2>7. Memory(new, freed, 0, {}) BY <2>1, <2>4, <2>5
  <2> QED BY <1>1, <2>6, <2>7, MemorySame
<1>4. CASE object[k] # NULL /\ ~Written(k)
  <2>1. Memory({}, {}, 0, {"wild"}) BY <1>4 DEF Delete
  <2> QED BY <1>1, <2>1, MemorySame
<1> QED BY <1>2, <1>3, <1>4

LEMMA QuietFile ==
  ASSUME Core, FileActions, ~Looks
  PROVE  SameWrappers
<1>1. JsonType /\ kind \in Kinds BY InPlace
<1>2. CASE FileStrings
  <2>1. CASE file = NoWrapper
    <3>1. json' = json /\ doc' = doc /\ Memory({}, {}, 0, {})
      BY <1>2, <2>1 DEF FileStrings, jvars
    <3> QED BY <1>1, <3>1, MemorySame
  <2>2. CASE file # NoWrapper
    <3>1. json' = json /\ doc' = doc BY <1>2, <2>2, StringsFrame DEF FileStrings
    <3>2. GotStrings(FileNulled, File, FileKeys) BY <1>2, <2>2, FileReads
    <3>3. PICK fields, obj : fields = FileNulled /\ obj = File OBVIOUS
    <3>4. obj[1] \in Kinds BY <1>1, <3>3, Heads
    <3> QED BY <1>1, <3>1, <3>2, <3>3, <3>4, ReadsSame
  <2> QED BY <2>1, <2>2
<1>3. CASE FileEnd
  <2>1. json' = json /\ doc' = doc BY <1>3, StringsFrame DEF FileEnd
  <2>2. GotStrings(field, File, FileEndKeys) BY <1>3, FileEndReads
  <2>3. PICK obj : obj = File OBVIOUS
  <2>4. obj[1] \in Kinds BY <1>1, <2>3, Heads
  <2> QED BY <1>1, <2>1, <2>2, <2>3, <2>4, ReadsSame
<1>4. CASE revolt_file_metadata_deserialize_json_obj
  <2>1. CASE buf = NoWrapper
    <3>1. json' = json /\ doc' = doc /\ Memory({}, {}, 0, {})
      BY <1>4, <2>1 DEF revolt_file_metadata_deserialize_json_obj, jvars
    <3> QED BY <1>1, <3>1, MemorySame
  <2>2. CASE buf # NoWrapper
    <3>1. PICK name : GetName(buf, <<"type">>, name, File, metadata_type(name))
      BY <1>4, <2>2 DEF revolt_file_metadata_deserialize_json_obj
    <3>2. buf \in InUse \cup {NoWrapper}
      BY <1>4 DEF revolt_file_metadata_deserialize_json_obj, Core, WrapperInv
    <3>3. blocks' = blocks /\ json' = json /\ doc' = doc BY <3>1, <3>2, NamesQuiet, NameFrame
    <3> QED BY <1>1, <3>3, BlocksSame
  <2> QED BY <2>1, <2>2
<1> QED BY <1>2, <1>3, <1>4 DEF FileActions, Looks

LEMMA QuietNames ==
  ASSUME Core, Presence \/ RelationStatus \/ Relationship \/ ChannelType
  PROVE  json' = json /\ doc' = doc /\ blocks' = blocks /\ misuse' = misuse
<1>1. CASE Presence
  <2>1. at \in OpenPlaces BY <1>1 DEF Presence, OpenPlaces, UserPlaces
  <2>2. PICK name, v, m : GetName(root, <<"status", "presence">>, name, v, m)
    BY <1>1 DEF Presence
  <2> QED BY <2>1, <2>2, InPlace, NamesQuiet, NameFrame
<1>2. CASE RelationStatus
  <2>1. buf \in InUse \cup {NoWrapper} BY <1>2 DEF RelationStatus, Core, WrapperInv, InRelations
  <2>2. PICK name, v, m : GetName(buf, <<"status">>, name, v, m) BY <1>2 DEF RelationStatus
  <2> QED BY <2>1, <2>2, NamesQuiet, NameFrame
<1>3. CASE Relationship
  <2>1. at \in OpenPlaces BY <1>3 DEF Relationship, OpenPlaces, UserPlaces
  <2>2. PICK name, v, m : GetName(root, <<"relationship">>, name, v, m) BY <1>3 DEF Relationship
  <2> QED BY <2>1, <2>2, InPlace, NamesQuiet, NameFrame
<1>4. CASE ChannelType
  <2>1. at \in OpenPlaces BY <1>4 DEF ChannelType, OpenPlaces, ChannelPlaces
  <2>2. PICK name, v, m : GetName(root, <<"channel_type">>, name, v, m) BY <1>4 DEF ChannelType
  <2> QED BY <2>1, <2>2, InPlace, NamesQuiet, NameFrame
<1> QED BY <1>1, <1>2, <1>3, <1>4

(* Only looks change the wrappers while a user is read.                      *)
LEMMA QuietUser ==
  ASSUME Core, revolt_user_deserialize_json_obj, ~Looks
  PROVE  SameWrappers
<1>1. JsonType /\ kind \in Kinds BY InPlace
<1>2. CASE UserStrings
  <2>1. json' = json /\ doc' = doc BY <1>2, StringsFrame DEF UserStrings
  <2>2. PICK fields, obj : fields = Wiped("user", NULL) /\ obj = User OBVIOUS
  <2>3. GotStrings(fields, obj, UserKeys) BY <1>2, <2>2, UserReads
  <2> QED BY <1>1, <2>1, <2>2, <2>3, Heads, ReadsSame DEF Kinds
<1>3. CASE Status
  <2>1. json' = json /\ doc' = doc BY <1>3, StringsFrame DEF Status
  <2>2. GotStrings(field, User, StatusKeys) BY <1>3, StatusReads
  <2> QED BY <1>1, <2>1, <2>2, Heads, ReadsSame DEF Kinds
<1>4. CASE Bot
  <2>1. json' = json /\ doc' = doc BY <1>4, StringsFrame DEF Bot
  <2>2. GotStrings(field, User, BotKeys) BY <1>4, BotReads
  <2> QED BY <1>1, <2>1, <2>2, Heads, ReadsSame DEF Kinds
<1>5. CASE RelationString
  <2>1. json' = json /\ doc' = doc BY <1>5, StringsFrame DEF RelationString
  <2>2. PICK obj : obj = Relation(count + 1) OBVIOUS
  <2>3. GotStrings(field, obj, RelationKeys) /\ obj[1] \in Kinds
    BY <1>5, <2>2, RelationReads, Heads DEF Kinds
  <2> QED BY <1>1, <2>1, <2>3, ReadsSame
<1>6. CASE Presence \/ RelationStatus \/ Relationship
  BY <1>1, <1>6, QuietNames, BlocksSame
<1>7. CASE AllocateRelations
  <2>1. json' = json /\ doc' = doc BY <1>7 DEF AllocateRelations, jvars
  <2>2. \/ Memory({<<"user", "relations">>}, {}, 0, {})
        \/ Memory({}, {}, 1, {})
    BY <1>7 DEF AllocateRelations
  <2>3. \A b \in {<<"user", "relations">>} \cup {} : b[1] # "json" BY NotJson
  <2> QED BY <1>1, <2>1, <2>2, <2>3, MemorySame
<1>8. CASE RelationsMissing
  <2>1. json' = json /\ doc' = doc /\ Memory({}, {}, 0, {"null"}) BY <1>8 DEF RelationsMissing, jvars
  <2> QED BY <1>1, <2>1, MemorySame
<1>9. CASE NoMoreRelations
  BY <1>1, <1>9, BlocksSame DEF NoMoreRelations, jvars, mvars
<1> QED BY <1>2, <1>3, <1>4, <1>5, <1>6, <1>7, <1>8, <1>9
        DEF revolt_user_deserialize_json_obj, Looks

LEMMA QuietChannel ==
  ASSUME Core, revolt_channel_deserialize_json_obj
  PROVE  SameWrappers
<1>1. JsonType /\ kind \in Kinds BY InPlace
<1>2. CASE ChannelType
  BY <1>1, <1>2, QuietNames, BlocksSame
<1>3. CASE ChannelStrings
  <2>1. json' = json /\ doc' = doc BY <1>3, StringsFrame DEF ChannelStrings
  <2>2. PICK keys : keys = ChannelKeys(type) OBVIOUS
  <2>3. GotStrings(field, Channel, keys) BY <1>3, <2>2, ChannelReads
  <2> QED BY <1>1, <2>1, <2>3, Heads, ReadsSame DEF Kinds
<1>4. CASE VoiceEnd
  <2>1. json' = json /\ doc' = doc BY <1>4, StringsFrame DEF VoiceEnd
  <2>3. GotStrings(field, Channel, VoiceEndKeys) BY <1>4, VoiceEndReads
  <2> QED BY <1>1, <2>1, <2>3, Heads, ReadsSame DEF Kinds
<1>5. CASE Permissions
  <2>1. json' = json /\ doc' = doc /\ Memory({}, {}, 0, Through(root)) BY <1>5 DEF Permissions, jvars
  <2> QED BY <1>1, <2>1, MemorySame
<1> QED BY <1>2, <1>3, <1>4, <1>5 DEF revolt_channel_deserialize_json_obj

(* Outside of deserialisation no wrapper is made or deleted.                 *)
LEMMA QuietRest ==
  ASSUME Core, revolt_init \/ Fetch \/ FetchReturns \/ RequestActions \/ DeleteActions
  PROVE  SameWrappers
<1>1. JsonType /\ kind \in Kinds BY InPlace
<1>2. CASE revolt_init
  <2>1. json' = json /\ doc' = doc BY <1>2 DEF revolt_init, jvars
  <2>2. \/ Memory(ClientBlocks, {}, 0, {}) \/ Memory({}, {}, 0, {})
        \/ Memory({}, {}, 1, {"null"}) \/ Memory({}, {}, 1, {})
    BY <1>2 DEF revolt_init
  <2>3. \A b \in ClientBlocks \cup {} : b[1] # "json" BY NotJson
  <2> HIDE DEF ClientBlocks
  <2> QED BY <1>1, <2>1, <2>2, <2>3, MemorySame
<1>3. CASE Fetch
  <2>1. json' = json /\ doc' = doc BY <1>3 DEF Fetch, jvars
  <2>2. \/ Memory({<<kind>>, <<kind, "path">>}, {}, 0, {})
        \/ Memory({}, {}, 1, {}) \/ Memory({<<kind>>}, {}, 1, {})
    BY <1>3 DEF Fetch
  <2>3. \A b \in {<<kind>>, <<kind, "path">>} \cup {} : b[1] # "json" BY <1>1, NotJson
  <2>4. \A b \in {<<kind>>} \cup {} : b[1] # "json" BY <1>1, NotJson
  <2> QED BY <1>1, <2>1, <2>2, <2>3, <2>4, MemorySame
<1>4. CASE FetchReturns
  <2>1. json' = json /\ doc' = doc BY <1>4 DEF FetchReturns, jvars
  <2>2. PICK freed : /\ freed = {<<kind, "path">>} \cup {<<kind, p>> : p \in {q \in DOMAIN resp : resp[q] > 0}}
                     /\ Memory({}, freed, 0, {})
    BY <1>4 DEF FetchReturns
  <2>3. \A b \in {} \cup freed : b[1] # "json" BY <1>1, <2>2, NotJson
  <2> QED BY <1>1, <2>1, <2>2, <2>3, MemorySame
<1>5. CASE RequestActions
  <2>1. json' = json /\ doc' = doc
    BY <1>5 DEF RequestActions, revolt_rest_request, write_callback, request_perform, jvars
  <2>2. \/ Memory({}, {}, 1, {}) \/ Memory({}, {}, 0, {}) \/ Memory(RequestBlocks, {}, 0, {})
        \/ Memory({}, RequestBlocks, 0, {})
        \/ \E part : Memory({<<kind, part>>}, {}, 0, {})
    BY <1>5 DEF RequestActions, revolt_rest_request, revoltc_http_request, write_callback, request_perform
  <2>3. \A b \in RequestBlocks \cup {} : b[1] # "json" BY NotJson
  <2>4. \A b \in {} \cup RequestBlocks : b[1] # "json" BY NotJson
  <2>5. ASSUME NEW part, Memory({<<kind, part>>}, {}, 0, {}) PROVE SameWrappers
    <3>1. \A b \in {<<kind, part>>} \cup {} : b[1] # "json" BY <1>1, NotJson
    <3> QED BY <1>1, <2>1, <2>5, <3>1, MemorySame
  <2> HIDE DEF RequestBlocks
  <2> QED BY <1>1, <2>1, <2>2, <2>3, <2>4, <2>5, MemorySame
<1>6. CASE DeleteActions
  <2>1. json' = json /\ doc' = doc
    BY <1>6 DEF DeleteActions, revolt_user_delete, revolt_channel_delete, revolt_cleanup, jvars
  <2>2. FieldInv /\ count \in 0 .. MostRelations BY DEF Core, DocInv
  <2>3. CASE revolt_user_delete
    <3>1. Delete("user", revolt_user_cleanup, "delete channel") BY <2>3 DEF revolt_user_delete
    <3>2. "user" \in Kinds BY DEF Kinds
    <3> QED BY <2>1, <2>2, <3>1, <3>2, UserCleanup, DeleteSame
  <2>4. CASE revolt_channel_delete
    <3>1. PICK c : Delete("channel", revolt_channel_cleanup(c), "exit") BY <2>4 DEF revolt_channel_delete
    <3>2. "channel" \in Kinds BY DEF Kinds
    <3>3. PICK owned : owned = revolt_channel_cleanup(c) OBVIOUS
    <3>4. Written("channel") => owned \subseteq Held("channel") BY <2>2, <3>3, ChannelCleanup
    <3> QED BY <2>1, <3>1, <3>2, <3>3, <3>4, DeleteSame
  <2>5. CASE revolt_cleanup
    <3>1. Memory({}, ClientBlocks, 0, {}) BY <2>5 DEF revolt_cleanup
    <3>2. \A b \in {} \cup ClientBlocks : b[1] # "json" BY NotJson
    <3> HIDE DEF ClientBlocks
    <3> QED BY <1>1, <2>1, <3>1, <3>2, MemorySame
  <2> QED BY <1>6, <2>3, <2>4, <2>5 DEF DeleteActions
<1> QED BY <1>2, <1>3, <1>4, <1>5, <1>6

-----------------------------------------------------------------------------
(* A look changes nothing but wrappers, and does nothing wrong.              *)
LEMMA LooksKeep ==
  ASSUME Core, Looks
  PROVE  Others /\ doc' = doc /\ misuse' = misuse
<1>1. PlaceInv /\ DocInv /\ WrapperInv BY DEF Core
<1>2. \E w, v, c : Looked(w, v, c)
  BY <1>1, GetFileLooks, GetMetadataLooks, GetRelationsLooks, FirstRelationLooks, NextRelationLooks
     DEF Looks
<1> QED BY <1>2 DEF Looked

LEMMA CleanMemory ==
  ASSUME NEW new, NEW freed, NEW n, Memory(new, freed, n, {}), freed \subseteq blocks \cup new,
         misuse = {}
  PROVE  misuse' = {}
BY DEF Memory

LEMMA MetadataQuiet ==
  ASSUME Core, revolt_file_metadata_deserialize_json_obj
  PROVE  blocks' = blocks /\ misuse' = {}
<1>0. misuse = {} BY DEF Core
<1>1. CASE buf = NoWrapper
  <2>1. Memory({}, {}, 0, {})
    BY <1>1 DEF revolt_file_metadata_deserialize_json_obj
  <2> QED BY <1>0, <2>1 DEF Memory
<1>2. CASE buf # NoWrapper
  <2>1. PICK name : GetName(buf, <<"type">>, name, File, metadata_type(name))
    BY <1>2 DEF revolt_file_metadata_deserialize_json_obj
  <2>2. buf \in InUse \cup {NoWrapper}
    BY DEF revolt_file_metadata_deserialize_json_obj, Core, WrapperInv
  <2> QED BY <1>0, <2>1, <2>2, NamesQuiet
<1> QED BY <1>1, <1>2

(* Deletion of an object that is written frees only what is there.           *)
LEMMA DeleteClean ==
  ASSUME Core, NEW k \in Kinds, NEW owned, Written(k) => owned \subseteq Held(k), NEW next,
         Alive(k) \/ object[k] = NULL, Delete(k, owned, next), next # "crashed", at' # "crashed"
  PROVE  misuse' = {}
<1>0. misuse = {} BY DEF Core
<1>1. CASE object[k] = NULL
  <2>1. Memory({}, {}, 0, {}) BY <1>1 DEF Delete
  <2> QED BY <1>0, <2>1 DEF Memory
<1>2. CASE object[k] # NULL
  <2>1. Written(k) /\ Memory({}, owned \cup {object[k]}, 0, {}) BY <1>2 DEF Delete
  <2>2. object[k] = <<k>> BY <1>2 DEF Core, PlaceInv
  <2>3. <<k>> \in blocks /\ Held(k) \subseteq blocks BY <1>2 DEF Core, LiveInv
  <2>4. PICK freed : freed = owned \cup {object[k]} OBVIOUS
  <2>5. freed \subseteq blocks \cup {} BY <2>1, <2>2, <2>3, <2>4
  <2>6. Memory({}, freed, 0, {}) BY <2>1, <2>4
  <2> QED BY <1>0, <2>5, <2>6, CleanMemory
<1> QED BY <1>1, <1>2

(* Nothing goes wrong with memory in a step that does not crash.             *)
LEMMA CleanStep ==
  ASSUME Core, FetchNext, at' # "crashed"
  PROVE  misuse' = {}
<1>0. misuse = {} /\ PlaceInv /\ LiveInv BY DEF Core
<1>1. CASE revolt_init
  <2>1. Memory(ClientBlocks, {}, 0, {}) \/ Memory({}, {}, 0, {}) \/ Memory({}, {}, 1, {})
    BY <1>1 DEF revolt_init
  <2> HIDE DEF ClientBlocks
  <2> QED BY <1>0, <2>1 DEF Memory
<1>2. CASE Fetch
  <2>1. \E new, n : Memory(new, {}, n, {})
    BY <1>2 DEF Fetch
  <2> QED BY <1>0, <2>1 DEF Memory
<1>3. CASE FetchReturns
  <2>1. PICK freed : /\ freed = {<<kind, "path">>} \cup {<<kind, p>> : p \in {q \in DOMAIN resp : resp[q] > 0}}
                     /\ Memory({}, freed, 0, {})
    BY <1>3 DEF FetchReturns
  <2>2. at \in CallPlaces BY <1>3 DEF FetchReturns, CallPlaces
  <2>3. freed \subseteq blocks \cup {}
    BY <1>0, <2>1, <2>2 DEF LiveInv
  <2> QED BY <1>0, <2>1, <2>3, CleanMemory
<1>4. CASE RequestActions
  <2>1. CASE revolt_rest_request \/ write_callback
    <3>1. \E new, n : Memory(new, {}, n, {})
      BY <2>1 DEF revolt_rest_request, revoltc_http_request, write_callback
    <3> QED BY <1>0, <3>1 DEF Memory
  <2>2. CASE request_perform
    <3>1. Memory({}, RequestBlocks, 0, {}) /\ at \in {"receive", "aborted"}
      BY <2>2 DEF request_perform
    <3>2. RequestBlocks \subseteq blocks \cup {} BY <1>0, <3>1 DEF LiveInv
    <3> QED BY <1>0, <3>1, <3>2, CleanMemory
  <2> QED BY <1>4, <2>1, <2>2 DEF RequestActions
<1>5. CASE Deserialize
  <2>1. \E new, n : Memory(new, {}, n, {})
    BY <1>5 DEF Deserialize, revoltc_json_parse
  <2> QED BY <1>0, <2>1 DEF Memory
<1>6. CASE Leave
  <2>1. at \in OpenPlaces BY <1>6 DEF Leave, OpenPlaces
  <2>2. JsonType /\ Linked /\ root = 1 /\ root \in InUse /\ Tree \in blocks
    BY <1>0, <2>1, InPlace DEF Core, WrapperInv, LiveInv
  <2>3. Chain(root) \subseteq InUse BY <2>2, ChainInUse DEF From
  <2>4. Through(root) = {} BY <2>2 DEF Through, InUse
  <2>5. Blocks(Chain(root)) \cup {Tree} \subseteq blocks
    BY <2>2, <2>3 DEF Blocks, InUse
  <2>6. Memory({}, Blocks(Chain(root)) \cup {Tree}, 0, Through(root))
    BY <1>6 DEF Leave, revoltc_json_delete
  <2>7. PICK freed : freed = Blocks(Chain(root)) \cup {Tree} OBVIOUS
  <2>8. Memory({}, freed, 0, {}) /\ freed \subseteq blocks \cup {} BY <2>4, <2>5, <2>6, <2>7
  <2> QED BY <1>0, <2>8, CleanMemory
<1>7. CASE Looks
  BY <1>0, <1>7, LooksKeep
<1>8. CASE FileActions
  <2>1. CASE FileStrings
    <3>1. CASE file = NoWrapper
      <4>1. Memory({}, {}, 0, {}) BY <2>1, <3>1 DEF FileStrings
      <4> QED BY <1>0, <4>1 DEF Memory
    <3>2. CASE file # NoWrapper BY <1>0, <2>1, <3>2, FileReads DEF GotStrings
    <3> QED BY <3>1, <3>2
  <2>2. CASE FileEnd BY <1>0, <2>2, FileEndReads DEF GotStrings
  <2> QED BY <1>7, <1>8, <2>1, <2>2, MetadataQuiet DEF FileActions, Looks
<1>9. CASE revolt_user_deserialize_json_obj
  <2>1. CASE UserStrings BY <1>0, <2>1, UserReads DEF GotStrings
  <2>2. CASE Status BY <1>0, <2>2, StatusReads DEF GotStrings
  <2>3. CASE Bot BY <1>0, <2>3, BotReads DEF GotStrings
  <2>4. CASE RelationString BY <1>0, <2>4, RelationReads DEF GotStrings
  <2>5. CASE Presence \/ RelationStatus \/ Relationship BY <1>0, <2>5, QuietNames
  <2>6. CASE AllocateRelations
    <3>1. \E new, n : Memory(new, {}, n, {}) BY <2>6 DEF AllocateRelations
    <3> QED BY <1>0, <3>1 DEF Memory
  <2>7. CASE RelationsMissing BY <2>7 DEF RelationsMissing
  <2>8. CASE NoMoreRelations BY <1>0, <2>8 DEF NoMoreRelations, mvars
  <2> QED BY <1>7, <1>9, <2>1, <2>2, <2>3, <2>4, <2>5, <2>6, <2>7, <2>8
          DEF revolt_user_deserialize_json_obj, Looks
<1>10. CASE revolt_channel_deserialize_json_obj
  <2>1. CASE ChannelType BY <1>0, <2>1, QuietNames
  <2>2. CASE ChannelStrings BY <1>0, <2>2, ChannelReads DEF GotStrings
  <2>3. CASE VoiceEnd BY <1>0, <2>3, VoiceEndReads DEF GotStrings
  <2>4. CASE Permissions
    <3>1. at \in OpenPlaces /\ Memory({}, {}, 0, Through(root))
      BY <2>4 DEF Permissions, OpenPlaces, ChannelPlaces
    <3>2. Through(root) = {} BY <3>1, InPlace DEF Through, InUse
    <3> QED BY <1>0, <3>1, <3>2 DEF Memory
  <2> QED BY <1>10, <2>1, <2>2, <2>3, <2>4 DEF revolt_channel_deserialize_json_obj
<1>11. CASE DeleteActions
  <2>0. FieldInv /\ count \in 0 .. MostRelations BY DEF Core, DocInv
  <2>1. CASE revolt_user_delete
    <3>1. Delete("user", revolt_user_cleanup, "delete channel") /\ at = "delete user"
      BY <2>1 DEF revolt_user_delete
    <3>2. "user" \in Kinds BY DEF Kinds
    <3>3. Alive("user") \/ object["user"] = NULL BY <3>1 DEF Alive
    <3> QED BY <2>0, <3>1, <3>2, <3>3, UserCleanup, DeleteClean
  <2>2. CASE revolt_channel_delete
    <3>1. PICK c : Delete("channel", revolt_channel_cleanup(c), "exit") /\ at = "delete channel"
      BY <2>2 DEF revolt_channel_delete
    <3>2. "channel" \in Kinds BY DEF Kinds
    <3>3. Alive("channel") \/ object["channel"] = NULL BY <3>1 DEF Alive
    <3>4. PICK owned : owned = revolt_channel_cleanup(c) OBVIOUS
    <3>5. Written("channel") => owned \subseteq Held("channel") BY <2>0, <3>4, ChannelCleanup
    <3> QED BY <3>1, <3>2, <3>3, <3>4, <3>5, DeleteClean
  <2>3. CASE revolt_cleanup
    <3>1. Memory({}, ClientBlocks, 0, {}) /\ at = "exit" BY <2>3 DEF revolt_cleanup
    <3>2. ClientBlocks \subseteq blocks \cup {} BY <1>0, <3>1 DEF LiveInv
    <3> HIDE DEF ClientBlocks
    <3> QED BY <1>0, <3>1, <3>2, CleanMemory
  <2> QED BY <1>11, <2>1, <2>2, <2>3 DEF DeleteActions
<1> QED
  BY <1>1, <1>2, <1>3, <1>4, <1>5, <1>6, <1>8, <1>9, <1>10, <1>11
  DEF FetchNext, FileActions, RequestActions, DeleteActions

-----------------------------------------------------------------------------
(* The document is the same until json is deleted.                           *)
LEMMA DocKept ==
  ASSUME Core, FetchNext, ~Deserialize, ~Leave
  PROVE  doc' = doc
<1>1. Looks \/ SameWrappers
  BY QuietFile, QuietUser, QuietChannel, QuietRest
  DEF FetchNext, FileActions, RequestActions, DeleteActions
<1> QED BY <1>1, LooksKeep DEF SameWrappers

LEMMA MaxTyped ==
  ASSUME DocInv, at \in OpenPlaces, IsArray(<<"relations">>)
  PROVE  max \in Nat /\ max <= MostRelations
<1>1. ArrayOf(<<"relations">>) \in Seq(Words) /\ Len(ArrayOf(<<"relations">>)) <= MostRelations
  BY Arrays DEF IsArray
<1> QED BY <1>1, LenProperties DEF max, ArrayOf

Reading1 == FileActions \/ revolt_user_deserialize_json_obj \/ revolt_channel_deserialize_json_obj

(* What no step of the deserialisation touches.                              *)
LEMMA ReadingFrame ==
  ASSUME Reading1
  PROVE  /\ kind' = kind /\ resp' = resp /\ body' = body /\ root' = root /\ object' = object
         /\ clean' = clean
         /\ ~UserStrings /\ ~NextRelation => count' = count
<1> USE DEF request_vars, wrapper_vars, object_vars, Finds
<1>1. CASE FileActions
  <2>1. CASE GetFile BY <2>1 DEF GetFile
  <2>2. CASE FileStrings
    <3>1. CASE file = NoWrapper BY <2>2, <3>1 DEF FileStrings
    <3>2. CASE file # NoWrapper BY <2>2, <3>2, StringsFrame DEF FileStrings
    <3> QED BY <3>1, <3>2
  <2>3. CASE GetMetadata BY <2>3 DEF GetMetadata
  <2>4. CASE revolt_file_metadata_deserialize_json_obj
    BY <2>4, NameFrame DEF revolt_file_metadata_deserialize_json_obj
  <2>5. CASE FileEnd BY <2>5, StringsFrame DEF FileEnd
  <2> QED BY <1>1, <2>1, <2>2, <2>3, <2>4, <2>5 DEF FileActions
<1>2. CASE revolt_user_deserialize_json_obj
  <2>1. CASE UserStrings BY <2>1, StringsFrame DEF UserStrings
  <2>2. CASE Status BY <2>2, StringsFrame DEF Status
  <2>3. CASE Bot BY <2>3, StringsFrame DEF Bot
  <2>4. CASE RelationString BY <2>4, StringsFrame DEF RelationString
  <2>5. CASE Presence BY <2>5, NameFrame DEF Presence
  <2>6. CASE RelationStatus BY <2>6, NameFrame DEF RelationStatus
  <2>7. CASE Relationship BY <2>7, NameFrame DEF Relationship
  <2>8. CASE GetRelations BY <2>8 DEF GetRelations
  <2>9. CASE FirstRelation BY <2>9 DEF FirstRelation
  <2>10. CASE NextRelation BY <2>10 DEF NextRelation
  <2>11. CASE AllocateRelations BY <2>11 DEF AllocateRelations
  <2>12. CASE RelationsMissing BY <2>12 DEF RelationsMissing
  <2>13. CASE NoMoreRelations BY <2>13 DEF NoMoreRelations
  <2> QED BY <1>2, <2>1, <2>2, <2>3, <2>4, <2>5, <2>6, <2>7, <2>8, <2>9, <2>10, <2>11, <2>12, <2>13
          DEF revolt_user_deserialize_json_obj
<1>3. CASE revolt_channel_deserialize_json_obj
  <2>1. CASE ChannelType BY <2>1, NameFrame DEF ChannelType
  <2>2. CASE ChannelStrings BY <2>2, StringsFrame DEF ChannelStrings
  <2>3. CASE Permissions BY <2>3 DEF Permissions
  <2>4. CASE VoiceEnd BY <2>4, StringsFrame DEF VoiceEnd
  <2> QED BY <1>3, <2>1, <2>2, <2>3, <2>4 DEF revolt_channel_deserialize_json_obj
<1> QED BY <1>1, <1>2, <1>3 DEF Reading1

(* Where each of these steps is taken and where it leads.                    *)
Goes(a, b) == at = a /\ at' = b
(* Where each step of the deserialisation is taken, and where it leads.      *)
LEMMA Course ==
  /\ GetFile => at \in {"avatar", "icon"} /\ at' = "file"
  /\ FileStrings => at = "file" /\ at' \in {"leave", "metadata"}
  /\ GetMetadata => Goes("metadata", "metadata type")
  /\ revolt_file_metadata_deserialize_json_obj => at = "metadata type" /\ at' \in {"leave", "file end"}
  /\ FileEnd => at = "file end" /\ at' = IF kind = "user" THEN "status" ELSE "channel end"
  /\ UserStrings => Goes("user", "avatar") /\ count' = 0
  /\ Status => Goes("status", "presence")
  /\ Presence => Goes("presence", "relations")
  /\ GetRelations => at = "relations" /\ at' \in {"relationship", "allocate"}
  /\ AllocateRelations => Goes("allocate", "first")
  /\ FirstRelation => Goes("first", "relation")
  /\ RelationString => Goes("relation", "relation status") /\ count < max /\ field[User].relations # NULL
  /\ RelationStatus => Goes("relation status", "next")
  /\ NextRelation => Goes("next", "relation") /\ count' = count + 1
  /\ RelationsMissing => Goes("relation", "crashed")
  /\ NoMoreRelations => Goes("relation", "relationship") /\ count = max
  /\ Relationship => Goes("relationship", "bot")
  /\ Bot => Goes("bot", "leave")
  /\ ChannelType => at = "channel" /\ at' \in {"leave", "strings"}
  /\ ChannelStrings => at = "strings" /\ at' = IF type \in {"SM", "DM"} THEN "leave" ELSE "icon"
  /\ Permissions => at = "channel end" /\ at' = IF type = "VOICE" THEN "voice end" ELSE "leave"
  /\ VoiceEnd => Goes("voice end", "leave")
<1> USE DEF Goes, Finds, Leaves
<1>1. GetFile => at \in {"avatar", "icon"} /\ at' = "file" BY DEF GetFile
<1>2. FileStrings => at = "file" /\ at' \in {"leave", "metadata"} BY DEF FileStrings
<1>3. GetMetadata => Goes("metadata", "metadata type") BY DEF GetMetadata
<1>4. revolt_file_metadata_deserialize_json_obj => at = "metadata type" /\ at' \in {"leave", "file end"}
  BY DEF revolt_file_metadata_deserialize_json_obj
<1>5. FileEnd => at = "file end" /\ at' = IF kind = "user" THEN "status" ELSE "channel end" BY DEF FileEnd
<1>6. UserStrings => Goes("user", "avatar") /\ count' = 0 BY DEF UserStrings
<1>7. Status => Goes("status", "presence") BY DEF Status
<1>8. Presence => Goes("presence", "relations") BY DEF Presence
<1>9. GetRelations => at = "relations" /\ at' \in {"relationship", "allocate"} BY DEF GetRelations
<1>10. AllocateRelations => Goes("allocate", "first") BY DEF AllocateRelations
<1>11. FirstRelation => Goes("first", "relation") BY DEF FirstRelation
<1>12. RelationString => Goes("relation", "relation status") /\ count < max /\ field[User].relations # NULL
  BY DEF RelationString
<1>13. RelationStatus => Goes("relation status", "next") BY DEF RelationStatus
<1>14. NextRelation => Goes("next", "relation") /\ count' = count + 1 BY DEF NextRelation
<1>15. RelationsMissing => Goes("relation", "crashed") BY DEF RelationsMissing
<1>16. NoMoreRelations => Goes("relation", "relationship") /\ count = max BY DEF NoMoreRelations
<1>17. Relationship => Goes("relationship", "bot") BY DEF Relationship
<1>18. Bot => Goes("bot", "leave") BY DEF Bot
<1>19. ChannelType => at = "channel" /\ at' \in {"leave", "strings"} BY DEF ChannelType
<1>20. ChannelStrings => at = "strings" /\ at' = IF type \in {"SM", "DM"} THEN "leave" ELSE "icon"
  BY DEF ChannelStrings
<1>21. Permissions => at = "channel end" /\ at' = IF type = "VOICE" THEN "voice end" ELSE "leave"
  BY DEF Permissions
<1>22. VoiceEnd => Goes("voice end", "leave") BY DEF VoiceEnd
<1> QED
  BY <1>1, <1>2, <1>3, <1>4, <1>5, <1>6, <1>7, <1>8, <1>9, <1>10, <1>11, <1>12, <1>13, <1>14,
     <1>15, <1>16, <1>17, <1>18, <1>19, <1>20, <1>21, <1>22

(* The place does not fit any of the others.                                 *)
LEMMA ReadingPlaces ==
  ASSUME Reading1
  PROVE  at \in OpenPlaces \ {"leave"} /\ ~Deserialize /\ ~Leave /\ at' \in OpenPlaces \cup {"crashed"}
<1>1. at \in OpenPlaces \ {"leave"} /\ at' \in OpenPlaces \cup {"crashed"}
  BY Course DEF Reading1, FileActions, revolt_user_deserialize_json_obj, revolt_channel_deserialize_json_obj,
     Goes, OpenPlaces, UserPlaces, ChannelPlaces, FilePlaces
<1>2. ~Deserialize /\ ~Leave
  BY <1>1 DEF Deserialize, Leave, OpenPlaces, UserPlaces, ChannelPlaces, FilePlaces
<1> QED BY <1>1, <1>2

(* The count of relations stays within the array.                            *)
LEMMA DocStep ==
  ASSUME Core, FetchNext, at' # "crashed"
  PROVE  DocInv'
<1>0. PlaceInv /\ DocInv BY DEF Core
<1> USE DEF FilePlaces, ChannelPlaces, UserPlaces, OpenPlaces, EarlyPlaces, Kinds,
            BeforeRelations, InRelations
<1>a. count \in 0 .. MostRelations BY <1>0 DEF DocInv
<1>1. CASE revolt_init
  BY <1>0, <1>1 DEF revolt_init, object_vars, DocInv, PlaceInv
<1>2. CASE Fetch
  BY <1>0, <1>2 DEF Fetch, Returned, DocInv, PlaceInv
<1>3. CASE FetchReturns
  BY <1>0, <1>3 DEF FetchReturns, Returned, object_vars, DocInv, PlaceInv
<1>4. CASE RequestActions
  <2>1. CASE revolt_rest_request
    BY <1>0, <2>1 DEF revolt_rest_request, revoltc_http_request, Ends, object_vars, DocInv
  <2>2. CASE write_callback BY <1>0, <2>2 DEF write_callback, object_vars, DocInv
  <2>3. CASE request_perform BY <1>0, <2>3 DEF request_perform, Ends, object_vars, DocInv
  <2> QED BY <1>4, <2>1, <2>2, <2>3 DEF RequestActions
<1>5. CASE Deserialize
  <2>1. at = "deserialize" /\ kind' = kind /\ count' = count /\ kind \in Kinds
    BY <1>0, <1>5 DEF Deserialize, object_vars, PlaceInv
  <2>2. at' = "cleanup" \/ (at' = kind /\ doc' = body /\ body.parses /\ body # NoBody)
    BY <1>5 DEF Deserialize, Ends, revoltc_json_parse
  <2>3. at' = kind => doc'.parses /\ doc' \in Documents[kind]
    BY <1>0, <2>1, <2>2 DEF DocInv
  <2>4. kind = "user" => count = 0 BY <1>0, <2>1 DEF DocInv
  <2> QED BY <1>a, <2>1, <2>2, <2>3, <2>4 DEF DocInv
<1>6. CASE Leave
  BY <1>a, <1>6 DEF Leave, object_vars, DocInv
<1>7. CASE Reading1
  <2>1. /\ at \in OpenPlaces /\ doc' = doc /\ kind' = kind /\ kind \in Kinds
        /\ ~UserStrings /\ ~NextRelation => count' = count
    BY <1>0, <1>7, ReadingPlaces, ReadingFrame, DocKept DEF PlaceInv
  <2>2. doc'.parses /\ \E k \in Kinds : doc' \in Documents[k]
    BY <1>0, <2>1 DEF DocInv
  <2>3. IsArray(<<"relations">>) => max \in Nat /\ max <= MostRelations
    BY <1>0, <2>1, MaxTyped
  <2>4. IsArray(<<"relations">>)' = IsArray(<<"relations">>) /\ max' = max
    BY <2>1 DEF IsArray, max
  <2>5. at' # "deserialize" BY <1>7, ReadingPlaces
  <2> HIDE DEF FilePlaces, ChannelPlaces, UserPlaces, OpenPlaces, EarlyPlaces, Kinds,
               BeforeRelations, InRelations
  <2>6. CASE UserStrings
    <3>1. at' = "avatar" /\ count' = 0 BY <2>6, Course DEF Goes
    <3> QED BY <2>1, <2>2, <2>5, <3>1, FetchBounds DEF DocInv, InRelations
  <2>7. CASE NextRelation
    <3>1. at = "next" /\ at' = "relation" /\ count' = count + 1 BY <2>7, Course DEF Goes
    <3>2. count < max /\ IsArray(<<"relations">>) BY <1>0, <3>1 DEF DocInv, InRelations
    <3>3. count' \in 0 .. MostRelations /\ count' <= max BY <1>a, <2>3, <3>1, <3>2, FetchBounds
    <3> QED BY <2>1, <2>2, <2>4, <2>5, <3>1, <3>2, <3>3
            DEF DocInv, InRelations, BeforeRelations, EarlyPlaces, FilePlaces
  <2>8. CASE ~UserStrings /\ ~NextRelation
    <3>1. count' = count BY <2>1, <2>8
    <3>2. kind = "user" /\ at' \in BeforeRelations \cup EarlyPlaces \cup FilePlaces => count = 0
      <4>1. kind = "user" /\ at' \in BeforeRelations \cup EarlyPlaces \cup FilePlaces
              => at \in BeforeRelations \cup EarlyPlaces \cup FilePlaces
        <5>1. kind = "user" => at # "icon" BY <1>0 DEF PlaceInv, ChannelPlaces
        <5> QED
          BY <5>1, <1>7, <2>8, Course
          DEF Reading1, FileActions, revolt_user_deserialize_json_obj, revolt_channel_deserialize_json_obj,
              Goes, BeforeRelations, EarlyPlaces, FilePlaces
      <4> QED BY <1>0, <4>1 DEF DocInv
    <3>3. at' \in {"allocate", "first"} \cup InRelations => IsArray(<<"relations">>)
      <4>1. CASE GetRelations
        BY <1>0, <4>1, GetRelationsLooks, Course DEF Core, InRelations
      <4>2. CASE ~GetRelations
        <5>1. at' \in {"allocate", "first"} \cup InRelations => at \in {"allocate", "first"} \cup InRelations
          BY <1>7, <2>8, <4>2, Course
          DEF Reading1, FileActions, revolt_user_deserialize_json_obj, revolt_channel_deserialize_json_obj,
              Goes, InRelations
        <5> QED BY <1>0, <5>1 DEF DocInv
      <4> QED BY <4>1, <4>2
    <3>4. at' = "relation" => count <= max
      <4>1. at' = "relation" => at = "first"
        BY <1>7, <2>8, Course
        DEF Reading1, FileActions, revolt_user_deserialize_json_obj, revolt_channel_deserialize_json_obj, Goes
      <4>2. at = "first" => kind = "user" /\ count = 0 /\ IsArray(<<"relations">>)
        BY <1>0 DEF DocInv, PlaceInv, BeforeRelations, UserPlaces
      <4> QED BY <4>1, <4>2, <2>3
    <3>5. at' \in {"relation status", "next"} => count < max
      <4>1. \/ at' \notin {"relation status", "next"}
            \/ RelationString \/ at = "relation status"
        BY <1>7, <2>8, Course
        DEF Reading1, FileActions, revolt_user_deserialize_json_obj, revolt_channel_deserialize_json_obj, Goes
      <4> QED BY <1>0, <4>1, Course DEF DocInv
    <3> QED BY <1>a, <2>1, <2>2, <2>4, <2>5, <3>1, <3>2, <3>3, <3>4, <3>5 DEF DocInv
  <2> QED BY <2>6, <2>7, <2>8
<1>8. CASE DeleteActions
  BY <1>0, <1>8 DEF DeleteActions, revolt_user_delete, revolt_channel_delete, revolt_cleanup, Delete,
                    object_vars, DocInv, PlaceInv
<1> QED
  BY <1>1, <1>2, <1>3, <1>4, <1>5, <1>6, <1>7, <1>8
  DEF FetchNext, Reading1, FileActions, RequestActions, DeleteActions

LEMMA ReadingPointers ==
  ASSUME Reading1, ~Looks
  PROVE  file' = file /\ buf' = buf /\ count' = IF UserStrings THEN 0 ELSE count
<1> USE DEF request_vars, wrapper_vars, object_vars
<1>0. ~NextRelation /\ (~UserStrings => count' = count) /\ (UserStrings => count' = 0)
  BY ReadingFrame, Course DEF Looks
<1>1. FileActions => file' = file /\ buf' = buf
  <2>1. FileStrings => file' = file /\ buf' = buf
    <3>1. CASE file = NoWrapper BY <3>1 DEF FileStrings
    <3>2. CASE file # NoWrapper BY <3>2, StringsFrame DEF FileStrings
    <3> QED BY <3>1, <3>2
  <2>2. revolt_file_metadata_deserialize_json_obj => file' = file /\ buf' = buf
    BY NameFrame DEF revolt_file_metadata_deserialize_json_obj
  <2>3. FileEnd => file' = file /\ buf' = buf BY StringsFrame DEF FileEnd
  <2> QED BY <2>1, <2>2, <2>3 DEF FileActions, Looks
<1>2. revolt_user_deserialize_json_obj => file' = file /\ buf' = buf
  <2>1. UserStrings => file' = file /\ buf' = buf BY StringsFrame DEF UserStrings
  <2>2. Status => file' = file /\ buf' = buf BY StringsFrame DEF Status
  <2>3. Bot => file' = file /\ buf' = buf BY StringsFrame DEF Bot
  <2>4. RelationString => file' = file /\ buf' = buf BY StringsFrame DEF RelationString
  <2>5. Presence => file' = file /\ buf' = buf BY NameFrame DEF Presence
  <2>6. RelationStatus => file' = file /\ buf' = buf BY NameFrame DEF RelationStatus
  <2>7. Relationship => file' = file /\ buf' = buf BY NameFrame DEF Relationship
  <2>8. AllocateRelations => file' = file /\ buf' = buf BY DEF AllocateRelations
  <2>9. RelationsMissing => file' = file /\ buf' = buf BY DEF RelationsMissing
  <2>10. NoMoreRelations => file' = file /\ buf' = buf BY DEF NoMoreRelations
  <2> QED BY <2>1, <2>2, <2>3, <2>4, <2>5, <2>6, <2>7, <2>8, <2>9, <2>10
          DEF revolt_user_deserialize_json_obj, Looks
<1>3. revolt_channel_deserialize_json_obj => file' = file /\ buf' = buf
  <2>1. ChannelType => file' = file /\ buf' = buf BY NameFrame DEF ChannelType
  <2>2. ChannelStrings => file' = file /\ buf' = buf BY StringsFrame DEF ChannelStrings
  <2>3. Permissions => file' = file /\ buf' = buf BY DEF Permissions
  <2>4. VoiceEnd => file' = file /\ buf' = buf BY StringsFrame DEF VoiceEnd
  <2> QED BY <2>1, <2>2, <2>3, <2>4 DEF revolt_channel_deserialize_json_obj
<1> QED BY <1>0, <1>1, <1>2, <1>3 DEF Reading1

(* Steps that leave the wrappers alone keep them in a line.                  *)
LEMMA LinkedSame ==
  ASSUME JsonType, Linked, SameWrappers
  PROVE  JsonType' /\ Linked'
BY DEF SameWrappers, JsonType, Linked

(* Each look leaves the wrapper it starts from, and those before it, in use. *)
LEMMA LookedUp ==
  ASSUME JsonType, NEW w, w \in InUse \cup {NoWrapper}, NEW v, NEW c, Looked(w, v, c)
  PROVE  /\ w # NoWrapper => w \in InUse'
         /\ c \in InUse' \cup {NoWrapper}
         /\ c # NoWrapper => json'[c].val = v
         /\ 1 \in InUse => 1 \in InUse' /\ json'[1].val = json[1].val
         /\ JsonType' /\ Linked'
<1>1. w # NoWrapper => w \in InUse'
  <2>1. w # NoWrapper => w \in InUse /\ w \in Nat BY InUseTyped
  <2>2. w # NoWrapper => w <= w BY <2>1
  <2> QED BY <2>1, <2>2 DEF Looked
<1>2. c \in InUse' \cup {NoWrapper} /\ (c # NoWrapper => json'[c].val = v)
  BY DEF Looked
<1>3. ASSUME 1 \in InUse PROVE 1 \in InUse' /\ json'[1].val = json[1].val
  <2>1. json'[1].val = json[1].val BY <1>3 DEF Looked
  <2>2. CASE w = NoWrapper BY <1>3, <2>2 DEF Looked
  <2>3. CASE w # NoWrapper
    <3>1. w \in 1 .. Len(json) /\ Len(json) \in Nat BY <2>3, InUseTyped, JsonBasics
    <3>2. 1 <= w BY <3>1
    <3> QED BY <1>3, <2>1, <2>3, <3>2 DEF Looked
  <2> QED BY <2>1, <2>2, <2>3
<1>4. JsonType' /\ Linked' BY DEF Looked
<1> QED BY <1>1, <1>2, <1>3, <1>4

(* The root, the file and the buffer are in use wherever they are used.      *)
LEMMA WrapperStep ==
  ASSUME Core, FetchNext, at' # "crashed"
  PROVE  WrapperInv'
<1>0. PlaceInv /\ DocInv /\ WrapperInv /\ JsonType /\ Linked BY DEF Core, WrapperInv
<1>1. CASE revolt_init \/ Fetch \/ FetchReturns \/ RequestActions \/ DeleteActions
  <2>1. JsonType' /\ Linked' BY <1>0, <1>1, QuietRest, LinkedSame
  <2>2. at' \notin OpenPlaces
    BY <1>1 DEF revolt_init, Fetch, Returned, FetchReturns, RequestActions, revolt_rest_request,
       revoltc_http_request, Ends, write_callback, request_perform, DeleteActions, revolt_user_delete,
       revolt_channel_delete, revolt_cleanup, Delete, OpenPlaces, UserPlaces, ChannelPlaces, FilePlaces
  <2> QED BY <2>1, <2>2 DEF WrapperInv, OpenPlaces, UserPlaces, ChannelPlaces, FilePlaces, InRelations
<1>2. CASE Deserialize
  <2>1. CASE at' = "cleanup" /\ json' = json /\ doc' = doc /\ \E n : Memory({}, {}, n, {})
    <3>1. SameWrappers BY <1>0, <2>1, MemorySame
    <3>2. JsonType' /\ Linked' BY <1>0, <3>1, LinkedSame
    <3> QED BY <2>1, <3>2 DEF WrapperInv, OpenPlaces, UserPlaces, ChannelPlaces, FilePlaces, InRelations
  <2>2. CASE /\ at' = kind /\ json' = << [val |-> <<>>, child |-> NoWrapper] >>
             /\ Memory({Wrapper(1), Tree}, {}, 0, {})
    <3>1. Len(json') = 1 /\ DOMAIN json' = {1} /\ json'[1].val = <<>> /\ json'[1].child = 0
      BY <2>2 DEF NoWrapper
    <3>2. json' \in Seq([val : Seq(Words), child : Nat])
      <4>1. PICK e : e = [val |-> <<>>, child |-> NoWrapper] OBVIOUS
      <4>2. e \in [val : Seq(Words), child : Nat] BY <4>1, EmptySeq DEF NoWrapper
      <4> QED BY <2>2, <4>1, <4>2
    <3>3. InUse' = {1}
      <4>1. Wrapper(1) \in blocks' BY <2>2 DEF Memory
      <4> QED BY <3>1, <4>1 DEF InUse
    <3>4. JsonType' /\ Linked'
      BY <3>1, <3>2, <3>3 DEF JsonType, Linked, NoWrapper
    <3>5. at' \in {"user", "channel"} BY <1>0, <2>2 DEF PlaceInv, Kinds
    <3> QED BY <3>1, <3>3, <3>4, <3>5 DEF WrapperInv, FilePlaces, InRelations
  <2> QED BY <1>2, <2>1, <2>2 DEF Deserialize, Ends, revoltc_json_parse, jvars
<1>3. CASE Leave
  <2>1. json' = <<>> /\ at' = "cleanup" BY <1>3 DEF Leave, revoltc_json_delete
  <2>2. InUse' = {} BY <2>1 DEF InUse
  <2>3. JsonType' /\ Linked'
    <3>1. <<>> \in Seq([val : Seq(Words), child : Nat]) BY EmptySeq
    <3>2. DOMAIN json' = {} BY <2>1
    <3> QED BY <2>1, <2>2, <3>1, <3>2 DEF JsonType, Linked
  <2> QED BY <2>1, <2>3 DEF WrapperInv, OpenPlaces, UserPlaces, ChannelPlaces, FilePlaces, InRelations
<1>4. CASE Looks
  <2>0. at \in OpenPlaces /\ 1 \in InUse /\ json[1].val = <<>>
    <3>1. at \in OpenPlaces
      BY <1>4, Course DEF Looks, Goes, OpenPlaces, UserPlaces, ChannelPlaces, FilePlaces
    <3> QED BY <1>0, <3>1 DEF WrapperInv
  <2>1. CASE GetFile
    <3>1. PICK c : Looked(1, <<at>>, c) /\ file' = c BY <1>0, <2>1, GetFileLooks
    <3>2. PICK v : v = <<at>> OBVIOUS
    <3>3. /\ JsonType' /\ Linked' /\ 1 \in InUse' /\ json'[1].val = <<>>
          /\ c \in InUse' \cup {NoWrapper}
      BY <1>0, <2>0, <3>1, <3>2, LookedUp
    <3>4. at' = "file" BY <2>1, Course
    <3> QED BY <3>1, <3>3, <3>4 DEF WrapperInv, InRelations
  <2>2. CASE GetMetadata
    <3>1. PICK v, c : Looked(file, v, c) /\ file \in InUse /\ buf' = c /\ file' = file
      BY <1>0, <2>2, GetMetadataLooks
    <3>2. file # NoWrapper BY <1>0, <3>1, InUseTyped
    <3>3. /\ JsonType' /\ Linked' /\ 1 \in InUse' /\ json'[1].val = <<>> /\ file \in InUse'
          /\ c \in InUse' \cup {NoWrapper}
      BY <1>0, <2>0, <3>1, <3>2, LookedUp
    <3>4. at' = "metadata type" BY <2>2, Course DEF Goes
    <3> QED BY <3>1, <3>2, <3>3, <3>4 DEF WrapperInv, InRelations
  <2>3. CASE GetRelations
    <3>1. PICK c : /\ Looked(1, <<"relations">>, c)
                   /\ buf' = IF IsArray(<<"relations">>) THEN c ELSE NoWrapper
                   /\ at' = IF buf' = NoWrapper THEN "relationship" ELSE "allocate"
      BY <1>0, <2>3, GetRelationsLooks
    <3>2. PICK v : v = <<"relations">> OBVIOUS
    <3>3. /\ JsonType' /\ Linked' /\ 1 \in InUse' /\ json'[1].val = <<>>
          /\ c \in InUse' \cup {NoWrapper} /\ (c # NoWrapper => json'[c].val = v)
      BY <1>0, <2>0, <3>1, <3>2, LookedUp
    <3> QED BY <3>1, <3>2, <3>3 DEF WrapperInv, FilePlaces, InRelations
  <2>4. CASE FirstRelation
    <3>1. PICK v, c : Looked(buf, v, c) /\ buf \in InUse /\ NthRelation(v, 1, c) /\ buf' = c
      BY <1>0, <2>4, FirstRelationLooks
    <3>2. PICK w : w = buf OBVIOUS
    <3>a. w \in InUse \cup {NoWrapper} /\ Looked(w, v, c) BY <3>1, <3>2
    <3>3. /\ JsonType' /\ Linked' /\ 1 \in InUse' /\ json'[1].val = <<>>
          /\ c \in InUse' \cup {NoWrapper} /\ (c # NoWrapper => json'[c].val = v)
      <4>1. /\ JsonType' /\ Linked' /\ c \in InUse' \cup {NoWrapper} /\ (c # NoWrapper => json'[c].val = v)
            /\ 1 \in InUse => 1 \in InUse' /\ json'[1].val = json[1].val
        BY <1>0, <3>a, LookedUp
      <4> QED BY <2>0, <4>1
    <3>4. at = "first" /\ at' = "relation" BY <2>4, Course DEF Goes
    <3>5. kind = "user" /\ IsArray(<<"relations">>) /\ count = 0 BY <1>0, <3>4
      DEF PlaceInv, DocInv, UserPlaces, BeforeRelations
    <3>6. count' = 0 /\ doc' = doc /\ max' = max /\ max \in Nat
      <4>1. ~UserStrings /\ ~NextRelation BY <3>4, Course DEF Goes
      <4>2. count' = count
        BY <2>4, <4>1, ReadingFrame DEF Reading1, revolt_user_deserialize_json_obj
      <4>3. doc' = doc BY <1>4, LooksKeep
      <4> QED BY <1>0, <2>0, <3>5, <4>2, <4>3, MaxTyped DEF max
    <3>7. c # NoWrapper => 0 < max /\ v = <<"relations", doc.arrays[<<"relations">>][0 + 1]>>
      BY <3>1, <3>6 DEF NthRelation
    <3> QED BY <3>1, <3>3, <3>4, <3>6, <3>7 DEF WrapperInv, FilePlaces, InRelations
  <2>5. CASE NextRelation
    <3>1. PICK v, c : /\ Looked(buf, v, c) /\ buf \in InUse \cup {NoWrapper}
                      /\ NthRelation(v, count + 2, c) /\ buf' = c
      BY <1>0, <2>5, NextRelationLooks
    <3>2. PICK w : w = buf OBVIOUS
    <3>a. w \in InUse \cup {NoWrapper} /\ Looked(w, v, c) BY <3>1, <3>2
    <3>3. /\ JsonType' /\ Linked' /\ 1 \in InUse' /\ json'[1].val = <<>>
          /\ c \in InUse' \cup {NoWrapper} /\ (c # NoWrapper => json'[c].val = v)
      <4>1. /\ JsonType' /\ Linked' /\ c \in InUse' \cup {NoWrapper} /\ (c # NoWrapper => json'[c].val = v)
            /\ 1 \in InUse => 1 \in InUse' /\ json'[1].val = json[1].val
        BY <1>0, <3>a, LookedUp
      <4> QED BY <2>0, <4>1
    <3>4. at = "next" /\ at' = "relation" /\ count' = count + 1 BY <2>5, Course DEF Goes
    <3>5. IsArray(<<"relations">>) /\ count \in Nat BY <1>0, <3>4 DEF DocInv, InRelations
    <3>6. doc' = doc /\ max' = max /\ max \in Nat
      <4>3. doc' = doc BY <1>4, LooksKeep
      <4> QED BY <1>0, <2>0, <3>5, <4>3, MaxTyped DEF max
    <3>7. c # NoWrapper => count' < max /\ v = <<"relations", doc.arrays[<<"relations">>][count' + 1]>>
      <4>1. count' + 1 = count + 2 BY <3>4, <3>5
      <4> QED BY <3>1, <3>4, <3>5, <3>6, <4>1 DEF NthRelation
    <3> QED BY <3>1, <3>3, <3>4, <3>6, <3>7 DEF WrapperInv, FilePlaces, InRelations
  <2> QED BY <1>4, <2>1, <2>2, <2>3, <2>4, <2>5 DEF Looks
<1>5. CASE Reading1 /\ ~Looks
  <2>1. SameWrappers
    BY <1>5, QuietFile, QuietUser, QuietChannel DEF Reading1
  <2>2. JsonType' /\ Linked' BY <1>0, <2>1, LinkedSame
  <2>3. json' = json /\ doc' = doc /\ InUse' = InUse /\ max' = max BY <2>1 DEF SameWrappers, max
  <2>4. at \in OpenPlaces BY <1>5, ReadingPlaces
  <2>5. 1 \in InUse' /\ json'[1].val = <<>> BY <1>0, <2>3, <2>4 DEF WrapperInv
  <2>6. file' = file /\ buf' = buf /\ count' = IF UserStrings THEN 0 ELSE count
    BY <1>5, ReadingPointers
  <2> USE DEF Goes
  <2>7. at' \in FilePlaces => at \in FilePlaces
    BY <1>5, Course
    DEF Looks, Reading1, FileActions, revolt_user_deserialize_json_obj, revolt_channel_deserialize_json_obj, FilePlaces
  <2>8. at' \in {"metadata", "metadata type", "file end"} =>
          at \in {"metadata", "metadata type", "file end"} \/ FileStrings
    BY <1>5, Course
    DEF Looks, Reading1, FileActions, revolt_user_deserialize_json_obj, revolt_channel_deserialize_json_obj
  <2>9. FileStrings /\ at' = "metadata" => file # NoWrapper
    BY DEF FileStrings, Leaves
  <2>10. FileStrings => at' \in {"leave", "metadata"} BY Course
  <2>11. at' \in {"metadata type", "allocate", "first"} \cup InRelations =>
           /\ at \in {"metadata type", "allocate", "first"} \cup InRelations
           /\ ~UserStrings
           /\ at' \in InRelations => at \in InRelations
           /\ at' \in {"allocate", "first"} => at \in {"allocate", "first"}
    BY <1>5, Course
    DEF Looks, Reading1, FileActions, revolt_user_deserialize_json_obj, revolt_channel_deserialize_json_obj, InRelations
  <2>12. at' \in FilePlaces => file' \in InUse' \cup {NoWrapper}
    BY <1>0, <2>3, <2>6, <2>7 DEF WrapperInv
  <2>13. at' \in {"metadata", "metadata type", "file end"} => file' # NoWrapper
    BY <1>0, <2>6, <2>8, <2>9, <2>10 DEF WrapperInv
  <2>14. at' \in {"metadata type", "allocate", "first"} \cup InRelations => buf' \in InUse' \cup {NoWrapper}
    BY <1>0, <2>3, <2>6, <2>11 DEF WrapperInv
  <2>15. at' \in {"allocate", "first"} => buf' # NoWrapper /\ json'[buf'].val = <<"relations">>
    BY <1>0, <2>3, <2>6, <2>11 DEF WrapperInv
  <2>16. at' \in InRelations /\ buf' # NoWrapper =>
           /\ count' < max'
           /\ json'[buf'].val = <<"relations", doc'.arrays[<<"relations">>][count' + 1]>>
    <3>1. at' \in InRelations /\ buf' # NoWrapper => at \in InRelations /\ buf # NoWrapper /\ count' = count
      BY <2>6, <2>11
    <3> QED BY <1>0, <2>3, <2>6, <3>1 DEF WrapperInv
  <2> QED BY <2>2, <2>5, <2>12, <2>13, <2>14, <2>15, <2>16 DEF WrapperInv
<1> QED
  BY <1>1, <1>2, <1>3, <1>4, <1>5
  DEF FetchNext, Reading1, FileActions, RequestActions, DeleteActions

-----------------------------------------------------------------------------
FieldOk(g) ==
  /\ DOMAIN g = DOMAIN Parts
  /\ \A p \in DOMAIN Parts :
       /\ DOMAIN g[p] = Parts[p]
       /\ \A f \in Parts[p] : g[p][f] \in Nowhere \/ Owner(p[1], g[p][f])

(* Strings are read into a part of the object that is being fetched, after   *)
(* nothing but pointers that lead nowhere has been zeroed; they are read     *)
(* into empty fields.                                                        *)
ReadInto(fields, obj, keys) ==
  /\ FieldOk(fields) /\ obj \in PartsOf(kind) /\ GotStrings(fields, obj, keys)
  /\ DOMAIN keys \subseteq Parts[obj]
  /\ \A p \in DOMAIN Parts : \A f \in Parts[p] :
       fields[p][f] = field[p][f] \/ (fields[p][f] = NULL /\ field[p][f] \in Nowhere)
IntoEmpty(fields, obj, keys) ==
  ReadInto(fields, obj, keys) /\ \A f \in DOMAIN keys : fields[obj][f] = NULL

LEMMA FieldOkNow == FieldInv => FieldOk(field)
BY DEF FieldInv, FieldOk

LEMMA WipedOk ==
  ASSUME FieldInv, NEW k, NEW with \in Nowhere
  PROVE  FieldOk(Wiped(k, with))
<1>1. PICK g : g = Wiped(k, with) OBVIOUS
<1>2. DOMAIN g = DOMAIN Parts BY <1>1 DEF Wiped
<1>3. ASSUME NEW p \in DOMAIN Parts
      PROVE  DOMAIN g[p] = Parts[p] /\ \A f \in Parts[p] : g[p][f] \in Nowhere \/ Owner(p[1], g[p][f])
  <2>1. CASE p[1] = k /\ p \notin Relations
    <3>1. g[p] = [f \in Parts[p] |-> with] BY <1>1, <2>1 DEF Wiped
    <3> QED BY <3>1
  <2>2. CASE ~(p[1] = k /\ p \notin Relations)
    <3>1. g[p] = field[p] BY <1>1, <2>2 DEF Wiped
    <3> QED BY <3>1 DEF FieldInv
  <2> QED BY <2>1, <2>2
<1> QED BY <1>1, <1>2, <1>3 DEF FieldOk

LEMMA FileNulledIs ==
  ASSUME FieldInv, kind \in Kinds
  PROVE  /\ FieldOk(FileNulled)
         /\ \A p \in DOMAIN Parts : p # File => FileNulled[p] = field[p]
         /\ \A f \in Parts[File] : FileNulled[File][f] = NULL
<1>1. PICK p : p = File OBVIOUS
<1>2. p \in DOMAIN Parts /\ DOMAIN field = DOMAIN Parts /\ DOMAIN field[p] = Parts[p]
  BY <1>1, PartsAre DEF FieldInv
<1>3. PICK g : g = FileNulled OBVIOUS
<1>4. g = [field EXCEPT ![p] = [f \in DOMAIN @ |-> NULL]] BY <1>1, <1>3 DEF FileNulled
<1>5. /\ DOMAIN g = DOMAIN Parts /\ g[p] = [f \in Parts[p] |-> NULL]
      /\ \A q \in DOMAIN Parts : q # p => g[q] = field[q]
  BY <1>2, <1>4
<1>6. \A f \in Parts[p] : g[p][f] = NULL BY <1>5
<1>7. DOMAIN g[p] = Parts[p] BY <1>5
<1>8. FieldOk(g)
  BY <1>5, <1>6, <1>7 DEF FieldOk, FieldInv, Nowhere
<1> QED BY <1>1, <1>3, <1>5, <1>6, <1>8

(* Reading a part in place, where its fields are empty. *)
LEMMA InPlaceReads ==
  ASSUME FieldInv, NEW obj \in PartsOf(kind), NEW keys, KeyTable(keys, obj),
         GotStrings(field, obj, keys)
  PROVE  ReadInto(field, obj, keys)
BY FieldOkNow DEF ReadInto, KeyTable

LEMMA KindParts ==
  /\ kind = "user" => User \in PartsOf(kind) /\ \A i \in 1 .. MostRelations : Relation(i) \in PartsOf(kind)
  /\ kind = "channel" => Channel \in PartsOf(kind)
  /\ kind \in Kinds => File \in PartsOf(kind)
<1>1. File = IF kind = "user" THEN <<"user", "avatar">> ELSE Icon BY DEF File, Icon
<1> QED BY <1>1, UserParts DEF Kinds

(* The fields of a user are zeroed before they are read.                     *)
LEMMA UserReadsInto ==
  ASSUME Core, UserStrings
  PROVE  IntoEmpty(Wiped("user", NULL), User, UserKeys)
<1>1. at = "user" /\ kind = "user" /\ FieldInv BY DEF UserStrings, Core, PlaceInv, UserPlaces
<1>2. PICK g : g = Wiped("user", NULL) OBVIOUS
<1>3. FieldOk(g) /\ GotStrings(g, User, UserKeys) /\ User \in PartsOf(kind)
  BY <1>1, <1>2, WipedOk, UserReads, KindParts DEF Nowhere
<1>4. ASSUME NEW p \in DOMAIN Parts, NEW f \in Parts[p]
      PROVE  g[p][f] = field[p][f] \/ (g[p][f] = NULL /\ field[p][f] \in Nowhere)
  <2>1. CASE p[1] = "user" /\ p \notin Relations
    <3>1. g[p] = [q \in Parts[p] |-> NULL] BY <1>2, <2>1 DEF Wiped
    <3>2. p \in PartsOf(kind) BY <1>1, <2>1 DEF PartsOf
    <3>3. \A q \in PartsOf(kind) : Only(q, {})
      BY <1>1 DEF Core, UnsetInv, EmptyInv, Kinds
    <3>4. Only(p, {}) BY <3>2, <3>3
    <3> QED BY <3>1, <3>4 DEF Only
  <2>2. CASE ~(p[1] = "user" /\ p \notin Relations)
    <3>1. g[p] = field[p] BY <1>2, <2>2 DEF Wiped
    <3> QED BY <3>1
  <2> QED BY <2>1, <2>2
<1>5. DOMAIN UserKeys \subseteq Parts[User] BY Tables DEF KeyTable
<1>6. \A f \in DOMAIN UserKeys : g[User][f] = NULL
  <2>1. User[1] = "user" /\ User \notin Relations BY DEF User, Relations, Relation
  <2>2. g[User] = [q \in Parts[User] |-> NULL] BY <1>2, <2>1, PartsAre DEF Wiped
  <2> QED BY <2>2, <1>5
<1> QED BY <1>2, <1>3, <1>4, <1>5, <1>6 DEF IntoEmpty, ReadInto

(* The fields of a file are zeroed before they are read, and held nothing.   *)
LEMMA FileReadsInto ==
  ASSUME Core, FileStrings, file # NoWrapper
  PROVE  IntoEmpty(FileNulled, File, FileKeys)
<1>1. at = "file" /\ kind \in Kinds /\ FieldInv BY DEF FileStrings, Core, PlaceInv
<1>2. Empty(File, Parts[File]) BY <1>1 DEF Core, UnsetInv, EmptyInv
<1>3. PICK g, p : g = FileNulled /\ p = File OBVIOUS
<1>4. /\ FieldOk(g) /\ GotStrings(g, p, FileKeys) /\ p \in PartsOf(kind)
      /\ DOMAIN FileKeys \subseteq Parts[p]
  BY <1>1, <1>3, FileNulledIs, FileReads, KindParts, Tables DEF KeyTable
<1>5. ASSUME NEW q \in DOMAIN Parts, NEW f \in Parts[q]
      PROVE  g[q][f] = field[q][f] \/ (g[q][f] = NULL /\ field[q][f] \in Nowhere)
  BY <1>1, <1>2, <1>3, FileNulledIs DEF Empty, Nowhere
<1>6. \A f \in DOMAIN FileKeys : g[p][f] = NULL
  BY <1>1, <1>3, <1>4, FileNulledIs
<1> QED BY <1>3, <1>4, <1>5, <1>6 DEF IntoEmpty, ReadInto

(* All others are read into fields that are empty, but for the id of a voice *)
(* channel.                                                                  *)
LEMMA OthersReadInto ==
  ASSUME Core
  PROVE  /\ Status => IntoEmpty(field, User, StatusKeys)
         /\ Bot => IntoEmpty(field, User, BotKeys)
         /\ RelationString => IntoEmpty(field, Relation(count + 1), RelationKeys)
         /\ FileEnd => IntoEmpty(field, File, FileEndKeys)
         /\ ChannelStrings => IntoEmpty(field, Channel, ChannelKeys(type))
         /\ VoiceEnd => ReadInto(field, Channel, VoiceEndKeys)
<1>0. FieldInv /\ UnsetInv /\ PlaceInv /\ kind \in Kinds BY DEF Core, PlaceInv
<1>1. ASSUME Status PROVE IntoEmpty(field, User, StatusKeys)
  <2>1. at = "status" /\ kind = "user" BY <1>0, <1>1, Course DEF Goes, PlaceInv, UserPlaces
  <2>2. ReadInto(field, User, StatusKeys)
    BY <1>0, <1>1, <2>1, StatusReads, KindParts, Tables, InPlaceReads
  <2>3. field[User].text = NULL BY <1>0, <2>1 DEF UnsetInv, EmptyInv
  <2>4. DOMAIN StatusKeys = {"text"} BY DEF StatusKeys
  <2> QED BY <2>2, <2>3, <2>4 DEF IntoEmpty
<1>2. ASSUME Bot PROVE IntoEmpty(field, User, BotKeys)
  <2>1. at = "bot" /\ kind = "user" BY <1>0, <1>2, Course DEF Goes, PlaceInv, UserPlaces
  <2>2. ReadInto(field, User, BotKeys)
    BY <1>0, <1>2, <2>1, BotReads, KindParts, Tables, InPlaceReads
  <2>3. field[User].owner_id = NULL BY <1>0, <2>1 DEF UnsetInv, EmptyInv, OpenPlaces, UserPlaces
  <2>4. DOMAIN BotKeys = {"owner_id"} BY DEF BotKeys
  <2> QED BY <2>2, <2>3, <2>4 DEF IntoEmpty
<1>3. ASSUME RelationString PROVE IntoEmpty(field, Relation(count + 1), RelationKeys)
  <2>1. at = "relation" /\ kind = "user" BY <1>0, <1>3, Course DEF Goes, PlaceInv, UserPlaces
  <2>2. count + 1 \in 1 .. MostRelations BY <1>3, RelationReads
  <2>3. PICK obj : obj = Relation(count + 1) OBVIOUS
  <2>4. obj \in PartsOf(kind) /\ KeyTable(RelationKeys, obj) /\ GotStrings(field, obj, RelationKeys)
        /\ Parts[obj] = {"user_id"}
    BY <1>3, <2>1, <2>2, <2>3, KindParts, Tables, RelationReads, PartsAre
  <2>5. ReadInto(field, obj, RelationKeys) BY <1>0, <2>4, InPlaceReads
  <2>6. Empty(obj, Parts[obj])
    <3>1. Filled = count BY <2>1 DEF Filled
    <3>2. count \in 0 .. MostRelations BY DEF Core, DocInv
    <3>3. count + 1 > Filled BY <3>1, <3>2, FetchBounds
    <3>4. \A i \in 1 .. MostRelations : i > Filled => Empty(Relation(i), Parts[Relation(i)])
      BY <1>0 DEF UnsetInv, EmptyInv
    <3> QED BY <2>2, <2>3, <3>3, <3>4
  <2>7. \A f \in DOMAIN RelationKeys : field[obj][f] = NULL
    BY <2>4, <2>6 DEF Empty, KeyTable
  <2> QED BY <2>3, <2>5, <2>7 DEF IntoEmpty
<1>4. ASSUME FileEnd PROVE IntoEmpty(field, File, FileEndKeys)
  <2>1. at = "file end" BY <1>4, Course
  <2>2. ReadInto(field, File, FileEndKeys)
    BY <1>0, <1>4, FileEndReads, KindParts, Tables, InPlaceReads
  <2>3. Empty(File, DOMAIN FileEndKeys) BY <1>0, <2>1 DEF UnsetInv, EmptyInv
  <2> QED BY <2>2, <2>3 DEF IntoEmpty, Empty
<1>5. ASSUME ChannelStrings PROVE IntoEmpty(field, Channel, ChannelKeys(type))
  <2>1. at = "strings" /\ kind = "channel" BY <1>0, <1>5, Course DEF Goes, PlaceInv, ChannelPlaces
  <2>2. PICK keys : keys = ChannelKeys(type) OBVIOUS
  <2>3. ReadInto(field, Channel, keys)
    BY <1>0, <1>5, <2>1, <2>2, ChannelReads, KindParts, Tables, InPlaceReads
  <2>4. Empty(Channel, Parts[Channel]) BY <1>0, <2>1 DEF UnsetInv, EmptyInv
  <2>5. DOMAIN keys \subseteq Parts[Channel] BY <2>2, Tables DEF KeyTable
  <2> QED BY <2>2, <2>3, <2>4, <2>5 DEF IntoEmpty, Empty
<1>6. ASSUME VoiceEnd PROVE ReadInto(field, Channel, VoiceEndKeys)
  <2>1. kind = "channel" BY <1>0, <1>6, Course DEF Goes, PlaceInv, ChannelPlaces
  <2> QED BY <1>0, <1>6, <2>1, VoiceEndReads, KindParts, Tables, InPlaceReads
<1> QED BY <1>1, <1>2, <1>3, <1>4, <1>5, <1>6

StringActions ==
  \/ UserStrings \/ Status \/ Bot \/ RelationString \/ (FileStrings /\ file # NoWrapper)
  \/ FileEnd \/ ChannelStrings \/ VoiceEnd

(* Whatever strings are read, they are read in one of these ways.            *)
LEMMA ReadsInto ==
  ASSUME Core, StringActions
  PROVE  \E fields, obj, keys :
           ReadInto(fields, obj, keys) /\ (VoiceEnd \/ IntoEmpty(fields, obj, keys))
BY UserReadsInto, FileReadsInto, OthersReadInto DEF StringActions, IntoEmpty

LEMMA FieldSame ==
  ASSUME FetchNext, ~Fetch, ~ChannelType, ~AllocateRelations, ~StringActions
  PROVE  field' = field
<1> USE DEF object_vars
<1>1. CASE revolt_init \/ FetchReturns \/ Deserialize \/ Leave
  BY <1>1 DEF revolt_init, FetchReturns, Deserialize, Leave
<1>2. CASE RequestActions
  BY <1>2 DEF RequestActions, revolt_rest_request, write_callback, request_perform
<1>3. CASE DeleteActions
  BY <1>3 DEF DeleteActions, revolt_user_delete, revolt_channel_delete, revolt_cleanup
<1>4. FileActions => field' = field
  <2>1. GetFile => field' = field BY DEF GetFile
  <2>2. GetMetadata => field' = field BY DEF GetMetadata
  <2>3. revolt_file_metadata_deserialize_json_obj => field' = field
    BY DEF revolt_file_metadata_deserialize_json_obj
  <2>4. FileStrings => field' = field BY DEF FileStrings, StringActions
  <2> QED BY <2>1, <2>2, <2>3, <2>4 DEF FileActions, StringActions
<1>5. revolt_user_deserialize_json_obj => field' = field
  <2>1. Presence => field' = field BY DEF Presence
  <2>2. RelationStatus => field' = field BY DEF RelationStatus
  <2>3. Relationship => field' = field BY DEF Relationship
  <2>4. GetRelations => field' = field BY DEF GetRelations
  <2>5. FirstRelation => field' = field BY DEF FirstRelation
  <2>6. NextRelation => field' = field BY DEF NextRelation
  <2>7. RelationsMissing => field' = field BY DEF RelationsMissing
  <2>8. NoMoreRelations => field' = field BY DEF NoMoreRelations
  <2> QED BY <2>1, <2>2, <2>3, <2>4, <2>5, <2>6, <2>7, <2>8
          DEF revolt_user_deserialize_json_obj, StringActions
<1>6. revolt_channel_deserialize_json_obj => field' = field
  <2>1. Permissions => field' = field BY DEF Permissions
  <2> QED BY <2>1 DEF revolt_channel_deserialize_json_obj, StringActions
<1> QED BY <1>1, <1>2, <1>3, <1>4, <1>5, <1>6 DEF FetchNext, FileActions, RequestActions, DeleteActions

(* A field holds a string of its object, or leads nowhere.                   *)
LEMMA FieldStep ==
  ASSUME Core, FetchNext, at' # "crashed"
  PROVE  FieldInv'
<1>0. FieldInv BY DEF Core
<1>1. CASE Fetch
  <2>1. field' = Wiped(kind, WILD) \/ field' = field BY <1>1 DEF Fetch
  <2>2. FieldOk(Wiped(kind, WILD)) BY <1>0, WipedOk DEF Nowhere
  <2> QED BY <1>0, <2>1, <2>2 DEF FieldOk, FieldInv
<1>2. CASE ChannelType
  <2>1. field' = Wiped("channel", NULL) BY <1>2 DEF ChannelType
  <2>2. FieldOk(Wiped("channel", NULL)) BY <1>0, WipedOk DEF Nowhere
  <2> QED BY <2>1, <2>2 DEF FieldOk, FieldInv
<1>3. CASE AllocateRelations
  <2>1. CASE field' = field BY <1>0, <2>1 DEF FieldInv
  <2>2. CASE field' = [field EXCEPT ![User].relations = <<"user", "relations">>]
    <3>1. PICK b : b = <<"user", "relations">> OBVIOUS
    <3>2. Owner("user", b)
      <4>1. b \in Seq(Words)
        <5>1. "user" \in Words /\ "relations" \in Words BY DEF Words, Literals
        <5> QED BY <3>1, <5>1, TwoOf
      <4> QED BY <3>1, <4>1 DEF Owner
    <3>3. PICK p : p = User OBVIOUS
    <3>4. p \in DOMAIN Parts /\ p[1] = "user" BY <3>3, PartsAre, Heads
    <3>5. /\ DOMAIN field' = DOMAIN field /\ \A q \in DOMAIN field : q # p => field'[q] = field[q]
          /\ DOMAIN field'[p] = DOMAIN field[p]
          /\ \A f \in DOMAIN field[p] : field'[p][f] \in {field[p][f], b}
      <4>1. field' = [field EXCEPT ![p] = [@ EXCEPT !.relations = b]] BY <2>2, <3>1, <3>3
      <4> QED BY <4>1, <3>4, <1>0 DEF FieldInv
    <3> QED BY <1>0, <3>2, <3>4, <3>5 DEF FieldInv
  <2> QED BY <1>3, <2>1, <2>2 DEF AllocateRelations
<1>4. CASE StringActions
  <2>1. PICK fields, obj, keys : ReadInto(fields, obj, keys) BY <1>4, ReadsInto
  <2>2. FieldOk(fields) /\ obj \in DOMAIN Parts /\ GotStrings(fields, obj, keys)
    BY <2>1 DEF ReadInto, PartsOf
  <2> QED BY <2>2 DEF FieldOk, GotStrings, FieldInv, Nowhere
<1>5. CASE ~Fetch /\ ~ChannelType /\ ~AllocateRelations /\ ~StringActions
  <2>1. field' = field BY <1>5, FieldSame
  <2> QED BY <1>0, <2>1 DEF FieldInv
<1> QED BY <1>1, <1>2, <1>3, <1>4, <1>5

-----------------------------------------------------------------------------
Fails(r) == err' = [err EXCEPT ![kind] = r]

(* Which results a call gets, and where it goes with them.                   *)
LEMMA ErrReading ==
  ASSUME Reading1
  PROVE  err' = err \/ (at' = "leave" /\ \E r \in {"INVAL", "PARSE"} : Fails(r))
<1> USE DEF Leaves, Finds, Fails
<1> DEFINE G == err' = err \/ (at' = "leave" /\ \E r \in {"INVAL", "PARSE"} : Fails(r))
<1>1. FileActions => G
  <2>1. GetFile => G BY DEF GetFile
  <2>2. FileStrings => G BY DEF FileStrings
  <2>3. GetMetadata => G BY DEF GetMetadata
  <2>4. revolt_file_metadata_deserialize_json_obj => G BY DEF revolt_file_metadata_deserialize_json_obj
  <2>5. FileEnd => G BY DEF FileEnd
  <2> QED BY <2>1, <2>2, <2>3, <2>4, <2>5 DEF FileActions
<1>2. revolt_user_deserialize_json_obj => G
  <2>1. UserStrings => G BY DEF UserStrings
  <2>2. Status => G BY DEF Status
  <2>3. Bot => G BY DEF Bot
  <2>4. RelationString => G BY DEF RelationString
  <2>5. Presence => G BY DEF Presence
  <2>6. RelationStatus => G BY DEF RelationStatus
  <2>7. Relationship => G BY DEF Relationship
  <2>8. GetRelations => G BY DEF GetRelations
  <2>9. FirstRelation => G BY DEF FirstRelation
  <2>10. NextRelation => G BY DEF NextRelation
  <2>11. AllocateRelations => G BY DEF AllocateRelations
  <2>12. RelationsMissing => G BY DEF RelationsMissing
  <2>13. NoMoreRelations => G BY DEF NoMoreRelations
  <2> HIDE DEF G
  <2> QED BY <2>1, <2>2, <2>3, <2>4, <2>5, <2>6, <2>7, <2>8, <2>9, <2>10, <2>11, <2>12, <2>13
          DEF revolt_user_deserialize_json_obj
<1>3. revolt_channel_deserialize_json_obj => G
  <2>1. ChannelType => G BY DEF ChannelType
  <2>2. ChannelStrings => G BY DEF ChannelStrings
  <2>3. Permissions => G BY DEF Permissions
  <2>4. VoiceEnd => G BY DEF VoiceEnd
  <2> QED BY <2>1, <2>2, <2>3, <2>4 DEF revolt_channel_deserialize_json_obj
<1> HIDE DEF G
<1>4. G BY <1>1, <1>2, <1>3 DEF Reading1
<1> QED BY <1>4 DEF G

(* What each step of a fetch does to its result.                             *)
LEMMA ErrRest ==
  /\ revolt_init \/ FetchReturns \/ Leave \/ DeleteActions => err' = err
  /\ Fetch => \/ at' = "request" /\ err' = err /\ object' = [object EXCEPT ![kind] = <<kind>>]
              \/ Fails("NOMEM") /\ object' = object /\ field' = field
  /\ RequestActions => \/ err' = err
                       \/ at' = "cleanup" /\ \E r \in {"CURL_INIT", "NOMEM", "CURL"} : Fails(r)
  /\ Deserialize => \E r \in {"INVAL", "NOMEM", "PARSE", "OK"} :
                      Fails(r) /\ at' = IF r = "OK" THEN kind ELSE "cleanup"
<1> USE DEF Ends, Fails
<1>1. revolt_init \/ FetchReturns \/ Leave \/ DeleteActions => err' = err
  BY
  DEF revolt_init, FetchReturns, Leave, DeleteActions, revolt_user_delete, revolt_channel_delete, revolt_cleanup
<1>2. Fetch => \/ at' = "request" /\ err' = err /\ object' = [object EXCEPT ![kind] = <<kind>>]
               \/ Fails("NOMEM") /\ object' = object /\ field' = field
  BY DEF Fetch
<1>3. RequestActions => \/ err' = err
                        \/ at' = "cleanup" /\ \E r \in {"CURL_INIT", "NOMEM", "CURL"} : Fails(r)
  BY DEF RequestActions, revolt_rest_request, revoltc_http_request, write_callback, request_perform
<1>4. Deserialize => \E r \in {"INVAL", "NOMEM", "PARSE", "OK"} :
                      Fails(r) /\ at' = IF r = "OK" THEN kind ELSE "cleanup"
  BY DEF Deserialize
<1> QED BY <1>1, <1>2, <1>3, <1>4

LEMMA ObjectSame ==
  ASSUME FetchNext, ~Fetch
  PROVE  object' = object
<1>1. Reading1 => object' = object BY ReadingFrame
<1>2. revolt_init \/ FetchReturns \/ Deserialize \/ Leave => object' = object
  BY DEF revolt_init, FetchReturns, Deserialize, Leave
<1>3. RequestActions => object' = object
  BY DEF RequestActions, revolt_rest_request, write_callback, request_perform
<1>4. DeleteActions => object' = object
  BY DEF DeleteActions, revolt_user_delete, revolt_channel_delete, revolt_cleanup
<1> QED BY <1>1, <1>2, <1>3, <1>4 DEF FetchNext, FileActions, RequestActions, DeleteActions, Reading1

(* Where an object is that has been allocated and not been read into yet. *)
LEMMA FirstReads ==
  ASSUME FetchNext, at \in Kinds
  PROVE  UserStrings \/ ChannelType
<1> USE DEF Kinds
<1>1. ~(revolt_init \/ Fetch \/ FetchReturns \/ Deserialize \/ Leave)
  BY DEF revolt_init, Fetch, FetchReturns, Deserialize, Leave
<1>2. ~RequestActions
  BY DEF RequestActions, revolt_rest_request, write_callback, request_perform
<1>3. ~DeleteActions
  BY DEF DeleteActions, revolt_user_delete, revolt_channel_delete, revolt_cleanup
<1>4. Reading1 => UserStrings \/ ChannelType
  BY Course
  DEF Reading1, FileActions, revolt_user_deserialize_json_obj, revolt_channel_deserialize_json_obj, Goes
<1> QED BY <1>1, <1>2, <1>3, <1>4 DEF FetchNext, FileActions, RequestActions, DeleteActions, Reading1

-----------------------------------------------------------------------------
LEMMA GotWritten ==
  ASSUME NEW fields, FieldOk(fields), NEW obj \in DOMAIN Parts, NEW keys, GotStrings(fields, obj, keys),
         NEW k, \A p \in PartsOf(k) : \A f \in Parts[p] : fields[p][f] # WILD
  PROVE  Written(k)'
<1>1. ASSUME NEW p \in PartsOf(k), NEW f \in DOMAIN field'[p] PROVE field'[p][f] # WILD
  <2>1. p \in DOMAIN Parts BY DEF PartsOf
  <2>2. DOMAIN field'[p] = Parts[p] BY <2>1 DEF GotStrings, FieldOk
  <2>3. fields[p][f] # WILD BY <2>2
  <2>4. field'[p][f] = fields[p][f] \/ field'[p][f] = NULL \/ Owner(obj[1], field'[p][f])
    BY <2>1, <2>2 DEF GotStrings, FieldOk
  <2>5. NULL # WILD BY DEF NULL, WILD
  <2>6. ASSUME NEW k2, NEW b, Owner(k2, b) PROVE b # WILD
    <3>1. SUFFICES ASSUME b = WILD PROVE FALSE OBVIOUS
    <3>2. Len(b) = 1 BY <3>1 DEF WILD
    <3>3. Len(b) >= 2 BY <2>6 DEF Owner
    <3>4. ~(1 >= 2) OBVIOUS
    <3> QED BY <3>2, <3>3, <3>4
  <2> QED BY <2>3, <2>4, <2>5, <2>6
<1> QED BY <1>1 DEF Written

(* Reading strings writes no wild pointer.                                   *)
LEMMA ReadWritten ==
  ASSUME NEW fields, NEW obj, NEW keys, ReadInto(fields, obj, keys), FieldInv, NEW k, Written(k)
  PROVE  Written(k)'
<1>1. FieldOk(fields) /\ obj \in DOMAIN Parts /\ GotStrings(fields, obj, keys)
  BY DEF ReadInto, PartsOf
<1>2. ASSUME NEW p \in PartsOf(k), NEW f \in Parts[p] PROVE fields[p][f] # WILD
  <2>1. p \in DOMAIN Parts /\ f \in DOMAIN field[p] BY DEF PartsOf, FieldInv
  <2>2. fields[p][f] = field[p][f] \/ fields[p][f] = NULL BY <2>1 DEF ReadInto
  <2>3. NULL # WILD BY DEF NULL, WILD
  <2> QED BY <2>1, <2>2, <2>3 DEF Written
<1> QED BY <1>1, <1>2, GotWritten

LEMMA WrittenSame ==
  ASSUME NEW k, Written(k), \A p \in PartsOf(k) : field'[p] = field[p]
  PROVE  Written(k)'
BY DEF Written

(* The first step of a user's deserialisation writes all its fields.         *)
LEMMA UserWritten ==
  ASSUME Core, UserStrings
  PROVE  Written("user")'
<1>1. at = "user" /\ kind = "user" /\ count = 0 /\ UnsetInv /\ FieldInv
  BY DEF UserStrings, Core, PlaceInv, UserPlaces, DocInv, BeforeRelations
<1>2. PICK g : g = Wiped("user", NULL) OBVIOUS
<1>3. ReadInto(g, User, UserKeys) BY <1>2, UserReadsInto DEF IntoEmpty
<1>4. FieldOk(g) /\ User \in DOMAIN Parts /\ GotStrings(g, User, UserKeys)
  BY <1>3 DEF ReadInto, PartsOf
<1>5. NULL # WILD BY DEF NULL, WILD
<1>6. ASSUME NEW p \in PartsOf("user"), NEW f \in Parts[p] PROVE g[p][f] # WILD
  <2>0. p \in DOMAIN Parts /\ p[1] = "user" BY DEF PartsOf
  <2>1. CASE p \notin Relations
    <3>1. g[p] = [q \in Parts[p] |-> NULL] BY <1>2, <2>0, <2>1 DEF Wiped
    <3> QED BY <3>1, <1>5
  <2>2. CASE p \in Relations
    <3>1. g[p] = field[p] BY <1>2, <2>0, <2>2 DEF Wiped
    <3>2. PICK i \in 1 .. MostRelations : p = Relation(i) BY <2>2 DEF Relations
    <3>3. i > Filled BY <1>1 DEF Filled
    <3>4. Empty(p, Parts[p])
      <4>1. \A j \in 1 .. MostRelations : j > Filled => Empty(Relation(j), Parts[Relation(j)])
        BY <1>1 DEF UnsetInv, EmptyInv
      <4> QED BY <4>1, <3>2, <3>3
    <3> QED BY <3>1, <3>4, <1>5 DEF Empty
  <2> QED BY <2>1, <2>2
<1> QED BY <1>4, <1>6, GotWritten

(* The first step of a channel's deserialisation writes all its fields.      *)
LEMMA ChannelWritten ==
  ASSUME Core, ChannelType
  PROVE  Written("channel")' /\ (Written("user") => Written("user")')
<1>1. field' = Wiped("channel", NULL) BY DEF ChannelType
<1>2. ASSUME NEW p \in PartsOf("channel") PROVE field'[p] = [f \in Parts[p] |-> NULL]
  <2>1. p \in DOMAIN Parts /\ p[1] = "channel" BY DEF PartsOf
  <2>2. p \notin Relations BY <2>1, Heads DEF Relations
  <2> QED BY <2>1, <2>2, <1>1 DEF Wiped
<1>3. NULL # WILD BY DEF NULL, WILD
<1>4. \A p \in PartsOf("user") : field'[p] = field[p]
  BY <1>1 DEF Wiped, PartsOf
<1> QED BY <1>2, <1>3, <1>4, WrittenSame DEF Written

(* Except that a fetch allocates an object, what is written stays so.        *)
LEMMA WrittenStays ==
  ASSUME Core, FetchNext, at' # "crashed", NEW k \in Kinds, Written(k), ~Fetch \/ k # kind
  PROVE  Written(k)'
<1>0. FieldInv /\ PlaceInv BY DEF Core
<1>1. CASE Fetch
  <2>1. field' = field \/ field' = Wiped(kind, WILD) BY <1>1 DEF Fetch
  <2>2. \A p \in PartsOf(k) : field'[p] = field[p]
    BY <1>0, <1>1, <2>1 DEF PartsOf, Wiped
  <2> QED BY <2>2, WrittenSame
<1>2. CASE ChannelType BY <1>2, ChannelWritten DEF Kinds
<1>3. CASE AllocateRelations
  <2>1. CASE field' = field BY <2>1, WrittenSame
  <2>2. CASE field' = [field EXCEPT ![User].relations = <<"user", "relations">>]
    <3>1. PICK b : b = <<"user", "relations">> OBVIOUS
    <3>2. b # WILD BY <3>1 DEF WILD
    <3>3. PICK p : p = User OBVIOUS
    <3>5. /\ DOMAIN field' = DOMAIN field /\ \A q \in DOMAIN field : q # p => field'[q] = field[q]
          /\ DOMAIN field'[p] = DOMAIN field[p]
          /\ \A f \in DOMAIN field[p] : field'[p][f] \in {field[p][f], b}
      <4>1. field' = [field EXCEPT ![p] = [@ EXCEPT !.relations = b]] BY <2>2, <3>1, <3>3
      <4>2. p \in DOMAIN field BY <3>3, <1>0, PartsAre DEF FieldInv
      <4> QED BY <4>1, <4>2
    <3> QED BY <1>0, <3>2, <3>5 DEF FieldInv, Written, PartsOf
  <2> QED BY <1>3, <2>1, <2>2 DEF AllocateRelations
<1>4. CASE StringActions
  <2>1. PICK fields, obj, keys : ReadInto(fields, obj, keys) BY <1>4, ReadsInto
  <2> QED BY <1>0, <2>1, ReadWritten
<1>5. CASE ~Fetch /\ ~ChannelType /\ ~AllocateRelations /\ ~StringActions
  <2>1. field' = field BY <1>5, FieldSame
  <2> QED BY <2>1, WrittenSame
<1> QED BY <1>1, <1>2, <1>3, <1>4, <1>5

(* An object whose document was parsed has no wild pointer.                  *)
LEMMA WrittenStep ==
  ASSUME Core, FetchNext, at' # "crashed"
  PROVE  WrittenInv'
<1>0. WrittenInv /\ PlaceInv /\ kind \in Kinds /\ DOMAIN err = Kinds /\ DOMAIN object = Kinds
  BY DEF Core, PlaceInv
<1>1. CASE Fetch
  <2>1. at = "fetch" /\ root' = root /\ root = NoWrapper /\ err[kind] = "NONE" /\ at' \notin Kinds
    BY <1>0, <1>1 DEF Fetch, Returned, wrapper_vars, PlaceInv, OpenPlaces, UserPlaces, ChannelPlaces,
       FilePlaces, Kinds
  <2>2. at \notin Kinds BY <2>1 DEF Kinds
  <2>3. ASSUME NEW j \in Kinds, j # kind
        PROVE  /\ object'[j] # NULL /\ err'[j] = "OK" /\ at' # j => Written(j)'
               /\ object'[j] = NULL => Written(j)'
    <3>1. object'[j] = object[j] /\ err'[j] = err[j]
      BY <1>0, <1>1, <2>3, ErrRest DEF Fails
    <3>2. Written(j) => Written(j)' BY <1>1, <2>3, WrittenStays
    <3> QED BY <1>0, <2>2, <3>1, <3>2 DEF WrittenInv
  <2>4. PICK k \in Kinds : k = kind BY <1>0
  <2>5. err'[k] # "OK" BY <1>0, <1>1, <2>1, <2>4, ErrRest DEF Fails
  <2>9. object'[k] = NULL => Written(k)'
    <3>1. object'[k] = NULL => object' = object /\ field' = field
      <4>1. <<kind>> # NULL BY DEF NULL
      <4> QED BY <1>0, <1>1, <2>4, <4>1, ErrRest
    <3>2. object[k] = NULL => Written(k) BY <1>0 DEF WrittenInv
    <3> QED BY <3>1, <3>2, WrittenSame
  <2>6. root' = NoWrapper BY <2>1
  <2>7. \A j \in Kinds : /\ object'[j] # NULL /\ err'[j] = "OK" /\ at' # j => Written(j)'
                         /\ object'[j] = NULL => Written(j)'
    BY <2>3, <2>4, <2>5, <2>9
  <2> QED BY <2>6, <2>7 DEF WrittenInv
<1>2. CASE ~Fetch
  <2>1. object' = object BY <1>2, ObjectSame
  <2>2. \A k \in Kinds : Written(k) => Written(k)' BY <1>2, WrittenStays
  <2>3. ASSUME NEW k \in Kinds, at = k, at' # k PROVE Written(k)'
    <3>1. UserStrings \/ ChannelType BY <2>3, FirstReads
    <3>2. UserStrings => at = "user" BY DEF UserStrings
    <3>3. ChannelType => at = "channel" BY DEF ChannelType
    <3> QED BY <2>3, <3>1, <3>2, <3>3, UserWritten, ChannelWritten
  <2>4. ASSUME root' # NoWrapper, at' # kind' PROVE Written(kind)' /\ kind' = kind
    <3>1. Reading1
      <4>1. ~(revolt_init \/ FetchReturns \/ RequestActions \/ DeleteActions)
        <5>1. CASE FetchReturns
          BY <1>0, <2>4, <5>1
          DEF FetchReturns, wrapper_vars, PlaceInv, OpenPlaces, UserPlaces, ChannelPlaces, FilePlaces
        <5>2. CASE revolt_init
          BY <1>0, <2>4, <5>2
          DEF revolt_init, wrapper_vars, PlaceInv, OpenPlaces, UserPlaces, ChannelPlaces, FilePlaces
        <5>3. CASE RequestActions
          BY <1>0, <2>4, <5>3 DEF RequestActions, revolt_rest_request, write_callback, request_perform,
             wrapper_vars, PlaceInv, OpenPlaces, UserPlaces, ChannelPlaces, FilePlaces
        <5>4. CASE DeleteActions
          BY <1>0, <2>4, <5>4 DEF DeleteActions, revolt_user_delete, revolt_channel_delete, revolt_cleanup,
             wrapper_vars, PlaceInv, OpenPlaces, UserPlaces, ChannelPlaces, FilePlaces
        <5> QED BY <5>1, <5>2, <5>3, <5>4
      <4>2. ~Leave BY <2>4 DEF Leave
      <4>3. ~Deserialize
        BY <1>0, <2>4
        DEF Deserialize, Ends, revoltc_json_parse, PlaceInv, OpenPlaces, UserPlaces, ChannelPlaces, FilePlaces
      <4> QED BY <1>2, <4>1, <4>2, <4>3 DEF FetchNext, FileActions, RequestActions, DeleteActions, Reading1
    <3>2. kind' = kind /\ root' = root BY <3>1, ReadingFrame
    <3>3. at = kind => Written(kind)' BY <1>0, <2>3, <2>4, <3>2
    <3>4. at # kind => Written(kind) BY <1>0, <2>4, <3>2 DEF WrittenInv
    <3>5. PICK k \in Kinds : k = kind BY <1>0
    <3>6. Written(k)' BY <2>2, <3>3, <3>4, <3>5, <3>2, <2>3, <2>4
    <3> QED BY <3>2, <3>5, <3>6
  <2>5. ASSUME NEW k \in Kinds, object[k] # NULL, err'[k] = "OK", at' # k PROVE Written(k)'
    <3>1. CASE err[k] = "OK"
      <4>1. at # k => Written(k) BY <1>0, <2>5, <3>1 DEF WrittenInv
      <4> QED BY <2>2, <2>3, <2>5, <4>1
    <3>2. CASE err[k] # "OK"
      <4>1. err' # err BY <2>5, <3>2
      <4>2. RequestActions \/ Deserialize \/ Reading1
        BY <1>2, <4>1, ErrRest DEF FetchNext, FileActions, RequestActions, DeleteActions, Reading1
      <4>3. PICK r : Fails(r) /\ (r = "OK" => at' = kind)
        <5>1. CASE RequestActions BY <5>1, <4>1, ErrRest
        <5>2. CASE Deserialize BY <5>2, ErrRest
        <5>3. CASE Reading1 BY <5>3, <4>1, ErrReading
        <5> QED BY <4>2, <5>1, <5>2, <5>3
      <4>4. k = kind /\ r = "OK" BY <1>0, <2>5, <3>2, <4>3 DEF Fails
      <4> QED BY <2>5, <4>3, <4>4
    <3> QED BY <3>1, <3>2
  <2>6. \A k \in Kinds : object'[k] = NULL => Written(k)'
    BY <1>0, <2>1, <2>2 DEF WrittenInv
  <2>7. \A k \in Kinds : object'[k] # NULL /\ err'[k] = "OK" /\ at' # k => Written(k)'
    BY <2>1, <2>5
  <2>8. root' # NoWrapper /\ at' # kind' => Written(kind)'
    BY <2>4
  <2> QED BY <2>6, <2>7, <2>8 DEF WrittenInv
<1> QED BY <1>1, <1>2

-----------------------------------------------------------------------------
(* The part and the keys are those that the object has.                      *)
Fits(obj, keys) ==
  /\ obj = User => DOMAIN keys \subseteq UserFields
  /\ obj = Channel => DOMAIN keys \subseteq DOMAIN ChannelKeys(type)
  /\ obj = Icon => type \in WithIcon

(* The parts of objects are different.                                       *)
LEMMA Apart ==
  /\ User # Channel /\ User # Icon /\ Channel # Icon
  /\ File # User /\ File # Channel
  /\ File = Icon <=> kind # "user"
  /\ \A i \in 1 .. MostRelations : /\ Relation(i) # User /\ Relation(i) # Channel
                                   /\ Relation(i) # Icon /\ Relation(i) # File
  /\ \A i, j \in 1 .. MostRelations : Relation(i) = Relation(j) => i = j
<1>1. User # Channel /\ User # Icon /\ Channel # Icon BY DEF User, Channel, Icon
<1>2. File # User /\ File # Channel BY DEF File, User, Channel
<1>3. File = Icon <=> kind # "user"
  <2>1. <<"user", "avatar">> # <<"channel", "icon">> OBVIOUS
  <2> QED BY <2>1 DEF File, Icon
<1>4. ASSUME NEW i \in 1 .. MostRelations
      PROVE  Relation(i) # User /\ Relation(i) # Channel /\ Relation(i) # Icon /\ Relation(i) # File
  BY DEF Relation, User, Channel, Icon, File
<1>5. \A i, j \in 1 .. MostRelations : Relation(i) = Relation(j) => i = j
  BY DEF Relation
<1> QED BY <1>1, <1>2, <1>3, <1>4, <1>5

LEMMA KeyDomains ==
  /\ DOMAIN UserKeys \subseteq UserFields /\ DOMAIN StatusKeys = {"text"} /\ DOMAIN BotKeys = {"owner_id"}
  /\ "text" \notin DOMAIN UserKeys /\ "relations" \notin DOMAIN UserKeys /\ "owner_id" \notin DOMAIN UserKeys
  /\ DOMAIN RelationKeys = {"user_id"} /\ DOMAIN VoiceEndKeys = {"id"} /\ "id" \in DOMAIN VoiceKeys
  /\ \A f \in DOMAIN FileEndKeys : f \notin DOMAIN FileKeys
  /\ "text" \in ObjectFields /\ "relations" \in ObjectFields /\ "owner_id" \in ObjectFields
  /\ "id" \in ObjectFields
BY
DEF UserFields, UserKeys, StatusKeys, BotKeys, RelationKeys, VoiceEndKeys, VoiceKeys, FileEndKeys, FileKeys,
       ObjectFields, GroupKeys, TextKeys

(* Strings are read only into fields that the cleanup knows.                 *)
LEMMA StringsFit ==
  ASSUME Core
  PROVE  /\ UserStrings => Fits(User, UserKeys)
         /\ Status => Fits(User, StatusKeys)
         /\ Bot => Fits(User, BotKeys)
         /\ RelationString => Fits(Relation(count + 1), RelationKeys)
         /\ FileStrings => Fits(File, FileKeys)
         /\ FileEnd => Fits(File, FileEndKeys)
         /\ ChannelStrings => Fits(Channel, ChannelKeys(type))
         /\ VoiceEnd => Fits(Channel, VoiceEndKeys)
<1>1. Fits(User, UserKeys) /\ Fits(User, StatusKeys) /\ Fits(User, BotKeys)
  BY Apart, KeyDomains DEF Fits, UserFields
<1>2. ASSUME RelationString PROVE Fits(Relation(count + 1), RelationKeys)
  <2>1. count + 1 \in 1 .. MostRelations BY <1>2, RelationReads
  <2> QED BY <2>1, Apart DEF Fits
<1>3. ASSUME FileStrings \/ FileEnd, NEW keys PROVE Fits(File, keys)
  <2>1. at \in FilePlaces /\ kind \in Kinds /\ TypeInv
    BY <1>3, Course DEF FilePlaces, Core, PlaceInv, UnsetInv
  <2>2. kind # "user" => type \in WithIcon BY <2>1 DEF TypeInv, Kinds
  <2> QED BY <2>2, Apart DEF Fits
<1>4. Fits(Channel, ChannelKeys(type)) BY Apart DEF Fits
<1>5. ASSUME VoiceEnd PROVE Fits(Channel, VoiceEndKeys)
  <2>1. type = "VOICE"
    <3>1. at = "voice end" BY <1>5, Course DEF Goes
    <3> QED BY <3>1 DEF Core, UnsetInv, TypeInv
  <2>2. ChannelKeys(type) = VoiceKeys BY <2>1 DEF ChannelKeys
  <2> QED BY <2>2, Apart, KeyDomains DEF Fits
<1> QED BY <1>1, <1>2, <1>3, <1>4, <1>5

LEMMA StringsRead ==
  ASSUME Core, StringActions
  PROVE  \E fields, obj, keys :
           /\ ReadInto(fields, obj, keys) /\ Fits(obj, keys)
           /\ VoiceEnd \/ IntoEmpty(fields, obj, keys)
BY UserReadsInto, FileReadsInto, OthersReadInto, StringsFit DEF StringActions, IntoEmpty

(* A field that is not read into keeps what it holds or is zeroed.           *)
LEMMA Unread ==
  ASSUME FieldInv, NEW fields, NEW obj, NEW keys, ReadInto(fields, obj, keys),
         NEW p \in DOMAIN Parts, NEW f \in Parts[p], p # obj \/ f \notin DOMAIN keys
  PROVE  /\ field'[p][f] = fields[p][f]
         /\ field'[p][f] = field[p][f] \/ field'[p][f] = NULL
<1>1. DOMAIN fields = DOMAIN Parts /\ DOMAIN fields[p] = Parts[p] BY DEF ReadInto, FieldOk
<1>2. field'[p][f] = fields[p][f]
  BY <1>1 DEF ReadInto, GotStrings
<1> QED BY <1>2 DEF ReadInto

-----------------------------------------------------------------------------
(* What is there of the enumerators.                                         *)
LEMMA ValueStep ==
  ASSUME Core, FetchNext
  PROVE  DOMAIN value' = Values /\ (~ChannelType => type' = type)
<1>0. DOMAIN value = Values BY DEF Core, UnsetInv, ShapeInv
<1> USE DEF object_vars
<1> DEFINE V == <<"channel", "type">>
           G == DOMAIN value' = DOMAIN value /\ value'[V] = value[V]
<1>1. revolt_init \/ Fetch \/ FetchReturns \/ RequestActions \/ Deserialize \/ Leave \/ DeleteActions => G
  BY
  DEF revolt_init, Fetch, FetchReturns, RequestActions, revolt_rest_request, write_callback, request_perform,
         Deserialize, Leave, DeleteActions, revolt_user_delete, revolt_channel_delete, revolt_cleanup
<1>2. ASSUME NEW v, v # V, NEW m, value' = [value EXCEPT ![v] = m] PROVE G
  BY <1>2
<1> HIDE DEF G
<1>g. value' = value => G BY DEF G
<1>3. FileActions => G
  <2>1. GetFile => value' = value BY DEF GetFile
  <2>2. FileStrings => value' = value BY DEF FileStrings
  <2>3. GetMetadata => value' = value BY DEF GetMetadata
  <2>4. revolt_file_metadata_deserialize_json_obj => G
    <3>1. SUFFICES ASSUME revolt_file_metadata_deserialize_json_obj PROVE G OBVIOUS
    <3>2. CASE buf = NoWrapper BY <1>g, <3>1, <3>2 DEF revolt_file_metadata_deserialize_json_obj
    <3>3. CASE buf # NoWrapper
      <4>1. PICK name : GetName(buf, <<"type">>, name, File, metadata_type(name))
        BY <3>1, <3>3 DEF revolt_file_metadata_deserialize_json_obj
      <4>2. PICK v, m : v = File /\ m = metadata_type(name) OBVIOUS
      <4>3. v # V BY <4>2 DEF File
      <4> QED BY <1>2, <4>1, <4>2, <4>3, NameFrame
    <3> QED BY <3>2, <3>3
  <2>5. FileEnd => value' = value BY DEF FileEnd
  <2> QED BY <1>g, <2>1, <2>2, <2>3, <2>4, <2>5 DEF FileActions
<1>4. revolt_user_deserialize_json_obj => G
  <2>1. UserStrings => value' = value BY DEF UserStrings
  <2>2. Status => value' = value BY DEF Status
  <2>3. Bot => value' = value BY DEF Bot
  <2>4. RelationString => value' = value BY DEF RelationString
  <2>5. Presence => G
    <3>1. Presence => \E m : value' = [value EXCEPT ![<<"user", "presence">>] = m] BY NameFrame DEF Presence
    <3>2. <<"user", "presence">> # V OBVIOUS
    <3> QED BY <1>2, <3>1, <3>2
  <2>6. RelationStatus => G
    <3>0. SUFFICES ASSUME RelationStatus PROVE G OBVIOUS
    <3>1. PICK v : v = Relation(count + 1) OBVIOUS
    <3>2. PICK name, m : GetName(buf, <<"status">>, name, v, m) BY <3>0, <3>1 DEF RelationStatus
    <3>3. v # V BY <3>1 DEF Relation
    <3> QED BY <1>2, <3>2, <3>3, NameFrame
  <2>7. Relationship => G
    <3>1. Relationship => \E m : value' = [value EXCEPT ![<<"user", "relationship">>] = m]
      BY NameFrame DEF Relationship
    <3>2. <<"user", "relationship">> # V OBVIOUS
    <3> QED BY <1>2, <3>1, <3>2
  <2>8. GetRelations => value' = value BY DEF GetRelations
  <2>9. FirstRelation => value' = value BY DEF FirstRelation
  <2>10. NextRelation => value' = value BY DEF NextRelation
  <2>11. AllocateRelations => value' = value BY DEF AllocateRelations
  <2>12. RelationsMissing => value' = value BY DEF RelationsMissing
  <2>13. NoMoreRelations => value' = value BY DEF NoMoreRelations
  <2> QED BY <1>g, <2>1, <2>2, <2>3, <2>4, <2>5, <2>6, <2>7, <2>8, <2>9, <2>10, <2>11, <2>12, <2>13
          DEF revolt_user_deserialize_json_obj
<1>5. revolt_channel_deserialize_json_obj /\ ~ChannelType => G
  <2>1. ChannelStrings => value' = value BY DEF ChannelStrings
  <2>2. Permissions => value' = value BY DEF Permissions
  <2>3. VoiceEnd => value' = value BY DEF VoiceEnd
  <2> QED BY <1>g, <2>1, <2>2, <2>3 DEF revolt_channel_deserialize_json_obj
<1>6. ~ChannelType => G
  BY <1>1, <1>3, <1>4, <1>5 DEF FetchNext, FileActions, RequestActions, DeleteActions
<1>7. ChannelType => DOMAIN value' = DOMAIN value
  <2>1. ChannelType => \E m : value' = [value EXCEPT ![V] = m] BY NameFrame DEF ChannelType
  <2> QED BY <2>1
<1> QED BY <1>0, <1>6, <1>7 DEF G, type

(* All fields of an object, but for its relations, are set at once.          *)
LEMMA WipedFields ==
  ASSUME FieldInv, NEW k, NEW with, field' = Wiped(k, with), NEW p \in DOMAIN Parts, NEW f \in Parts[p]
  PROVE  field'[p][f] = IF p[1] = k /\ p \notin Relations THEN with ELSE field[p][f]
BY DEF Wiped, FieldInv

LEMMA Allocated ==
  ASSUME FieldInv, field' = [field EXCEPT ![User].relations = <<"user", "relations">>]
  PROVE  /\ \A p \in DOMAIN Parts : p # User => field'[p] = field[p]
         /\ DOMAIN field'[User] = DOMAIN field[User]
         /\ field'[User].relations = <<"user", "relations">>
         /\ \A f \in Parts[User] : f # "relations" => field'[User][f] = field[User][f]
<1>1. PICK p, b : p = User /\ b = <<"user", "relations">> OBVIOUS
<1>2. field' = [field EXCEPT ![p] = [@ EXCEPT !.relations = b]] BY <1>1
<1>3. p \in DOMAIN field /\ DOMAIN field = DOMAIN Parts /\ DOMAIN field[p] = Parts[p]
  BY <1>1, PartsAre DEF FieldInv
<1>4. "relations" \in Parts[p] BY <1>1, PartsAre, KeyDomains
<1>5. field'[p] = [field[p] EXCEPT !.relations = b] BY <1>2, <1>3
<1>6. \A q \in DOMAIN Parts : q # p => field'[q] = field[q] BY <1>2, <1>3
<1>7. /\ DOMAIN field'[p] = DOMAIN field[p] /\ field'[p].relations = b
      /\ \A f \in Parts[p] : f # "relations" => field'[p][f] = field[p][f]
  BY <1>5, <1>3, <1>4
<1> QED BY <1>1, <1>6, <1>7

(* In a step that reads no strings and allocates no relations no pointer is  *)
(* set to anything.                                                          *)
LEMMA Untouched ==
  ASSUME Core, FetchNext, ~AllocateRelations, ~StringActions,
         NEW p \in DOMAIN Parts, NEW f \in Parts[p]
  PROVE  field'[p][f] = field[p][f] \/ field'[p][f] \in Nowhere
<1>0. FieldInv BY DEF Core
<1>1. CASE Fetch
  <2>1. field' = field \/ field' = Wiped(kind, WILD) BY <1>1 DEF Fetch
  <2>2. CASE field' = Wiped(kind, WILD) BY <1>0, <2>2, WipedFields DEF Nowhere
  <2> QED BY <2>1, <2>2
<1>2. CASE ChannelType
  <2>1. field' = Wiped("channel", NULL) BY <1>2 DEF ChannelType
  <2> QED BY <1>0, <2>1, WipedFields DEF Nowhere
<1>3. CASE ~Fetch /\ ~ChannelType BY <1>3, FieldSame
<1> QED BY <1>1, <1>2, <1>3

(* No field but those that the cleanup knows ever holds a string.            *)
LEMMA ShapeStep ==
  ASSUME Core, FetchNext
  PROVE  ShapeInv'
<1>0. FieldInv /\ ShapeInv /\ kind \in Kinds BY DEF Core, PlaceInv, UnsetInv
<1>a. User \in DOMAIN Parts /\ Channel \in DOMAIN Parts /\ Icon \in DOMAIN Parts BY PartsAre
<1>b. DOMAIN value' = Values /\ (~ChannelType => type' = type) BY ValueStep
<1>1. CASE ChannelType
  <2>1. field' = Wiped("channel", NULL) BY <1>1 DEF ChannelType
  <2>2. Channel \notin Relations /\ Icon \notin Relations
    BY Apart DEF Relations
  <2>3. \A f \in Parts[Channel] : field'[Channel][f] = NULL BY <1>0, <1>a, <2>1, <2>2, Heads, WipedFields
  <2>4. \A f \in Parts[Icon] : field'[Icon][f] = NULL BY <1>0, <1>a, <2>1, <2>2, Heads, WipedFields
  <2>5. "user" # "channel" OBVIOUS
  <2>6. \A f \in Parts[User] : field'[User][f] = field[User][f] BY <1>0, <1>a, <2>1, <2>5, Heads, WipedFields
  <2> QED BY <1>0, <1>b, <2>3, <2>4, <2>6 DEF ShapeInv, Only, Nowhere
<1>2. CASE AllocateRelations
  <2>0. type' = type
    BY <1>b, <1>2 DEF AllocateRelations, ChannelType
  <2>1. CASE field' = field BY <1>0, <1>b, <2>0, <2>1 DEF ShapeInv, Only
  <2>2. CASE field' = [field EXCEPT ![User].relations = <<"user", "relations">>]
    <3>1. field'[Channel] = field[Channel] /\ field'[Icon] = field[Icon]
      BY <1>0, <1>a, <2>2, Allocated, Apart
    <3>2. \A f \in Parts[User] : f # "relations" => field'[User][f] = field[User][f]
      BY <1>0, <2>2, Allocated
    <3>3. "relations" \in UserFields BY DEF UserFields
    <3> QED BY <1>0, <1>b, <2>0, <3>1, <3>2, <3>3 DEF ShapeInv, Only
  <2> QED BY <1>2, <2>1, <2>2 DEF AllocateRelations
<1>3. CASE StringActions
  <2>0. type' = type
    <3>1. ~ChannelType BY <1>3, Course DEF StringActions, Goes
    <3> QED BY <1>b, <3>1
  <2>1. PICK fields, obj, keys : ReadInto(fields, obj, keys) /\ Fits(obj, keys) BY <1>3, StringsRead
  <2>2. \A p \in DOMAIN Parts : \A f \in Parts[p] :
          p # obj \/ f \notin DOMAIN keys => field'[p][f] = field[p][f] \/ field'[p][f] \in Nowhere
    BY <1>0, <2>1, Unread DEF Nowhere
  <2>3. Only(User, UserFields)'
    <3>1. ASSUME NEW f \in Parts[User] \ UserFields PROVE field'[User][f] \in Nowhere
      <4>1. User # obj \/ f \notin DOMAIN keys BY <2>1 DEF Fits
      <4>2. field[User][f] \in Nowhere BY <1>0 DEF ShapeInv, Only
      <4> QED BY <1>a, <2>2, <4>1, <4>2
    <3> QED BY <3>1 DEF Only
  <2>4. \A f \in Parts[Channel] \ DOMAIN ChannelKeys(type) : field'[Channel][f] \in Nowhere
    <3>1. ASSUME NEW f \in Parts[Channel] \ DOMAIN ChannelKeys(type) PROVE field'[Channel][f] \in Nowhere
      <4>1. Channel # obj \/ f \notin DOMAIN keys BY <2>1 DEF Fits
      <4>2. field[Channel][f] \in Nowhere BY <1>0 DEF ShapeInv, Only
      <4> QED BY <1>a, <2>2, <4>1, <4>2
    <3> QED BY <3>1
  <2>5. type \notin WithIcon => \A f \in Parts[Icon] : field'[Icon][f] \in Nowhere
    <3>1. ASSUME type \notin WithIcon, NEW f \in Parts[Icon] PROVE field'[Icon][f] \in Nowhere
      <4>1. Icon # obj BY <2>1, <3>1 DEF Fits
      <4>2. field[Icon][f] \in Nowhere BY <1>0, <3>1 DEF ShapeInv, Only
      <4> QED BY <1>a, <2>2, <4>1, <4>2
    <3> QED BY <3>1
  <2> QED BY <1>b, <2>0, <2>3, <2>4, <2>5 DEF ShapeInv, Only
<1>4. CASE ~ChannelType /\ ~AllocateRelations /\ ~StringActions
  <2>1. type' = type BY <1>b, <1>4
  <2>2. \A p \in DOMAIN Parts : \A f \in Parts[p] : field'[p][f] = field[p][f] \/ field'[p][f] \in Nowhere
    BY <1>4, Untouched
  <2> QED BY <1>0, <1>a, <1>b, <2>1, <2>2 DEF ShapeInv, Only
<1> QED BY <1>1, <1>2, <1>3, <1>4

-----------------------------------------------------------------------------
LEMMA ChannelTypes ==
  ASSUME NEW name \in Names
  PROVE  channel_type_from_str(name) \in {"SM", "DM", "UNKNOWN"} \cup WithIcon
<1> DEFINE table == [s |-> "SM", d |-> "DM", g |-> "GROUP", t |-> "TEXT", v |-> "VOICE"]
<1>1. \A l \in DOMAIN table : table[l] \in {"SM", "DM"} \cup WithIcon BY DEF WithIcon
<1>2. PICK t : t = table OBVIOUS
<1>3. channel_type_from_str(name) = ByLetter(t, name) BY <1>2 DEF channel_type_from_str
<1>4. \A l \in DOMAIN t : t[l] \in {"SM", "DM"} \cup WithIcon BY <1>1, <1>2
<1>5. PICK l : l = Letter(name) OBVIOUS
<1>6. ByLetter(t, name) = IF l \in DOMAIN t THEN t[l] ELSE "UNKNOWN" BY <1>5 DEF ByLetter
<1> QED BY <1>3, <1>4, <1>6

(* A channel is read further only if its type is known.                      *)
LEMMA TypeFound ==
  ASSUME Core, ChannelType
  PROVE  at' = "leave" \/ (at' = "strings" /\ type' \in {"SM", "DM"} \cup WithIcon)
<1>1. PICK name \in Names :
        GetName(root, <<"channel_type">>, name, <<"channel", "type">>, channel_type_from_str(name))
  BY DEF ChannelType
<1>2. PICK m : m = channel_type_from_str(name) OBVIOUS
<1>3. value' = [value EXCEPT ![<<"channel", "type">>] = m] BY <1>1, <1>2, NameFrame
<1>4. <<"channel", "type">> \in DOMAIN value BY DEF Core, UnsetInv, ShapeInv, Values
<1>5. type' = m BY <1>3, <1>4 DEF type
<1>6. m \in {"SM", "DM", "UNKNOWN"} \cup WithIcon BY <1>2, ChannelTypes
<1>7. IF type' = "UNKNOWN" THEN at' = "leave" ELSE at' = "strings" BY DEF ChannelType, Leaves
<1> QED BY <1>5, <1>6, <1>7

(* The id of a channel is the first block of its name.                       *)
LEMMA FirstId ==
  ASSUME Core, ChannelStrings
  PROVE  field'[Channel].id \in {NULL, <<"channel", "_id">>}
<1>0. at = "strings" /\ kind = "channel" BY Course DEF Goes, Core, PlaceInv, ChannelPlaces
<1>1. UnsetInv /\ FieldInv /\ AccountInv /\ PlaceInv BY DEF Core
<1>2. PICK b : b = <<"channel", "_id">> OBVIOUS
<1>3. b \notin blocks
  <2>1. ASSUME b \in blocks PROVE FALSE
    <3>1. Given(b) \/ Lost(b) BY <1>1, <2>1 DEF AccountInv
    <3>2. ~Lost(b)
      <4>1. \A k \in Kinds : b # <<k>> /\ b # <<k, "header">> /\ b # <<k, "body">> BY <1>2
      <4> QED BY <1>0, <4>1 DEF Lost, LastPlaces
    <3>3. b \notin ClientBlocks /\ b # <<kind, "path">> /\ b # Tree /\ \A p \in DOMAIN resp : p \in {"header", "body"}
      BY <1>1, <1>2 DEF ClientBlocks, Tree, PlaceInv
    <3>4. \A p \in DOMAIN resp : b # <<kind, p>>
      <4>1. \A p \in {"header", "body"} : b # <<kind, p>> BY <1>2
      <4> QED BY <3>3, <4>1
    <3>5. \A w \in DOMAIN json : b # Wrapper(w) BY <1>2 DEF Wrapper
    <3>6. \A k \in Kinds : b # <<k>> BY <1>2
    <3>7. PICK k \in Kinds : b \in Held(k) BY <1>0, <3>1, <3>2, <3>3, <3>4, <3>5, <3>6 DEF Given
    <3>8. b[1] = "channel" BY <1>2
    <3>9. k = "channel" BY <1>1, <3>7, <3>8, HeldHeads DEF Owner
    <3>10. b \notin Nowhere /\ b \in UNION {{field[p][f] : f \in Parts[p]} : p \in PartsOf("channel")}
      BY <3>7, <3>9 DEF Held
    <3>11. PICK p \in PartsOf("channel") : b \in {field[p][f] : f \in Parts[p]} BY <3>10
    <3>12. p = Channel \/ p = File BY <1>0, UserParts, Apart
    <3>13. Empty(p, Parts[p]) BY <1>0, <1>1, <3>12 DEF UnsetInv, EmptyInv
    <3> QED BY <3>10, <3>11, <3>13 DEF Empty, Nowhere
  <2> QED BY <2>1
<1>4. PICK keys : keys = ChannelKeys(type) OBVIOUS
<1>5. PICK lost : field' = [field EXCEPT ![Channel] = Copied(@, Channel, root, keys, lost)]
  BY <1>4 DEF ChannelStrings, GetStrings
<1>6. Channel \in DOMAIN field /\ "id" \in DOMAIN field[Channel] BY <1>1, PartsAre, KeyDomains DEF FieldInv
<1>7. PICK old : old = field[Channel] OBVIOUS
<1>8. field'[Channel] = Copied(old, Channel, root, keys, lost) BY <1>5, <1>6, <1>7
<1>9. field'[Channel].id = IF "id" \notin DOMAIN keys THEN old.id
                           ELSE IF "id" \in Copyable(root, keys) \ lost THEN Copy(Channel, root, keys["id"])
                           ELSE NULL
  <2>1. PICK new : new = Copied(old, Channel, root, keys, lost) OBVIOUS
  <2>2. new["id"] = IF "id" \notin DOMAIN keys THEN old["id"]
                    ELSE IF "id" \in Copyable(root, keys) \ lost THEN Copy(Channel, root, keys["id"])
                    ELSE NULL
    <3>1. "id" \in DOMAIN old BY <1>6, <1>7
    <3>2. PICK got : got = Copyable(root, keys) \ lost OBVIOUS
    <3>3. new = [f \in DOMAIN old |-> IF f \notin DOMAIN keys THEN old[f]
                                      ELSE IF f \in got THEN Copy(Channel, root, keys[f]) ELSE NULL]
      BY <2>1, <3>2 DEF Copied
    <3> QED BY <3>1, <3>2, <3>3
  <2> QED BY <1>8, <2>1, <2>2
<1>10. old.id = NULL
  <2>1. Empty(Channel, Parts[Channel]) BY <1>0, <1>1 DEF UnsetInv, EmptyInv
  <2> QED BY <2>1, <1>6, <1>7, <1>1, PartsAre DEF Empty, FieldInv
<1>11. "id" \in DOMAIN keys => keys["id"] = <<"_id">>
  <2>1. keys \in {SmKeys, DmKeys, GroupKeys, TextKeys, VoiceKeys, <<>>} BY <1>4 DEF ChannelKeys
  <2>2. DOMAIN <<>> = {} OBVIOUS
  <2>3. SmKeys["id"] = <<"_id">> BY DEF SmKeys
  <2>4. DmKeys["id"] = <<"_id">> BY DEF DmKeys
  <2>5. GroupKeys["id"] = <<"_id">> BY DEF GroupKeys
  <2>6. TextKeys["id"] = <<"_id">> BY DEF TextKeys
  <2>7. VoiceKeys["id"] = <<"_id">> BY DEF VoiceKeys
  <2> QED BY <2>1, <2>2, <2>3, <2>4, <2>5, <2>6, <2>7
<1>12. Copy(Channel, root, <<"_id">>) = b
  <2>1. PICK key : key = <<"_id">> OBVIOUS
  <2>2. At(root, key) = key
    <3>1. at \in OpenPlaces BY <1>0 DEF OpenPlaces, ChannelPlaces
    <3>2. root # NoWrapper /\ root = 1 /\ json[root].val = <<>>
      <4>1. root = 1 BY <3>1, InPlace
      <4>2. json[1].val = <<>> BY <3>1 DEF Core, WrapperInv
      <4> QED BY <4>1, <4>2 DEF NoWrapper
    <3>3. key \in Seq(Words)
      <4>1. "_id" \in Words BY DEF Words, Literals
      <4> QED BY <2>1, <4>1, OneOf
    <3>4. <<>> \o key = key BY <3>3
    <3> QED BY <3>2, <3>4 DEF At
  <2>3. <<Head(Channel)>> \o key = b
    <3>1. <<"channel">> \o <<"_id">> = <<"channel", "_id">>
      <4>1. PICK s, t : s = "channel" /\ t = "_id" OBVIOUS
      <4>2. s \in Words /\ t \in Words BY <4>1 DEF Words, Literals
      <4> QED BY <4>1, <4>2, TwoOf
    <3>2. Head(Channel) = "channel" BY Heads
    <3> QED BY <1>2, <2>1, <3>1, <3>2
  <2> QED BY <1>3, <2>1, <2>2, <2>3 DEF Copy, Fresh
<1> QED BY <1>2, <1>9, <1>10, <1>11, <1>12

(* Only channels with an icon read one, and the id of a voice channel is     *)
(* read twice.                                                               *)
LEMMA TypeStep ==
  ASSUME Core, FetchNext, at' # "crashed"
  PROVE  TypeInv'
<1>0. FieldInv /\ TypeInv /\ PlaceInv /\ kind \in Kinds BY DEF Core, PlaceInv, UnsetInv
<1>a. Channel \in DOMAIN Parts /\ "id" \in Parts[Channel] BY PartsAre, KeyDomains
<1>1. CASE ~Reading1
  <2>1. at' \notin (OpenPlaces \ {"user", "channel", "leave"})
    <3> USE DEF OpenPlaces, UserPlaces, ChannelPlaces, FilePlaces
    <3>1. revolt_init \/ Fetch \/ FetchReturns \/ Leave => at' \notin (OpenPlaces \ {"user", "channel", "leave"})
      BY DEF revolt_init, Fetch, FetchReturns, Returned, Leave
    <3>2. RequestActions => at' \notin (OpenPlaces \ {"user", "channel", "leave"})
      BY DEF RequestActions, revolt_rest_request, revoltc_http_request, Ends, write_callback, request_perform
    <3>3. Deserialize => at' \notin (OpenPlaces \ {"user", "channel", "leave"})
      BY <1>0 DEF Deserialize, Ends, Kinds
    <3>4. DeleteActions => at' \notin (OpenPlaces \ {"user", "channel", "leave"})
      BY DEF DeleteActions, revolt_user_delete, revolt_channel_delete, revolt_cleanup, Delete
    <3> QED
      BY <1>1, <3>1, <3>2, <3>3, <3>4 DEF FetchNext, FileActions, RequestActions, DeleteActions, Reading1
  <2> QED BY <2>1 DEF TypeInv, IconPlaces, OpenPlaces, UserPlaces, ChannelPlaces, FilePlaces
<1>2. CASE ChannelType
  <2>1. at' = "leave" \/ (at' = "strings" /\ type' \in {"SM", "DM"} \cup WithIcon) BY <1>2, TypeFound
  <2> QED BY <2>1 DEF TypeInv, IconPlaces, FilePlaces
<1>3. CASE ChannelStrings
  <2>1. field'[Channel].id \in {NULL, <<"channel", "_id">>} BY <1>3, FirstId
  <2>2. at = "strings" /\ at' = IF type \in {"SM", "DM"} THEN "leave" ELSE "icon" BY <1>3, Course
  <2>3. ~ChannelType BY <2>2, Course
  <2>4. type' = type BY <2>3, ValueStep
  <2>5. at' = "icon" => type \in WithIcon BY <1>0, <2>2 DEF TypeInv
  <2> QED BY <2>1, <2>2, <2>4, <2>5 DEF TypeInv, IconPlaces, FilePlaces
<1>4. CASE Reading1 /\ ~ChannelType /\ ~ChannelStrings
  <2>1. type' = type /\ kind' = kind BY <1>4, ValueStep, ReadingFrame
  <2>2. PICK ids : ids = {NULL, <<"channel", "_id">>} OBVIOUS
  <2>3. VoiceEnd \/ (field[Channel].id \in ids => field'[Channel].id \in ids)
    <3>1. CASE ~StringActions /\ ~AllocateRelations
      <4>1. ~Fetch BY <1>4, ReadingPlaces DEF Fetch, OpenPlaces, UserPlaces, ChannelPlaces, FilePlaces
      <4> QED BY <1>4, <3>1, <4>1, FieldSame
    <3>2. CASE AllocateRelations
      BY <1>0, <1>a, <3>2, Allocated, Apart DEF AllocateRelations
    <3>3. CASE StringActions
      <4>2. PICK fields, obj, keys : ReadInto(fields, obj, keys) /\ (VoiceEnd \/ IntoEmpty(fields, obj, keys))
                                     /\ (VoiceEnd \/ obj # Channel)
        <5>1. UserStrings => ReadInto(Wiped("user", NULL), User, UserKeys) /\ User # Channel
          BY UserReadsInto, Apart DEF IntoEmpty
        <5>2. FileStrings /\ file # NoWrapper => ReadInto(FileNulled, File, FileKeys) /\ File # Channel
          BY FileReadsInto, Apart DEF IntoEmpty
        <5>3. Status => ReadInto(field, User, StatusKeys) /\ User # Channel
          BY OthersReadInto, Apart DEF IntoEmpty
        <5> QED BY <1>4, <3>3, UserReadsInto, FileReadsInto, OthersReadInto, Apart, RelationReads
                DEF StringActions, IntoEmpty
      <4> QED BY <1>0, <1>a, <2>2, <4>2, Unread
    <3> QED BY <3>1, <3>2, <3>3
  <2>4. at' # "strings" BY <1>4, Course
    DEF Reading1, FileActions, revolt_user_deserialize_json_obj, revolt_channel_deserialize_json_obj, Goes
  <2>5. at' = "voice end" => type = "VOICE" /\ at = "channel end"
    BY <1>4, Course
    DEF Reading1, FileActions, revolt_user_deserialize_json_obj, revolt_channel_deserialize_json_obj, Goes
  <2>6. at' \in IconPlaces \/ (at' \in FilePlaces /\ kind = "channel") =>
          ~VoiceEnd /\ (at \in IconPlaces \/ (at \in FilePlaces /\ kind = "channel"))
    <3>1. kind = "channel" => at # "avatar" BY <1>0 DEF PlaceInv, UserPlaces
    <3>2. at' = "channel end" => FileEnd
      BY <1>4, Course
      DEF Reading1, FileActions, revolt_user_deserialize_json_obj, revolt_channel_deserialize_json_obj, Goes
    <3>3. FileEnd /\ at' = "channel end" => kind = "channel" BY <1>0, Course DEF Kinds
    <3> QED
      BY <1>4, <3>1, <3>2, <3>3, Course
      DEF Reading1, FileActions, revolt_user_deserialize_json_obj, revolt_channel_deserialize_json_obj, Goes,
          IconPlaces, FilePlaces
  <2>7. at' = "voice end" => ~VoiceEnd BY Course DEF Goes
  <2>8. at' \in IconPlaces \/ (at' \in FilePlaces /\ kind = "channel") => type \in WithIcon
    BY <1>0, <2>6 DEF TypeInv
  <2>9. at' \in IconPlaces \cup {"voice end"} \/ (at' \in FilePlaces /\ kind = "channel") =>
          ~VoiceEnd /\ field[Channel].id \in ids
    BY <1>0, <2>2, <2>5, <2>6, <2>7 DEF TypeInv, IconPlaces
  <2> QED BY <2>1, <2>2, <2>3, <2>4, <2>5, <2>8, <2>9 DEF TypeInv
<1> QED BY <1>1, <1>2, <1>3, <1>4

-----------------------------------------------------------------------------
(* Where an object is not read, its fields stay empty.                       *)
LEMMA ObjectsEmpty ==
  ASSUME Core, FetchNext
  PROVE  \A k \in Kinds : object'[k] = NULL => \A p \in PartsOf(k) : \A f \in Parts[p] : field'[p][f] = NULL
<1>0. FieldInv /\ EmptyInv /\ PlaceInv /\ kind \in Kinds /\ DOMAIN object = Kinds
  BY DEF Core, PlaceInv, UnsetInv
<1>1. SUFFICES ASSUME NEW k \in Kinds, object'[k] = NULL, NEW p \in PartsOf(k), NEW f \in Parts[p]
               PROVE  field'[p][f] = NULL
  OBVIOUS
<1>2. p \in DOMAIN Parts /\ p[1] = k BY DEF PartsOf
<1>3. CASE Fetch
  <2>0. <<kind>> # NULL BY DEF NULL
  <2>1. object[k] = NULL /\ (k = kind => field' = field)
    BY <1>0, <1>1, <1>3, <2>0, ErrRest
  <2>2. field[p][f] = NULL BY <1>0, <2>1 DEF EmptyInv, Empty
  <2>3. field' = field \/ field' = Wiped(kind, WILD) BY <1>3 DEF Fetch
  <2> QED BY <1>0, <1>2, <2>1, <2>2, <2>3, WipedFields
<1>4. CASE ~Fetch
  <2>1. object[k] = NULL BY <1>1, <1>4, ObjectSame
  <2>2. field[p][f] = NULL BY <1>0, <2>1 DEF EmptyInv, Empty
  <2>3. Reading1 => k # kind
    <3>1. Reading1 => at \in OpenPlaces BY ReadingPlaces
    <3>2. at \in OpenPlaces => object[kind] = <<kind>> BY <1>0 DEF PlaceInv, CallPlaces
    <3>3. <<kind>> # NULL BY DEF NULL
    <3> QED BY <2>1, <3>1, <3>2, <3>3
  <2>4. CASE ChannelType
    <3>1. field' = Wiped("channel", NULL) BY <2>4 DEF ChannelType
    <3> QED BY <1>0, <1>2, <2>2, <3>1, WipedFields
  <2>5. CASE AllocateRelations
    <3>1. k # "user"
      <4>1. Reading1 BY <2>5 DEF Reading1, revolt_user_deserialize_json_obj
      <4>2. kind = "user" BY <1>0, <2>5, Course DEF Goes, PlaceInv, UserPlaces
      <4> QED BY <2>3, <4>1, <4>2
    <3>2. p # User BY <1>2, <3>1, Heads
    <3> QED BY <1>0, <1>2, <2>2, <2>5, <3>2, Allocated DEF AllocateRelations
  <2>6. CASE StringActions
    <3>1. k # kind
      <4>1. Reading1
        BY <2>6
        DEF StringActions, Reading1, FileActions, revolt_user_deserialize_json_obj, revolt_channel_deserialize_json_obj
      <4> QED BY <2>3, <4>1
    <3>2. PICK fields, obj, keys : ReadInto(fields, obj, keys) BY <2>6, StringsRead
    <3>3. p # obj BY <1>2, <3>1, <3>2 DEF ReadInto, PartsOf
    <3> QED BY <1>0, <1>2, <2>2, <3>2, <3>3, Unread
  <2>7. CASE ~ChannelType /\ ~AllocateRelations /\ ~StringActions
    BY <1>4, <2>2, <2>7, FieldSame
  <2> QED BY <2>4, <2>5, <2>6, <2>7
<1> QED BY <1>3, <1>4

RelationsEmpty == \A i \in 1 .. MostRelations : i > Filled => Empty(Relation(i), Parts[Relation(i)])

(* The relations that have not been read yet are empty.                      *)
LEMMA FilledStep ==
  ASSUME Core, FetchNext, at' # "crashed"
  PROVE  RelationsEmpty'
<1>b. count \in 0 .. MostRelations BY DEF Core, DocInv
<1>c. count \in Nat BY <1>b
<1>0. FieldInv /\ EmptyInv /\ PlaceInv /\ kind \in Kinds /\ count \in Nat
  BY <1>c DEF Core, PlaceInv, UnsetInv
<1>1. SUFFICES ASSUME NEW i \in 1 .. MostRelations, i > Filled', NEW f \in Parts[Relation(i)]
               PROVE  field'[Relation(i)][f] = NULL
  BY DEF RelationsEmpty, Empty
<1>2. PICK p : p = Relation(i) OBVIOUS
<1>3. p \in DOMAIN Parts /\ f \in Parts[p] /\ p \in Relations /\ p # User /\ p # File /\ p # Channel /\ p[1] = "user"
  BY <1>1, <1>2, PartsAre, Apart, Heads DEF Relations
<1>4. i > Filled => field[p][f] = NULL
  BY <1>0, <1>2, <1>3 DEF EmptyInv, Empty
<1>5. CASE ~Reading1
  <2>1. count' = count
    <3> USE DEF object_vars
    <3>1. revolt_init \/ Fetch \/ FetchReturns \/ Deserialize \/ Leave => count' = count
      BY DEF revolt_init, Fetch, FetchReturns, Deserialize, Leave
    <3>2. RequestActions => count' = count
      BY DEF RequestActions, revolt_rest_request, write_callback, request_perform
    <3>3. DeleteActions => count' = count
      BY DEF DeleteActions, revolt_user_delete, revolt_channel_delete, revolt_cleanup
    <3> QED BY <1>5, <3>1, <3>2, <3>3 DEF FetchNext, FileActions, RequestActions, DeleteActions, Reading1
  <2>2. at \notin {"relation status", "next"}
    <3>1. revolt_init \/ Fetch \/ FetchReturns \/ Deserialize \/ Leave => at \notin {"relation status", "next"}
      BY DEF revolt_init, Fetch, FetchReturns, Deserialize, Leave
    <3>2. RequestActions => at \notin {"relation status", "next"}
      BY DEF RequestActions, revolt_rest_request, write_callback, request_perform
    <3>3. DeleteActions => at \notin {"relation status", "next"}
      BY DEF DeleteActions, revolt_user_delete, revolt_channel_delete, revolt_cleanup
    <3> QED BY <1>5, <3>1, <3>2, <3>3 DEF FetchNext, FileActions, RequestActions, DeleteActions, Reading1
  <2>3. i > Filled
    <3>1. Filled' \in {count, count + 1} BY <2>1 DEF Filled
    <3>2. Filled = count BY <2>2 DEF Filled
    <3> QED BY <1>0, <1>1, <3>1, <3>2
  <2>4. field'[p] = field[p]
    <3>1. ~ChannelType /\ ~AllocateRelations /\ ~StringActions
      BY <1>5
      DEF StringActions, Reading1, FileActions, revolt_user_deserialize_json_obj, revolt_channel_deserialize_json_obj
    <3>2. Fetch => field'[p] = field[p]
      BY <1>3 DEF Fetch, Wiped
    <3> QED BY <3>1, <3>2, FieldSame
  <2> QED BY <1>2, <1>4, <2>3, <2>4
<1>6. CASE Reading1 /\ ~RelationString
  <2>1. i > Filled
    <3>1. CASE UserStrings
      <4>1. at = "user" /\ kind = "user" /\ count = 0 /\ at' = "avatar" /\ count' = 0
        BY <1>0, <3>1, Course DEF Goes, Core, PlaceInv, UserPlaces, DocInv, BeforeRelations
      <4> QED BY <4>1, <1>1 DEF Filled
    <3>2. CASE NextRelation
      <4>1. at = "next" /\ at' = "relation" /\ count' = count + 1 BY <3>2, Course DEF Goes
      <4> QED BY <4>1, <1>1 DEF Filled
    <3>3. CASE ~UserStrings /\ ~NextRelation
      <4>1. count' = count BY <1>6, <3>3, ReadingFrame
      <4>2. (at' \in {"relation status", "next"}) <=> (at \in {"relation status", "next"})
        BY <1>6, <3>3, Course
        DEF Reading1, FileActions, revolt_user_deserialize_json_obj, revolt_channel_deserialize_json_obj, Goes
      <4> QED BY <4>1, <4>2, <1>1 DEF Filled
    <3> QED BY <3>1, <3>2, <3>3
  <2>2. field[p][f] = NULL BY <1>4, <2>1
  <2>3. CASE ChannelType
    <3>1. field' = Wiped("channel", NULL) BY <2>3 DEF ChannelType
    <3> QED BY <1>0, <1>2, <1>3, <2>2, <3>1, WipedFields
  <2>4. CASE AllocateRelations
    BY <1>0, <1>2, <1>3, <2>2, <2>4, Allocated DEF AllocateRelations
  <2>5. CASE StringActions
    <3>1. PICK fields, obj, keys : ReadInto(fields, obj, keys) /\ p # obj
      <4>1. UserStrings => ReadInto(Wiped("user", NULL), User, UserKeys) BY UserReadsInto DEF IntoEmpty
      <4>2. FileStrings /\ file # NoWrapper => ReadInto(FileNulled, File, FileKeys)
        BY FileReadsInto DEF IntoEmpty
      <4> QED BY <1>3, <1>6, <2>5, <4>1, <4>2, OthersReadInto DEF StringActions, IntoEmpty
    <3> QED BY <1>0, <1>2, <1>3, <2>2, <3>1, Unread
  <2>6. CASE ~ChannelType /\ ~AllocateRelations /\ ~StringActions
    <3>1. ~Fetch BY <1>6, ReadingPlaces DEF Fetch, OpenPlaces, UserPlaces, ChannelPlaces, FilePlaces
    <3>2. field' = field BY <2>6, <3>1, FieldSame
    <3> QED BY <1>2, <2>2, <3>2
  <2> QED BY <2>3, <2>4, <2>5, <2>6
<1>7. CASE RelationString
  <2>1. at = "relation" /\ at' = "relation status" BY <1>7, Course DEF Goes
  <2>2. count' = count
    BY <1>7, <2>1, Course, ReadingFrame DEF Goes, Reading1, revolt_user_deserialize_json_obj
  <2>3. i > count + 1 /\ count + 1 \in 1 .. MostRelations
    BY <1>1, <1>7, <2>1, <2>2, RelationReads DEF Filled
  <2>4. i > Filled
    <3>1. Filled = count BY <2>1 DEF Filled
    <3>2. i > count BY <1>0, <2>3
    <3> QED BY <3>1, <3>2
  <2>5. p # Relation(count + 1)
    <3>1. i # count + 1 BY <1>0, <2>3
    <3> QED BY <1>2, <2>3, <3>1, Apart
  <2>6. ReadInto(field, Relation(count + 1), RelationKeys) BY <1>7, OthersReadInto DEF IntoEmpty
  <2>7. PICK obj : obj = Relation(count + 1) OBVIOUS
  <2> QED BY <1>0, <1>2, <1>3, <1>4, <2>4, <2>5, <2>6, <2>7, Unread
<1> QED BY <1>5, <1>6, <1>7

(* A field that a step of the deserialisation does not read stays empty.     *)
LEMMA NullKept ==
  ASSUME Core, Reading1, ~UserStrings,
         NEW p \in DOMAIN Parts, NEW f \in Parts[p], field[p][f] = NULL,
         Status => p # User \/ f # "text", Bot => p # User \/ f # "owner_id",
         AllocateRelations => p # User \/ f # "relations",
         RelationString => p \notin Relations, FileStrings \/ FileEnd => p # File,
         ChannelStrings \/ VoiceEnd => p # Channel
  PROVE  field'[p][f] = NULL
<1>0. FieldInv BY DEF Core
<1>1. CASE ChannelType
  <2>1. field' = Wiped("channel", NULL) BY <1>1 DEF ChannelType
  <2> QED BY <1>0, <2>1, WipedFields
<1>2. CASE AllocateRelations
  <2>1. CASE field' = field BY <2>1
  <2>2. CASE field' = [field EXCEPT ![User].relations = <<"user", "relations">>]
    <3>1. p # User => field'[p] = field[p] BY <1>0, <2>2, Allocated
    <3>2. p = User => field'[p][f] = field[p][f] BY <1>0, <1>2, <2>2, Allocated
    <3> QED BY <3>1, <3>2
  <2> QED BY <1>2, <2>1, <2>2 DEF AllocateRelations
<1>3. CASE StringActions
  <2>1. PICK fields, obj, keys : ReadInto(fields, obj, keys) /\ (p # obj \/ f \notin DOMAIN keys)
    <3>1. CASE Status
      <4>1. ReadInto(field, User, StatusKeys) BY <3>1, OthersReadInto DEF IntoEmpty
      <4> QED BY <3>1, <4>1, KeyDomains
    <3>2. CASE Bot
      <4>1. ReadInto(field, User, BotKeys) BY <3>2, OthersReadInto DEF IntoEmpty
      <4> QED BY <3>2, <4>1, KeyDomains
    <3>3. CASE RelationString
      <4>1. ReadInto(field, Relation(count + 1), RelationKeys) BY <3>3, OthersReadInto DEF IntoEmpty
      <4>2. Relation(count + 1) \in Relations BY <3>3, RelationReads DEF Relations
      <4> QED BY <3>3, <4>1, <4>2
    <3>4. CASE FileStrings /\ file # NoWrapper
      <4>1. ReadInto(FileNulled, File, FileKeys) BY <3>4, FileReadsInto DEF IntoEmpty
      <4> QED BY <3>4, <4>1
    <3>5. CASE FileEnd
      <4>1. ReadInto(field, File, FileEndKeys) BY <3>5, OthersReadInto DEF IntoEmpty
      <4> QED BY <3>5, <4>1
    <3>6. CASE ChannelStrings
      <4>1. ReadInto(field, Channel, ChannelKeys(type)) BY <3>6, OthersReadInto DEF IntoEmpty
      <4> QED BY <3>6, <4>1
    <3>7. CASE VoiceEnd
      <4>1. ReadInto(field, Channel, VoiceEndKeys) BY <3>7, OthersReadInto
      <4> QED BY <3>7, <4>1
    <3> QED BY <1>3, <3>1, <3>2, <3>3, <3>4, <3>5, <3>6, <3>7 DEF StringActions
  <2> QED BY <1>0, <2>1, Unread
<1>4. CASE ~ChannelType /\ ~AllocateRelations /\ ~StringActions
  <2>1. ~Fetch BY ReadingPlaces DEF Fetch, OpenPlaces, UserPlaces, ChannelPlaces, FilePlaces
  <2>2. FetchNext BY DEF Reading1, FileActions, FetchNext
  <2> QED BY <1>4, <2>1, <2>2, FieldSame
<1> QED BY <1>1, <1>2, <1>3, <1>4

LEMMA PlaceNext ==
  ASSUME Core, FetchNext, at' # "crashed"
  PROVE  PlaceInv'
BY PlaceStep DEF Core

(* Fields are empty until the step that reads them.                          *)
LEMMA EmptyStep ==
  ASSUME Core, FetchNext, at' # "crashed"
  PROVE  EmptyInv'
<1>0. FieldInv /\ EmptyInv /\ PlaceInv /\ kind \in Kinds /\ PlaceInv'
  BY PlaceNext DEF Core, PlaceInv, UnsetInv
<1>a. \A i \in 1 .. MostRelations : i > Filled' => Empty(Relation(i), Parts[Relation(i)])'
  BY FilledStep DEF RelationsEmpty
<1>b. \A k \in Kinds : object'[k] = NULL => \A p \in PartsOf(k) : Empty(p, Parts[p])'
  BY ObjectsEmpty DEF Empty
<1>c. /\ User \in DOMAIN Parts /\ Channel \in DOMAIN Parts /\ File \in DOMAIN Parts
      /\ "text" \in Parts[User] /\ "relations" \in Parts[User] /\ "owner_id" \in Parts[User]
      /\ DOMAIN FileEndKeys \subseteq Parts[File]
  BY PartsAre, KeyDomains
<1>1. CASE ~Reading1
  <2>1. at' \notin (OpenPlaces \ {"user", "channel", "leave"})
    <3> USE DEF OpenPlaces, UserPlaces, ChannelPlaces, FilePlaces
    <3>1. revolt_init \/ Fetch \/ FetchReturns \/ Leave => at' \notin (OpenPlaces \ {"user", "channel", "leave"})
      BY DEF revolt_init, Fetch, FetchReturns, Returned, Leave
    <3>2. RequestActions => at' \notin (OpenPlaces \ {"user", "channel", "leave"})
      BY DEF RequestActions, revolt_rest_request, revoltc_http_request, Ends, write_callback, request_perform
    <3>3. Deserialize => at' \notin (OpenPlaces \ {"user", "channel", "leave"})
      BY <1>0 DEF Deserialize, Ends, Kinds
    <3>4. DeleteActions => at' \notin (OpenPlaces \ {"user", "channel", "leave"})
      BY DEF DeleteActions, revolt_user_delete, revolt_channel_delete, revolt_cleanup, Delete
    <3> QED
      BY <1>1, <3>1, <3>2, <3>3, <3>4 DEF FetchNext, FileActions, RequestActions, DeleteActions, Reading1
  <2>2. ASSUME at' \in EarlyPlaces \cup Kinds, NEW p \in PartsOf(kind'), NEW f \in Parts[p]
        PROVE  field'[p][f] \in Nowhere
    <3>0. p \in DOMAIN Parts /\ p[1] = kind' BY DEF PartsOf
    <3>1. CASE Fetch
      <4>1. object[kind] = NULL BY <1>0, <3>1 DEF Fetch, PlaceInv
      <4>2. kind' = kind /\ field' = Wiped(kind, WILD)
        BY <2>2, <3>1 DEF Fetch, Returned, EarlyPlaces, Kinds
      <4>3. Empty(p, Parts[p]) BY <1>0, <4>1, <4>2, <2>2 DEF EmptyInv
      <4> QED BY <1>0, <3>0, <4>2, <4>3, WipedFields DEF Empty, Nowhere
    <3>2. CASE RequestActions \/ Deserialize
      <4>1. kind' = kind /\ at \in EarlyPlaces
        BY <3>2
        DEF RequestActions, revolt_rest_request, write_callback, request_perform, Deserialize, EarlyPlaces
      <4>2. field' = field
        BY <3>2
        DEF RequestActions, revolt_rest_request, write_callback, request_perform, Deserialize, object_vars
      <4> QED BY <1>0, <2>2, <4>1, <4>2 DEF EmptyInv, Only
    <3>3. CASE revolt_init \/ FetchReturns \/ Leave
      BY <2>2, <3>3 DEF revolt_init, FetchReturns, Returned, Leave, EarlyPlaces, Kinds
    <3>4. CASE DeleteActions
      BY <2>2, <3>4 DEF DeleteActions, revolt_user_delete, revolt_channel_delete, revolt_cleanup, Delete,
                        EarlyPlaces, Kinds
    <3> QED
      BY <1>1, <3>1, <3>2, <3>3, <3>4 DEF FetchNext, FileActions, RequestActions, DeleteActions, Reading1
  <2>3. at' \in EarlyPlaces \cup Kinds => \A p \in PartsOf(kind') : Only(p, {})'
    BY <2>2 DEF Only
  <2>4. kind' = "user" => at' # "channel" BY <1>0 DEF PlaceInv, ChannelPlaces
  <2> QED BY <1>a, <1>b, <2>1, <2>3, <2>4
          DEF EmptyInv, OpenPlaces, UserPlaces, ChannelPlaces, FilePlaces
<1>2. CASE ChannelType
  <2>1. at' \in {"leave", "strings"} /\ kind = "channel" /\ field' = Wiped("channel", NULL)
    BY <1>0, <1>2, Course DEF ChannelType, PlaceInv, ChannelPlaces
  <2>2. kind' = kind BY <1>2, ReadingFrame DEF Reading1, revolt_channel_deserialize_json_obj
  <2>3. ASSUME NEW p \in {Channel, File}, NEW f \in Parts[p] PROVE field'[p][f] = NULL
    <3>1. p \in DOMAIN Parts /\ p[1] = "channel" /\ p \notin Relations
      BY <1>0, <1>c, <2>1, Apart, Heads DEF Relations
    <3> QED BY <1>0, <2>1, <3>1, WipedFields
  <2>4. Empty(Channel, Parts[Channel])' BY <2>3 DEF Empty
  <2>5. File' = File BY <2>2 DEF File
  <2>6. \A f \in Parts[File] : field'[File][f] = NULL BY <2>3
  <2>7. Empty(File, Parts[File])' BY <2>5, <2>6 DEF Empty
  <2>8. kind' # "user" /\ at' \notin EarlyPlaces \cup Kinds BY <2>1, <2>2 DEF EarlyPlaces, Kinds
  <2> QED BY <1>a, <1>b, <2>1, <2>4, <2>7, <2>8 DEF EmptyInv
<1>3. CASE UserStrings
  <2>1. at' = "avatar" /\ kind = "user" BY <1>0, <1>3, Course DEF Goes, PlaceInv, UserPlaces
  <2>2. kind' = kind BY <1>3, ReadingFrame DEF Reading1, revolt_user_deserialize_json_obj
  <2>3. PICK g : g = Wiped("user", NULL) OBVIOUS
  <2>4. ReadInto(g, User, UserKeys) BY <1>3, <2>3, UserReadsInto DEF IntoEmpty
  <2>5. ASSUME NEW p \in {User, File}, NEW f \in Parts[p], p # User \/ f \notin DOMAIN UserKeys
        PROVE  field'[p][f] = NULL
    <3>1. p \in DOMAIN Parts /\ p[1] = "user" /\ p \notin Relations
      BY <1>0, <1>c, <2>1, Apart, Heads DEF Relations
    <3>2. g[p] = [q \in Parts[p] |-> NULL] BY <2>3, <3>1 DEF Wiped
    <3> QED BY <1>0, <2>4, <2>5, <3>1, <3>2, Unread
  <2>6. \A f \in Parts[File] : field'[File][f] = NULL BY <2>5, Apart
  <2>7. Empty(File, Parts[File])'
    <3>1. File' = File BY <2>2 DEF File
    <3> QED BY <2>6, <3>1 DEF Empty
  <2>8. field'[User].text = NULL /\ field'[User].relations = NULL /\ field'[User].owner_id = NULL
    BY <1>c, <2>5, KeyDomains
  <2> QED BY <1>a, <1>b, <2>1, <2>7, <2>8 DEF EmptyInv, EarlyPlaces, Kinds
<1>4. CASE Reading1 /\ ~ChannelType /\ ~UserStrings
  <2>0. kind' = kind /\ File' = File BY <1>4, ReadingFrame DEF File
  <2> USE DEF Goes
  <2>1. at' \notin {"strings", "avatar"} \cup EarlyPlaces \cup Kinds
    BY <1>4, Course
    DEF Reading1, FileActions, revolt_user_deserialize_json_obj, revolt_channel_deserialize_json_obj,
        EarlyPlaces, Kinds
  <2>2. ASSUME at' \in {"icon", "file"}, NEW f \in Parts[File] PROVE field'[File][f] = NULL
    <3>1. ChannelStrings \/ GetFile
      BY <1>4, <2>2, Course
      DEF Reading1, FileActions, revolt_user_deserialize_json_obj, revolt_channel_deserialize_json_obj
    <3>2. at \in {"strings", "avatar", "icon"} BY <3>1, Course
    <3>3. field[File][f] = NULL BY <1>0, <3>2 DEF EmptyInv, Empty
    <3>4. ~Status /\ ~Bot /\ ~AllocateRelations /\ ~RelationString /\ ~FileStrings /\ ~FileEnd
      BY <3>2, Course
    <3>5. PICK p : p = File OBVIOUS
    <3>6. p \in DOMAIN Parts /\ f \in Parts[p] /\ field[p][f] = NULL /\ p # Channel /\ p # User
      BY <1>c, <3>3, <3>5, Apart
    <3> QED BY <1>4, <3>4, <3>5, <3>6, NullKept
  <2>3. ASSUME at' \in {"metadata", "metadata type", "file end"}, NEW f \in DOMAIN FileEndKeys
        PROVE  field'[File][f] = NULL
    <3>1. (FileStrings /\ file # NoWrapper) \/ GetMetadata \/ revolt_file_metadata_deserialize_json_obj
      <4>1. FileStrings \/ GetMetadata \/ revolt_file_metadata_deserialize_json_obj
        BY <1>4, <2>3, Course
        DEF Reading1, FileActions, revolt_user_deserialize_json_obj, revolt_channel_deserialize_json_obj
      <4>2. FileStrings /\ file = NoWrapper => at' = "leave" BY DEF FileStrings, Leaves
      <4> QED BY <2>3, <4>1, <4>2
    <3>2. CASE FileStrings /\ file # NoWrapper
      <4>1. PICK g, p : g = FileNulled /\ p = File OBVIOUS
      <4>2. ReadInto(g, p, FileKeys) BY <3>2, <4>1, FileReadsInto DEF IntoEmpty
      <4>3. p \in DOMAIN Parts /\ f \in Parts[p] /\ f \notin DOMAIN FileKeys BY <1>c, <4>1, KeyDomains
      <4>4. g[p][f] = NULL BY <1>0, <4>1, <4>3, FileNulledIs
      <4> QED BY <1>0, <4>1, <4>2, <4>3, <4>4, Unread
    <3>3. CASE GetMetadata \/ revolt_file_metadata_deserialize_json_obj
      <4>1. at \in {"metadata", "metadata type"} BY <3>3, Course
      <4>2. field[File][f] = NULL BY <1>0, <4>1 DEF EmptyInv, Empty
      <4>3. ~Status /\ ~Bot /\ ~AllocateRelations /\ ~RelationString /\ ~FileStrings /\ ~FileEnd
            /\ ~ChannelStrings /\ ~VoiceEnd
        BY <4>1, Course
      <4>4. PICK p : p = File OBVIOUS
      <4>5. p \in DOMAIN Parts /\ f \in Parts[p] /\ field[p][f] = NULL BY <1>c, <4>2, <4>4
      <4> QED BY <1>4, <4>3, <4>4, <4>5, NullKept
    <3> QED BY <3>1, <3>2, <3>3
  <2>4. ASSUME kind = "user", at' \in {"status"} \cup FilePlaces PROVE field'[User].text = NULL
    <3>1. at \in {"avatar"} \cup FilePlaces
      BY <1>0, <1>4, <2>4, Course
      DEF Reading1, FileActions, revolt_user_deserialize_json_obj, revolt_channel_deserialize_json_obj,
          FilePlaces, PlaceInv, ChannelPlaces
    <3>2. field[User].text = NULL BY <1>0, <2>4, <3>1 DEF EmptyInv
    <3>3. ~Status /\ ~Bot /\ ~AllocateRelations /\ ~RelationString /\ ~ChannelStrings /\ ~VoiceEnd
      BY <3>1, Course DEF FilePlaces
    <3> QED BY <1>4, <1>c, <3>2, <3>3, NullKept, Apart
  <2>5. ASSUME kind = "user", at' \in {"status", "presence", "relations", "allocate"} \cup FilePlaces
        PROVE  field'[User].relations = NULL
    <3>1. at \in {"avatar", "status", "presence", "relations"} \cup FilePlaces
      BY <1>0, <1>4, <2>5, Course
      DEF Reading1, FileActions, revolt_user_deserialize_json_obj, revolt_channel_deserialize_json_obj,
          FilePlaces, PlaceInv, ChannelPlaces
    <3>2. field[User].relations = NULL BY <1>0, <2>5, <3>1 DEF EmptyInv
    <3>3. ~Bot /\ ~AllocateRelations /\ ~RelationString /\ ~ChannelStrings /\ ~VoiceEnd
      BY <3>1, Course DEF FilePlaces
    <3>4. "relations" # "text" OBVIOUS
    <3> QED BY <1>4, <1>c, <3>2, <3>3, <3>4, NullKept, Apart
  <2>6. ASSUME kind = "user", at' \in OpenPlaces \ {"user", "leave"} PROVE field'[User].owner_id = NULL
    <3>1. at \in OpenPlaces \ {"user", "leave"} /\ at \notin ChannelPlaces
      <4>1. at \in OpenPlaces \ {"leave"} BY <1>4, ReadingPlaces
      <4>2. at # "user" BY <1>4, FirstReads DEF Kinds
      <4> QED BY <1>0, <2>6, <4>1, <4>2 DEF PlaceInv
    <3>2. field[User].owner_id = NULL BY <1>0, <2>6, <3>1 DEF EmptyInv
    <3>3. ~Bot /\ ~ChannelStrings /\ ~VoiceEnd
      BY <2>6, <3>1, Course DEF OpenPlaces, UserPlaces, ChannelPlaces, FilePlaces
    <3>4. "owner_id" # "text" /\ "owner_id" # "relations" OBVIOUS
    <3>5. User \notin Relations BY Apart DEF Relations
    <3> QED BY <1>4, <1>c, <3>2, <3>3, <3>4, <3>5, NullKept, Apart
  <2>7. /\ at' \in {"icon", "file"} => Empty(File, Parts[File])'
        /\ at' \in {"metadata", "metadata type", "file end"} => Empty(File, DOMAIN FileEndKeys)'
    BY <2>0, <2>2, <2>3 DEF Empty
  <2>8. \A k \in Kinds : at' # k BY <2>1
  <2> HIDE DEF Goes
  <2>9. at' \notin EarlyPlaces \cup Kinds /\ at' # "strings" /\ at' # "avatar" BY <2>1
  <2> QED BY <1>a, <1>b, <2>0, <2>4, <2>5, <2>6, <2>7, <2>9 DEF EmptyInv
<1> QED BY <1>1, <1>2, <1>3, <1>4

-----------------------------------------------------------------------------
(* Blocks of different parts of the application have different names.        *)
CallBlock(b) == \E k \in Kinds : b = <<k, "path">> \/ b = <<k, "header">> \/ b = <<k, "body">>
LEMMA BlockNames ==
  /\ \A b \in ClientBlocks : b[1] \in {"client", "rest", "ws"}
  /\ \A b \in RequestBlocks : b[1] \in {"url", "hdrs"}
  /\ Tree[1] = "document" /\ \A w : Wrapper(w)[1] = "json"
  /\ \A b : CallBlock(b) => b[1] \in Kinds /\ \A k \in Kinds : b # <<k>>
  /\ \A k \in Kinds : <<k>>[1] = k
<1>1. \A b \in ClientBlocks : b[1] \in {"client", "rest", "ws"} BY DEF ClientBlocks
<1>2. \A b \in RequestBlocks : b[1] \in {"url", "hdrs"} BY DEF RequestBlocks
<1>3. Tree[1] = "document" /\ \A w : Wrapper(w)[1] = "json" BY DEF Tree, Wrapper
<1>4. \A b : CallBlock(b) => b[1] \in Kinds /\ \A k \in Kinds : b # <<k>> BY DEF CallBlock
<1>5. \A k \in Kinds : <<k>>[1] = k OBVIOUS
<1> QED BY <1>1, <1>2, <1>3, <1>4, <1>5

(* What an object holds is neither an object nor a buffer of a call.         *)
LEMMA HeldNames ==
  ASSUME FieldInv, NEW k \in Kinds, NEW b \in Held(k)
  PROVE  b[1] = k /\ ~CallBlock(b) /\ \A j \in Kinds : b # <<j>>
<1>1. Owner(k, b) BY HeldHeads
<1>2. b[1] = k /\ Len(b) >= 2 BY <1>1 DEF Owner
<1>3. \A j \in Kinds : b # <<j>>
  <2>1. SUFFICES ASSUME NEW j \in Kinds, b = <<j>> PROVE FALSE OBVIOUS
  <2>2. Len(b) = 1 BY <2>1
  <2> QED BY <1>2, <2>2
<1>4. ~CallBlock(b)
  <2>1. SUFFICES ASSUME NEW j \in Kinds, NEW s \in {"path", "header", "body"}, b = <<j, s>>
                 PROVE  FALSE
    BY DEF CallBlock
  <2>2. Len(b) = 2 /\ b[2] = s BY <2>1
  <2>3. b[2] \notin {"path", "header", "body"} BY <1>1, <2>2 DEF Owner
  <2> QED BY <2>1, <2>2, <2>3
<1> QED BY <1>2, <1>3, <1>4

(* What a step frees.                                                        *)
LEMMA MemoryFrees ==
  ASSUME NEW new, NEW freed, NEW n, NEW wrong, Memory(new, freed, n, wrong)
  PROVE  /\ \A b \in blocks : b \in blocks' \/ b \in freed
         /\ \A b \in blocks' : b \in blocks \/ b \in new
         /\ \A b \in freed : b \notin blocks'
BY DEF Memory
LEMMA NothingFreed ==
  ASSUME Core, NEW fields, NEW obj, NEW keys, ReadInto(fields, obj, keys)
  PROVE  blocks \subseteq blocks'
BY DEF ReadInto, GotStrings

(* While a document is read, only looks free anything: wrappers.             *)
LEMMA FreedReading ==
  ASSUME Core, Reading1, NEW b \in blocks, b \notin blocks'
  PROVE  Looks /\ b[1] = "json"
<1>1. CASE Looks BY <1>1, LooksKeep DEF Others
<1>2. CASE StringActions
  <2>1. PICK fields, obj, keys : ReadInto(fields, obj, keys) BY <1>2, ReadsInto
  <2> QED BY <2>1, NothingFreed
<1>3. CASE Presence \/ RelationStatus \/ Relationship \/ ChannelType BY <1>3, QuietNames
<1>4. CASE revolt_file_metadata_deserialize_json_obj BY <1>4, MetadataQuiet
<1>5. CASE FileStrings /\ file = NoWrapper
  <2>1. Memory({}, {}, 0, {}) BY <1>5 DEF FileStrings
  <2> QED BY <2>1, MemoryFrees
<1>6. CASE AllocateRelations
  <2>1. Memory({<<"user", "relations">>}, {}, 0, {}) \/ Memory({}, {}, 1, {}) BY <1>6 DEF AllocateRelations
  <2> QED BY <2>1, MemoryFrees
<1>7. CASE RelationsMissing \/ NoMoreRelations
  <2>1. Memory({}, {}, 0, {"null"}) \/ UNCHANGED mvars BY <1>7 DEF RelationsMissing, NoMoreRelations
  <2> QED BY <2>1, MemoryFrees DEF mvars
<1>8. CASE Permissions
  <2>1. Memory({}, {}, 0, Through(root)) BY <1>8 DEF Permissions
  <2> QED BY <2>1, MemoryFrees
<1> QED BY <1>1, <1>2, <1>3, <1>4, <1>5, <1>6, <1>7, <1>8
        DEF Reading1, FileActions, revolt_user_deserialize_json_obj, revolt_channel_deserialize_json_obj,
            Looks, StringActions

DeleteFrees(b, k) == object[k] # NULL /\ (b = <<k>> \/ b \in Held(k))
(* The deletion of an object frees the object and what it holds.             *)
LEMMA FreedDelete ==
  ASSUME Core, NEW k \in Kinds, NEW owned, Written(k) => owned \subseteq Held(k), NEW next,
         Delete(k, owned, next), NEW b \in blocks, b \notin blocks'
  PROVE  DeleteFrees(b, k) /\ Written(k)
<1>1. object[k] # NULL /\ Written(k)
  <2>1. ~(object[k] # NULL /\ Written(k)) => \E wrong : Memory({}, {}, 0, wrong) BY DEF Delete
  <2> QED BY <2>1, MemoryFrees
<1>2. Memory({}, owned \cup {object[k]}, 0, {}) BY <1>1 DEF Delete
<1>3. b \in owned \/ b = object[k] BY <1>2, MemoryFrees
<1>4. object[k] = <<k>> BY <1>1 DEF Core, PlaceInv
<1> QED BY <1>1, <1>3, <1>4 DEF DeleteFrees

Freed(b) ==
  \/ FetchReturns /\ CallBlock(b)
  \/ request_perform /\ b \in RequestBlocks
  \/ Leave /\ (b = Tree \/ b[1] = "json")
  \/ Looks /\ b[1] = "json"
  \/ revolt_user_delete /\ DeleteFrees(b, "user")
  \/ revolt_channel_delete /\ DeleteFrees(b, "channel")
  \/ revolt_cleanup /\ b \in ClientBlocks
(* Whatever a step frees is one of these.                                    *)
LEMMA FreedOnly ==
  ASSUME Core, FetchNext, NEW b \in blocks, b \notin blocks'
  PROVE  Freed(b)
<1>0. PlaceInv /\ DocInv /\ FieldInv /\ kind \in Kinds BY DEF Core, PlaceInv
<1>1. CASE revolt_init \/ Fetch \/ revolt_rest_request \/ write_callback \/ Deserialize
  <2>1. \E new, n, wrong : Memory(new, {}, n, wrong)
    BY <1>1 DEF revolt_init, Fetch, revolt_rest_request, revoltc_http_request, write_callback, Deserialize,
               revoltc_json_parse
  <2> QED BY <2>1, MemoryFrees
<1>2. CASE FetchReturns
  <2>1. PICK freed : /\ freed = {<<kind, "path">>} \cup {<<kind, p>> : p \in {q \in DOMAIN resp : resp[q] > 0}}
                     /\ Memory({}, freed, 0, {})
    BY <1>2 DEF FetchReturns
  <2>2. b \in freed BY <2>1, MemoryFrees
  <2>3. DOMAIN resp = {"header", "body"} BY <1>0 DEF PlaceInv
  <2> QED BY <1>0, <1>2, <2>1, <2>2, <2>3 DEF Freed, CallBlock
<1>3. CASE request_perform
  <2>1. Memory({}, RequestBlocks, 0, {}) BY <1>3 DEF request_perform
  <2> QED BY <1>3, <2>1, MemoryFrees DEF Freed
<1>4. CASE Leave
  <2>1. Memory({}, Blocks(Chain(root)) \cup {Tree}, 0, Through(root)) BY <1>4 DEF Leave, revoltc_json_delete
  <2>2. b \in Blocks(Chain(root)) \cup {Tree} BY <2>1, MemoryFrees
  <2> QED BY <1>4, <2>2, BlockNames DEF Freed, Blocks
<1>5. CASE Reading1 BY <1>5, FreedReading DEF Freed
<1>6. CASE revolt_user_delete
  <2>1. Delete("user", revolt_user_cleanup, "delete channel") BY <1>6 DEF revolt_user_delete
  <2>2. Written("user") => revolt_user_cleanup \subseteq Held("user") BY <1>0, UserCleanup DEF DocInv
  <2> QED BY <1>6, <2>1, <2>2, FreedDelete DEF Freed, Kinds
<1>7. CASE revolt_channel_delete
  <2>1. PICK c : c = clean' OBVIOUS
  <2>2. Delete("channel", revolt_channel_cleanup(c), "exit") BY <1>7, <2>1 DEF revolt_channel_delete
  <2>3. Written("channel") => revolt_channel_cleanup(c) \subseteq Held("channel") BY <1>0, ChannelCleanup
  <2> QED BY <1>7, <2>2, <2>3, FreedDelete DEF Freed, Kinds
<1>8. CASE revolt_cleanup
  <2>1. Memory({}, ClientBlocks, 0, {}) BY <1>8 DEF revolt_cleanup
  <2> QED BY <1>8, <2>1, MemoryFrees DEF Freed
<1> QED BY <1>1, <1>2, <1>3, <1>4, <1>5, <1>6, <1>7, <1>8 DEF FetchNext, FileActions, Reading1

(* What a step allocates.                                                    *)
MadeForWrapper(b) == \E w \in DOMAIN json : b = Wrapper(w)
Holding(k, b) == b \in Held(k)
Made(b) ==
  \/ revolt_init /\ at' = "fetch" /\ b \in ClientBlocks
  \/ Fetch /\ (b = <<kind>> \/ (at' = "request" /\ b = <<kind, "path">>))
  \/ revolt_rest_request /\ at' = "receive" /\ b \in RequestBlocks
  \/ write_callback /\ \E p \in DOMAIN resp : resp'[p] > 0 /\ b = <<kind, p>>
  \/ Deserialize /\ at' = kind /\ (b = Tree \/ MadeForWrapper(b)')
  \/ Looks /\ MadeForWrapper(b)'
  \/ Reading1 /\ Holding(kind, b)'

LEMMA HoldingNow ==
  ASSUME NEW k \in Kinds, NEW p \in PartsOf(k), NEW f \in Parts[p], NEW b, field'[p][f] = b,
         b \notin Nowhere, kind' = kind, k = kind
  PROVE  Holding(kind, b)'
BY DEF Holding, Held

(* While a document is read, only wrappers and strings of the object are     *)
(* made.                                                                     *)
LEMMA MadeReading ==
  ASSUME Core, Reading1, NEW b \in blocks', b \notin blocks
  PROVE  Made(b)
<1>0. FieldInv /\ kind \in Kinds BY DEF Core, PlaceInv
<1>k. kind' = kind BY ReadingFrame
<1>1. CASE Looks
  <2>1. Others BY <1>1, LooksKeep
  <2> QED BY <1>1, <2>1 DEF Others, Made, MadeForWrapper
<1>2. CASE StringActions
  <2>1. PICK fields, obj, keys : ReadInto(fields, obj, keys) BY <1>2, ReadsInto
  <2>2. obj \in PartsOf(kind) /\ obj \in DOMAIN Parts /\ GotStrings(fields, obj, keys) /\ DOMAIN keys \subseteq Parts[obj]
        /\ DOMAIN fields[obj] = Parts[obj]
    BY <2>1 DEF ReadInto, PartsOf, FieldOk
  <2>3. PICK f \in DOMAIN keys : field'[obj][f] = b /\ Owner(obj[1], b) BY <2>2 DEF GotStrings
  <2>4. f \in Parts[obj] /\ obj[1] = kind BY <2>2, <2>3 DEF PartsOf
  <2>6. b \notin Nowhere
    <3>1. Len(b) >= 2 BY <2>3 DEF Owner
    <3>2. Len(NULL) = 0 /\ Len(WILD) = 1 BY DEF NULL, WILD
    <3> QED BY <3>1, <3>2 DEF Nowhere
  <2>7. Holding(kind, b)' BY <1>0, <1>k, <2>2, <2>3, <2>4, <2>6, HoldingNow
  <2> QED BY <2>7 DEF Made
<1>3. CASE Presence \/ RelationStatus \/ Relationship \/ ChannelType BY <1>3, QuietNames
<1>4. CASE revolt_file_metadata_deserialize_json_obj BY <1>4, MetadataQuiet
<1>5. CASE FileStrings /\ file = NoWrapper
  <2>1. Memory({}, {}, 0, {}) BY <1>5 DEF FileStrings
  <2> QED BY <2>1, MemoryFrees
<1>6. CASE AllocateRelations
  <2>1. \/ field' = [field EXCEPT ![User].relations = <<"user", "relations">>] /\ Memory({<<"user", "relations">>}, {}, 0, {})
        \/ Memory({}, {}, 1, {})
    BY <1>6 DEF AllocateRelations
  <2>2. b = <<"user", "relations">> /\ field' = [field EXCEPT ![User].relations = <<"user", "relations">>]
    BY <2>1, MemoryFrees
  <2>3. field'[User]["relations"] = b BY <1>0, <2>2, Allocated
  <2>4. b \notin Nowhere BY <2>2 DEF Nowhere, NULL, WILD
  <2>5. kind = "user" BY <1>6, Course DEF Goes, Core, PlaceInv, UserPlaces
  <2>6. User \in PartsOf("user") /\ "relations" \in Parts[User] BY UserParts, PartsAre, KeyDomains
  <2>7. Holding(kind, b)' BY <1>0, <1>k, <2>3, <2>4, <2>5, <2>6, HoldingNow
  <2> QED BY <2>7 DEF Made
<1>7. CASE RelationsMissing \/ NoMoreRelations
  <2>1. Memory({}, {}, 0, {"null"}) \/ UNCHANGED mvars BY <1>7 DEF RelationsMissing, NoMoreRelations
  <2> QED BY <2>1, MemoryFrees DEF mvars
<1>8. CASE Permissions
  <2>1. Memory({}, {}, 0, Through(root)) BY <1>8 DEF Permissions
  <2> QED BY <2>1, MemoryFrees
<1> QED BY <1>1, <1>2, <1>3, <1>4, <1>5, <1>6, <1>7, <1>8
        DEF Reading1, FileActions, revolt_user_deserialize_json_obj, revolt_channel_deserialize_json_obj,
            Looks, StringActions

(* Whatever a step allocates is one of these.                                *)
LEMMA MadeOnly ==
  ASSUME Core, FetchNext, NEW b \in blocks', b \notin blocks
  PROVE  Made(b)
<1>0. PlaceInv /\ kind \in Kinds BY DEF Core, PlaceInv
<1>1. CASE revolt_init
  <2>1. \/ Memory(ClientBlocks, {}, 0, {}) /\ at' = "fetch"
        \/ Memory({}, {}, 0, {}) \/ Memory({}, {}, 1, {"null"}) \/ Memory({}, {}, 1, {})
    BY <1>1 DEF revolt_init
  <2>2. CASE Memory(ClientBlocks, {}, 0, {}) /\ at' = "fetch"
    <3>1. b \in ClientBlocks BY <2>2, MemoryFrees
    <3> QED BY <1>1, <2>2, <3>1 DEF Made
  <2>3. CASE Memory({}, {}, 0, {}) \/ Memory({}, {}, 1, {"null"}) \/ Memory({}, {}, 1, {})
    BY <2>3, MemoryFrees
  <2> QED BY <2>1, <2>2, <2>3
<1>2. CASE Fetch
  <2>1. \/ Memory({<<kind>>, <<kind, "path">>}, {}, 0, {}) /\ at' = "request"
        \/ Memory({}, {}, 1, {}) \/ Memory({<<kind>>}, {}, 1, {})
    BY <1>2 DEF Fetch
  <2>2. b = <<kind>> \/ (at' = "request" /\ b = <<kind, "path">>) BY <2>1, MemoryFrees
  <2> QED BY <1>2, <2>2 DEF Made
<1>3. CASE revolt_rest_request
  <2>1. \/ Memory({}, {}, 1, {})
        \/ Memory({}, {}, 0, {})
        \/ Memory(RequestBlocks, {}, 0, {}) /\ at' = "receive"
    BY <1>3 DEF revolt_rest_request, revoltc_http_request
  <2>2. CASE Memory(RequestBlocks, {}, 0, {}) /\ at' = "receive"
    <3>1. b \in RequestBlocks BY <2>2, MemoryFrees
    <3> QED BY <1>3, <2>2, <3>1 DEF Made
  <2>3. CASE Memory({}, {}, 1, {}) \/ Memory({}, {}, 0, {}) BY <2>3, MemoryFrees
  <2> QED BY <2>1, <2>2, <2>3
<1>4. CASE write_callback
  <2>1. PICK part \in {"header", "body"} :
          \/ Memory({<<kind, part>>}, {}, 0, {}) /\ resp' = [resp EXCEPT ![part] = @ + 1]
          \/ Memory({}, {}, 1, {})
    BY <1>4 DEF write_callback
  <2>2. b = <<kind, part>> /\ resp' = [resp EXCEPT ![part] = @ + 1] BY <2>1, MemoryFrees
  <2>3. part \in DOMAIN resp /\ resp[part] \in Nat BY <1>0 DEF PlaceInv
  <2>4. resp'[part] > 0 BY <2>2, <2>3
  <2> QED BY <1>4, <2>2, <2>3, <2>4 DEF Made
<1>5. CASE Deserialize
  <2>1. CASE body = NoBody
    <3>1. Memory({}, {}, 0, {}) BY <1>5, <2>1 DEF Deserialize
    <3> QED BY <3>1, MemoryFrees
  <2>2. CASE body # NoBody
    <3>1. PICK r \in {"OK", "NOMEM", "PARSE"}, w \in {NoWrapper, 1} :
            revoltc_json_parse(body, r, w) /\ at' = IF r = "OK" THEN kind ELSE "cleanup"
      BY <1>5, <2>2 DEF Deserialize
    <3>2. \/ Memory({}, {}, 1, {}) \/ Memory({}, {}, 0, {})
          \/ /\ r = "OK" /\ json' = << [val |-> <<>>, child |-> NoWrapper] >>
             /\ Memory({Wrapper(1), Tree}, {}, 0, {})
      BY <3>1 DEF revoltc_json_parse
    <3>3. r = "OK" /\ json' = << [val |-> <<>>, child |-> NoWrapper] >> /\ b \in {Wrapper(1), Tree}
      BY <3>2, MemoryFrees
    <3>4. 1 \in DOMAIN json' BY <3>3
    <3> QED BY <1>5, <3>1, <3>3, <3>4 DEF Made, MadeForWrapper
  <2> QED BY <2>1, <2>2
<1>6. CASE Reading1 BY <1>6, MadeReading
<1>7. CASE FetchReturns \/ Leave \/ request_perform \/ DeleteActions
  <2>1. \E freed, n, wrong : Memory({}, freed, n, wrong)
    BY <1>7 DEF FetchReturns, Leave, revoltc_json_delete, request_perform, DeleteActions, revolt_user_delete,
               revolt_channel_delete, revolt_cleanup, Delete
  <2> QED BY <2>1, MemoryFrees
<1> QED BY <1>1, <1>2, <1>3, <1>4, <1>5, <1>6, <1>7 DEF FetchNext, FileActions, Reading1, DeleteActions

-----------------------------------------------------------------------------
LEMMA HeldIs ==
  ASSUME NEW k
  PROVE  /\ \A b : b \in Held(k) <=> b \notin Nowhere /\ \E p \in PartsOf(k) : \E f \in Parts[p] : field[p][f] = b
         /\ \A b : b \in Held(k)' <=> b \notin Nowhere /\ \E p \in PartsOf(k) : \E f \in Parts[p] : field'[p][f] = b
BY DEF Held, PartsOf

(* What an object holds after a step it held before, or it is in use.        *)
LEMMA HeldStep ==
  ASSUME Core, FetchNext, NEW k \in Kinds, NEW b \in Held(k)'
  PROVE  b \in Held(k) \/ b \in blocks'
<1>0. FieldInv /\ kind \in Kinds BY DEF Core, PlaceInv
<1>a. b \notin Nowhere /\ \E p \in PartsOf(k) : \E f \in Parts[p] : field'[p][f] = b BY HeldIs
<1>b. PICK p \in PartsOf(k) : \E f \in Parts[p] : field'[p][f] = b BY <1>a
<1>1. PICK f \in Parts[p] : field'[p][f] = b /\ b \notin Nowhere BY <1>a, <1>b
<1>2. p \in DOMAIN Parts BY DEF PartsOf
<1>3. field[p][f] = b => b \in Held(k) BY <1>1, HeldIs
<1>4. CASE AllocateRelations
  <2>1. CASE field' = field BY <1>1, <1>3, <2>1
  <2>2. CASE field' = [field EXCEPT ![User].relations = <<"user", "relations">>] /\ Memory({<<"user", "relations">>}, {}, 0, {})
    <3>1. <<"user", "relations">> \in blocks'
      <4>1. PICK c : c = <<"user", "relations">> OBVIOUS
      <4>2. Memory({c}, {}, 0, {}) BY <2>2, <4>1
      <4> QED BY <4>1, <4>2 DEF Memory
    <3>2. p # User \/ f # "relations" => field'[p][f] = field[p][f] BY <1>0, <1>2, <2>2, Allocated
    <3>3. p = User /\ f = "relations" => b = <<"user", "relations">> BY <1>0, <1>1, <2>2, Allocated
    <3> QED BY <1>1, <1>3, <3>1, <3>2, <3>3
  <2> QED BY <1>4, <2>1, <2>2 DEF AllocateRelations
<1>5. CASE StringActions
  <2>1. PICK fields, obj, keys : ReadInto(fields, obj, keys) BY <1>5, ReadsInto
  <2>2. CASE p # obj \/ f \notin DOMAIN keys
    <3>1. field'[p][f] = field[p][f] \/ field'[p][f] = NULL BY <1>0, <1>2, <2>1, <2>2, Unread
    <3> QED BY <1>1, <1>3, <3>1 DEF Nowhere
  <2>3. CASE p = obj /\ f \in DOMAIN keys
    <3>1. GotStrings(fields, obj, keys) /\ DOMAIN fields[obj] = Parts[obj]
      BY <1>2, <2>1, <2>3 DEF ReadInto, FieldOk
    <3>2. field'[obj][f] = NULL \/ field'[obj][f] \in blocks' BY <3>1, <2>3 DEF GotStrings
    <3> QED BY <1>1, <2>3, <3>2 DEF Nowhere
  <2> QED BY <2>2, <2>3
<1>6. CASE ~AllocateRelations /\ ~StringActions
  <2>1. field'[p][f] = field[p][f] \/ field'[p][f] \in Nowhere BY <1>2, <1>6, Untouched
  <2> QED BY <1>1, <1>3, <2>1
<1> QED BY <1>4, <1>5, <1>6

(* When the application uses what.                                           *)
LEMMA NotEnded ==
  ASSUME Core, FetchNext
  PROVE  at # "end" /\ (at = "exit" => revolt_cleanup) /\ (at = "delete channel" => revolt_channel_delete)
<1> USE DEF OpenPlaces, UserPlaces, ChannelPlaces, FilePlaces
<1>1. Reading1 => at \notin {"end", "exit", "delete channel"} BY ReadingPlaces
<1>2. revolt_init \/ Fetch \/ FetchReturns \/ Deserialize \/ Leave => at \notin {"end", "exit", "delete channel"}
  BY DEF revolt_init, Fetch, FetchReturns, Deserialize, Leave
<1>3. RequestActions => at \notin {"end", "exit", "delete channel"}
  BY DEF RequestActions, revolt_rest_request, write_callback, request_perform
<1>4. DeleteActions => at # "end" /\ (at = "exit" => revolt_cleanup) /\ (at = "delete channel" => revolt_channel_delete)
  BY DEF DeleteActions, revolt_user_delete, revolt_channel_delete, revolt_cleanup
<1> QED BY <1>1, <1>2, <1>3, <1>4 DEF FetchNext, FileActions, RequestActions, DeleteActions, Reading1

(* An object comes to life in a fetch.                                       *)
LEMMA AliveStep ==
  ASSUME Core, FetchNext, at' # "crashed", NEW k \in Kinds, Alive(k)'
  PROVE  Alive(k) \/ (Fetch /\ k = kind /\ at' = "request")
<1>0. PlaceInv /\ kind \in Kinds /\ DOMAIN object = Kinds BY DEF Core, PlaceInv
<1>1. object'[k] # NULL /\ at' \notin {"exit", "end"} /\ (k = "user" => at' # "delete channel") BY DEF Alive
<1>2. CASE Fetch
  <2>1. at = "fetch" BY <1>2 DEF Fetch
  <2>2. object[kind] = NULL BY <1>0, <2>1 DEF PlaceInv
  <2>3. \/ at' = "request" /\ object' = [object EXCEPT ![kind] = <<kind>>]
        \/ object' = object
    BY <1>2, ErrRest
  <2>4. k = kind => at' = "request" BY <1>0, <1>1, <2>2, <2>3
  <2>5. k # kind => object[k] # NULL BY <1>0, <1>1, <2>3
  <2> QED BY <1>2, <2>1, <2>4, <2>5 DEF Alive
<1>3. CASE ~Fetch
  <2>1. object' = object BY <1>3, ObjectSame
  <2>2. at \notin {"exit", "end"}
    <3>1. revolt_cleanup => at' = "end" BY DEF revolt_cleanup
    <3> QED BY <1>1, <3>1, NotEnded
  <2>3. at = "delete channel" => at' = "exit"
    <3>1. revolt_channel_delete => at' \in {"exit", "crashed"} BY DEF revolt_channel_delete, Delete
    <3> QED BY <3>1, NotEnded
  <2> QED BY <1>1, <2>1, <2>2, <2>3 DEF Alive
<1> QED BY <1>2, <1>3

(* How a call goes on, from its first step to its last.                      *)
LEMMA CallStep ==
  ASSUME Core, FetchNext, at' \in CallPlaces
  PROVE  /\ kind' = kind /\ (at \in CallPlaces \/ (Fetch /\ at' = "request"))
         /\ at' \in {"receive", "aborted"} =>
              (revolt_rest_request /\ at' = "receive") \/ (write_callback /\ at = "receive")
         /\ at' \in OpenPlaces => (Deserialize /\ at' = kind) \/ Reading1
<1> USE DEF CallPlaces, EarlyPlaces, OpenPlaces, UserPlaces, ChannelPlaces, FilePlaces
<1>0. kind \in Kinds BY DEF Core, PlaceInv
<1>1. CASE Reading1 BY <1>1, ReadingFrame, ReadingPlaces
<1>2. CASE revolt_init \/ FetchReturns BY <1>2 DEF revolt_init, FetchReturns, Returned
<1>3. CASE Fetch BY <1>3 DEF Fetch, Returned
<1>4. CASE RequestActions
  BY <1>4 DEF RequestActions, revolt_rest_request, revoltc_http_request, Ends, write_callback, request_perform
<1>5. CASE Deserialize BY <1>0, <1>5 DEF Deserialize, Ends, Kinds
<1>6. CASE Leave BY <1>6 DEF Leave
<1>7. CASE DeleteActions
  BY <1>7 DEF DeleteActions, revolt_user_delete, revolt_channel_delete, revolt_cleanup, Delete
<1> QED
  BY <1>1, <1>2, <1>3, <1>4, <1>5, <1>6, <1>7
  DEF FetchNext, FileActions, Reading1, RequestActions, DeleteActions

(* A buffer of the response is one that was received or is received now.     *)
LEMMA RespStep ==
  ASSUME Core, FetchNext, NEW p \in {"header", "body"}, resp'[p] > 0
  PROVE  /\ kind' = kind /\ ~FetchReturns /\ at \in CallPlaces
         /\ resp[p] > 0 \/ (write_callback /\ <<kind, p>> \in blocks')
<1>0. PlaceInv BY DEF Core
<1>1. NothingReceived[p] = 0 /\ DOMAIN resp = {"header", "body"} BY <1>0 DEF NothingReceived, PlaceInv
<1>2. ~FetchReturns BY <1>1 DEF FetchReturns
<1>3. CASE write_callback
  <2>1. PICK part \in {"header", "body"} :
          \/ Memory({<<kind, part>>}, {}, 0, {}) /\ resp' = [resp EXCEPT ![part] = @ + 1]
          \/ resp' = resp
    BY <1>3 DEF write_callback
  <2>2. CASE resp' = resp BY <1>3, <2>2, <1>2 DEF write_callback, CallPlaces, EarlyPlaces
  <2>3. CASE Memory({<<kind, part>>}, {}, 0, {}) /\ resp' = [resp EXCEPT ![part] = @ + 1]
    <3>1. p # part => resp'[p] = resp[p] BY <1>1, <2>3
    <3>2. <<kind, part>> \in blocks'
      <4>1. PICK c : c = <<kind, part>> OBVIOUS
      <4>2. Memory({c}, {}, 0, {}) BY <2>3, <4>1
      <4> QED BY <4>1, <4>2 DEF Memory
    <3> QED BY <1>2, <1>3, <3>1, <3>2 DEF write_callback, CallPlaces, EarlyPlaces
  <2> QED BY <2>1, <2>2, <2>3
<1>4. CASE ~write_callback
  <2>1. resp' = resp
    <3>1. resp' # NothingReceived BY <1>1
    <3>2. request_perform => resp' = resp BY <3>1 DEF request_perform
    <3>3. Reading1 => resp' = resp BY ReadingFrame
    <3>4. revolt_init \/ Fetch \/ revolt_rest_request \/ Deserialize \/ Leave => resp' = resp
      BY DEF revolt_init, Fetch, revolt_rest_request, Deserialize, Leave, request_vars
    <3>5. revolt_user_delete \/ revolt_channel_delete \/ revolt_cleanup => resp' = resp
      BY DEF revolt_user_delete, revolt_channel_delete, revolt_cleanup, request_vars
    <3> QED BY <1>2, <1>4, <3>2, <3>3, <3>4, <3>5 DEF FetchNext, FileActions, Reading1
  <2>2. resp[p] > 0 BY <2>1
  <2>3. at \in CallPlaces \ {"request"} BY <1>0, <1>1, <2>2 DEF PlaceInv
  <2>4. at \in CallPlaces /\ at # "request" /\ at # "fetch"
    BY <2>3 DEF CallPlaces, EarlyPlaces, OpenPlaces, UserPlaces, ChannelPlaces, FilePlaces
  <2>5. kind' = kind
    <3>1. ~Fetch BY <2>4 DEF Fetch
    <3> QED
      BY <1>2, <1>4, <3>1, ReadingFrame
      DEF FetchNext, FileActions, Reading1, revolt_init, revolt_rest_request, Deserialize, Leave, request_vars,
          revolt_user_delete, revolt_channel_delete, revolt_cleanup, request_perform
  <2> QED BY <1>2, <2>2, <2>4, <2>5
<1> QED BY <1>3, <1>4

(* What the application still uses is not freed.                             *)
LEMMA LiveStep ==
  ASSUME Core, FetchNext, at' # "crashed"
  PROVE  LiveInv'
<1>0. LiveInv /\ FieldInv /\ PlaceInv /\ kind \in Kinds /\ PlaceInv' BY PlaceNext DEF Core, PlaceInv
<1>a. "user" \in Kinds /\ "channel" \in Kinds /\ \A k \in Kinds : k \in {"user", "channel"} BY DEF Kinds
<1>b. \A b : DeleteFrees(b, "user") \/ DeleteFrees(b, "channel") => b[1] \in Kinds
  BY <1>0, <1>a, HeldNames DEF DeleteFrees
<1>1. ASSUME at' \notin {"init", "end"}, NEW b \in ClientBlocks PROVE b \in blocks'
  <2>1. CASE at = "init"
    <3>1. revolt_init
      <4>1. ~Reading1 BY <2>1, ReadingPlaces DEF OpenPlaces, UserPlaces, ChannelPlaces, FilePlaces
      <4> QED
        BY <2>1, <4>1
        DEF FetchNext, FileActions, Reading1, Fetch, FetchReturns, revolt_rest_request, write_callback,
            request_perform, Deserialize, Leave, revolt_user_delete, revolt_channel_delete, revolt_cleanup
    <3>2. Memory(ClientBlocks, {}, 0, {}) BY <1>1, <3>1 DEF revolt_init
    <3> QED BY <3>2 DEF Memory
  <2>2. CASE at # "init"
    <3>1. b \in blocks BY <1>0, <2>2, NotEnded DEF LiveInv
    <3>2. ~revolt_cleanup BY <1>1 DEF revolt_cleanup
    <3>3. b[1] \in {"client", "rest", "ws"} BY BlockNames
    <3>4. b \in blocks' \/ Freed(b) BY <3>1, FreedOnly
    <3>5. b \notin RequestBlocks /\ b # Tree /\ b[1] # "json" /\ b[1] \notin Kinds
      BY <3>3, BlockNames DEF Kinds
    <3> QED BY <1>b, <3>2, <3>4, <3>5, BlockNames DEF Freed
  <2> QED BY <2>1, <2>2
<1>2. ASSUME at' \in CallPlaces PROVE <<kind', "path">> \in blocks'
  <2>0. kind' = kind BY <1>2, CallStep
  <2>1. CASE Fetch /\ at' = "request"
    <3>1. Memory({<<kind>>, <<kind, "path">>}, {}, 0, {})
      BY <1>0, <2>1 DEF Fetch, Returned
    <3>2. <<kind, "path">> \in blocks' BY <3>1 DEF Memory
    <3> QED BY <2>0, <3>2
  <2>2. CASE at \in CallPlaces
    <3>1. PICK b : b = <<kind, "path">> OBVIOUS
    <3>2. b \in blocks BY <1>0, <2>2, <3>1 DEF LiveInv
    <3>3. CallBlock(b) /\ b[1] \in Kinds BY <1>0, <3>1 DEF CallBlock
    <3>4. b \in blocks' \/ Freed(b) BY <3>2, FreedOnly
    <3>5. ~FetchReturns /\ ~revolt_user_delete /\ ~revolt_channel_delete
      BY <1>2, <2>2
      DEF FetchReturns, Returned, revolt_user_delete, revolt_channel_delete, CallPlaces, EarlyPlaces, OpenPlaces,
          UserPlaces, ChannelPlaces, FilePlaces
    <3>6. b \notin RequestBlocks /\ b # Tree /\ b[1] # "json" /\ b \notin ClientBlocks
      BY <1>a, <3>3, BlockNames
    <3> QED BY <2>0, <3>1, <3>4, <3>5, <3>6 DEF Freed
  <2> QED BY <1>2, <2>1, <2>2, CallStep
<1>3. ASSUME at' \in {"receive", "aborted"}, NEW b \in RequestBlocks PROVE b \in blocks'
  <2>1. at' \in CallPlaces BY <1>3 DEF CallPlaces, EarlyPlaces
  <2>2. CASE revolt_rest_request /\ at' = "receive"
    <3>1. Memory(RequestBlocks, {}, 0, {})
      BY <2>2 DEF revolt_rest_request, revoltc_http_request, Ends
    <3> QED BY <3>1 DEF Memory
  <2>3. CASE write_callback /\ at = "receive"
    <3>1. b \in blocks BY <1>0, <2>3 DEF LiveInv
    <3>2. \E new, n : Memory(new, {}, n, {}) BY <2>3 DEF write_callback
    <3> QED BY <3>1, <3>2, MemoryFrees
  <2> QED BY <1>3, <2>1, <2>2, <2>3, CallStep
<1>4. ASSUME NEW p \in {"header", "body"}, resp'[p] > 0 PROVE <<kind', p>> \in blocks'
  <2>0. kind' = kind /\ ~FetchReturns /\ at \in CallPlaces BY <1>4, RespStep
  <2>1. CASE <<kind, p>> \in blocks' BY <2>0, <2>1
  <2>2. CASE resp[p] > 0
    <3>1. PICK b : b = <<kind, p>> OBVIOUS
    <3>2. b \in blocks BY <1>0, <2>2, <3>1 DEF LiveInv, PlaceInv
    <3>3. CallBlock(b) /\ b[1] \in Kinds BY <1>0, <3>1 DEF CallBlock
    <3>4. b \in blocks' \/ Freed(b) BY <3>2, FreedOnly
    <3>5. ~revolt_user_delete /\ ~revolt_channel_delete
      BY <2>0
      DEF revolt_user_delete, revolt_channel_delete, CallPlaces, EarlyPlaces, OpenPlaces, UserPlaces, ChannelPlaces,
          FilePlaces
    <3>6. b \notin RequestBlocks /\ b # Tree /\ b[1] # "json" /\ b \notin ClientBlocks
      BY <1>a, <3>3, BlockNames
    <3> QED BY <2>0, <3>1, <3>4, <3>5, <3>6 DEF Freed
  <2> QED BY <1>4, <2>1, <2>2, RespStep
<1>5. ASSUME at' \in OpenPlaces PROVE Tree \in blocks'
  <2>1. CASE Deserialize /\ at' = kind
    <3>1. at' # "cleanup" BY <1>0, <2>1 DEF Kinds
    <3>2. PICK r \in {"OK", "NOMEM", "PARSE"}, w \in {NoWrapper, 1} :
            revoltc_json_parse(body, r, w) /\ at' = IF r = "OK" THEN kind ELSE "cleanup"
      BY <2>1, <3>1 DEF Deserialize, Ends
    <3>3. r = "OK" BY <3>1, <3>2
    <3>4. Memory({Wrapper(1), Tree}, {}, 0, {}) BY <3>2, <3>3 DEF revoltc_json_parse
    <3> QED BY <3>4 DEF Memory
  <2>2. CASE Reading1
    <3>1. Tree \in blocks BY <1>0, <2>2, ReadingPlaces DEF LiveInv
    <3> QED BY <2>2, <3>1, BlockNames, FreedReading
  <2>3. at' \in CallPlaces BY <1>5 DEF CallPlaces
  <2> QED BY <1>5, <2>1, <2>2, <2>3, CallStep
<1>6. ASSUME NEW k \in Kinds, Alive(k)' PROVE <<k>> \in blocks' /\ Held(k)' \subseteq blocks'
  <2>1. CASE Fetch /\ k = kind /\ at' = "request"
    <3>1. Memory({<<kind>>, <<kind, "path">>}, {}, 0, {}) /\ field' = Wiped(kind, WILD)
      BY <1>0, <2>1 DEF Fetch, Returned
    <3>2. <<kind>> \in blocks' BY <3>1 DEF Memory
    <3>3. ASSUME NEW b \in Held(k)' PROVE b \in blocks'
      <4>1. b \notin Nowhere /\ \E p \in PartsOf(k) : \E f \in Parts[p] : field'[p][f] = b BY <3>3, HeldIs
      <4>2. PICK p \in PartsOf(k) : \E f \in Parts[p] : field'[p][f] = b BY <4>1
      <4>3. PICK f \in Parts[p] : field'[p][f] = b BY <4>2
      <4>4. p \in DOMAIN Parts BY DEF PartsOf
      <4>5. object[kind] = NULL /\ at = "fetch" BY <1>0, <2>1 DEF Fetch, PlaceInv
      <4>6. field[p][f] = NULL BY <1>0, <2>1, <4>5 DEF Core, UnsetInv, EmptyInv, Empty
      <4>7. field'[p][f] \in Nowhere BY <1>0, <3>1, <4>4, <4>6, WipedFields DEF Nowhere
      <4> QED BY <4>1, <4>3, <4>7
    <3> QED BY <2>1, <3>2, <3>3
  <2>2. CASE Alive(k)
    <3>1. ASSUME NEW b, b = <<k>> \/ b \in Held(k) PROVE b \in blocks'
      <4>1. b \in blocks /\ object[k] # NULL BY <1>0, <2>2, <3>1 DEF LiveInv, Alive
      <4>2. b \in blocks' \/ Freed(b) BY <4>1, FreedOnly
      <4>3. b[1] = k /\ ~CallBlock(b) BY <1>0, <3>1, HeldNames, BlockNames
      <4>4. ~(revolt_channel_delete /\ at' # "crashed" /\ object["channel"] # NULL /\ DeleteFrees(b, "channel"))
        <5>1. SUFFICES ASSUME revolt_channel_delete, DeleteFrees(b, "channel") PROVE FALSE OBVIOUS
        <5>2. k = "channel" BY <1>0, <1>a, <4>3, <5>1, HeldNames, BlockNames DEF DeleteFrees
        <5>3. at' = "exit" BY <5>1 DEF revolt_channel_delete, Delete
        <5> QED BY <1>6, <5>3 DEF Alive
      <4>5. ~(revolt_user_delete /\ DeleteFrees(b, "user"))
        <5>1. SUFFICES ASSUME revolt_user_delete, DeleteFrees(b, "user") PROVE FALSE OBVIOUS
        <5>2. k = "user" BY <1>0, <1>a, <4>3, <5>1, HeldNames, BlockNames DEF DeleteFrees
        <5>3. at' = "delete channel" BY <5>1 DEF revolt_user_delete, Delete
        <5> QED BY <1>6, <5>2, <5>3 DEF Alive
      <4>6. b \notin RequestBlocks /\ b # Tree /\ b[1] # "json" /\ b \notin ClientBlocks
        BY <1>a, <4>3, BlockNames
      <4>7. DeleteFrees(b, "channel") => object["channel"] # NULL BY DEF DeleteFrees
      <4> QED BY <4>2, <4>3, <4>4, <4>5, <4>6, <4>7 DEF Freed
    <3>2. \A b \in Held(k)' : b \in blocks' BY <3>1, HeldStep
    <3> QED BY <3>1, <3>2
  <2> QED BY <1>6, <2>1, <2>2, AliveStep
<1>7. DOMAIN resp' = {"header", "body"} BY <1>0 DEF PlaceInv
<1>8. /\ at' \notin {"init", "end"} => ClientBlocks \subseteq blocks'
      /\ at' \in {"receive", "aborted"} => RequestBlocks \subseteq blocks'
  BY <1>1, <1>3
<1> QED BY <1>2, <1>4, <1>5, <1>6, <1>7, <1>8 DEF LiveInv

-----------------------------------------------------------------------------
(* What a fetch has lost stays lost.                                         *)
LEMMA ErrStays ==
  ASSUME Core, FetchNext, NEW k \in Kinds, err[k] \notin {"NONE", "OK"}
  PROVE  err'[k] = err[k] /\ object'[k] = object[k]
<1>0. PlaceInv /\ kind \in Kinds /\ DOMAIN err = Kinds /\ DOMAIN object = Kinds BY DEF Core, PlaceInv
<1>1. err' = err \/ ((Fetch \/ RequestActions \/ Deserialize \/ Reading1) /\ \E r : Fails(r))
  <2>1. revolt_init \/ FetchReturns \/ Leave \/ DeleteActions => err' = err BY ErrRest
  <2>2. Fetch => err' = err \/ Fails("NOMEM") BY ErrRest
  <2>3. RequestActions => err' = err \/ \E r : Fails(r) BY ErrRest
  <2>4. Deserialize => \E r : Fails(r) BY ErrRest
  <2>5. Reading1 => err' = err \/ \E r : Fails(r) BY ErrReading
  <2> QED BY <2>1, <2>2, <2>3, <2>4, <2>5 DEF FetchNext, FileActions, RequestActions, DeleteActions, Reading1
<1>2. Fetch \/ RequestActions \/ Deserialize \/ Reading1 => err[kind] \in {"NONE", "OK"}
  <2>1. Fetch => err[kind] = "NONE" BY <1>0 DEF Fetch, PlaceInv
  <2>2. RequestActions \/ Deserialize => at \in EarlyPlaces
    BY DEF RequestActions, revolt_rest_request, write_callback, request_perform, Deserialize, EarlyPlaces
  <2>3. at \in EarlyPlaces => err[kind] = "NONE" BY <1>0 DEF PlaceInv
  <2>4. Reading1 => err[kind] = "OK" BY <1>0, ReadingPlaces DEF PlaceInv
  <2> QED BY <2>1, <2>2, <2>3, <2>4
<1>3. err'[k] = err[k] BY <1>0, <1>1, <1>2 DEF Fails
<1>4. object'[k] = object[k]
  <2>1. ~Fetch => object' = object BY ObjectSame
  <2>2. Fetch => k # kind BY <1>2
  <2>3. Fetch => object' = object \/ object' = [object EXCEPT ![kind] = <<kind>>] BY ErrRest
  <2> QED BY <1>0, <2>1, <2>2, <2>3
<1> QED BY <1>3, <1>4

(* What follows the end of a call.                                           *)
LEMMA LastSteps ==
  ASSUME Core, FetchNext, at' # "crashed"
  PROVE  /\ at = "leave" => Leave
         /\ at = "cleanup" => FetchReturns
         /\ at \in {"receive", "aborted"} => (write_callback /\ at = "receive") \/ request_perform
         /\ at = "delete user" => revolt_user_delete /\ at' = "delete channel"
         /\ at = "delete channel" => revolt_channel_delete /\ at' = "exit"
         /\ at = "exit" => revolt_cleanup /\ at' = "end"
         /\ at' = "end" => revolt_init \/ revolt_cleanup
         /\ at' = "exit" => revolt_channel_delete
         /\ at' = "delete channel" => revolt_user_delete
         /\ at' # "init"
<1> USE DEF OpenPlaces, UserPlaces, ChannelPlaces, FilePlaces
<1>0. kind \in Kinds BY DEF Core, PlaceInv
<1>1. CASE Reading1 BY <1>1, ReadingPlaces
<1>2. CASE revolt_init BY <1>2 DEF revolt_init
<1>3. CASE Fetch \/ FetchReturns \/ Leave BY <1>3 DEF Fetch, FetchReturns, Returned, Leave
<1>4. CASE RequestActions
  BY <1>4 DEF RequestActions, revolt_rest_request, revoltc_http_request, Ends, write_callback, request_perform
<1>5. CASE Deserialize BY <1>0, <1>5 DEF Deserialize, Ends, Kinds
<1>6. CASE revolt_user_delete BY <1>6 DEF revolt_user_delete, Delete
<1>7. CASE revolt_channel_delete BY <1>7 DEF revolt_channel_delete, Delete
<1>8. CASE revolt_cleanup BY <1>8 DEF revolt_cleanup
<1> QED BY <1>1, <1>2, <1>3, <1>4, <1>5, <1>6, <1>7, <1>8 DEF FetchNext, FileActions, Reading1, RequestActions

(* Nothing that was lost is found again.                                     *)
LEMMA LostStays ==
  ASSUME Core, FetchNext, at' # "crashed", NEW b, Lost(b)
  PROVE  Lost(b)'
<1>0. PlaceInv /\ kind \in Kinds BY DEF Core, PlaceInv
<1>1. CASE \E k \in Kinds : err[k] = "NOMEM" /\ object[k] = NULL /\ b = <<k>>
  <2>1. PICK k \in Kinds : err[k] = "NOMEM" /\ object[k] = NULL /\ b = <<k>> BY <1>1
  <2>2. err'[k] = err[k] /\ object'[k] = object[k] BY <2>1, ErrStays
  <2> QED BY <2>1, <2>2 DEF Lost
<1>2. CASE \E k \in Kinds : err[k] = "CURL" /\ b \in {<<k, "header">>, <<k, "body">>}
  <2>1. PICK k \in Kinds : err[k] = "CURL" /\ b \in {<<k, "header">>, <<k, "body">>} BY <1>2
  <2>2. err'[k] = err[k] BY <2>1, ErrStays
  <2> QED BY <2>1, <2>2 DEF Lost
<1>3. CASE /\ kind = "channel" /\ at \in {"leave", "cleanup", "end"} \cup LastPlaces
           /\ type = "VOICE" /\ b = <<"channel", "_id">>
  <2>1. at \in {"leave", "cleanup", "delete user", "delete channel", "exit"} BY <1>3, NotEnded DEF LastPlaces
  <2>2. Leave \/ FetchReturns \/ revolt_user_delete \/ revolt_channel_delete \/ revolt_cleanup
    BY <2>1, LastSteps
  <2>3. kind' = kind /\ ~ChannelType
    BY <1>3, <2>1, <2>2
    DEF Leave, FetchReturns, Returned, revolt_user_delete, revolt_channel_delete, revolt_cleanup, ChannelType
  <2>4. type' = type BY <2>3, ValueStep
  <2>5. at' \in {"cleanup", "end"} \cup LastPlaces
    BY <1>3, <2>1, LastSteps DEF Leave, FetchReturns, Returned, LastPlaces
  <2> QED BY <1>3, <2>3, <2>4, <2>5 DEF Lost
<1>4. CASE at \in {"exit", "end"} /\ ~clean /\ b \in Owned(Icon, Parts[Icon])
  <2>1. revolt_cleanup /\ at' = "end" BY <1>4, NotEnded, LastSteps
  <2>2. field' = field /\ clean' = clean BY <2>1 DEF revolt_cleanup, object_vars
  <2> QED BY <1>4, <2>1, <2>2 DEF Lost, Owned
<1> QED BY <1>1, <1>2, <1>3, <1>4 DEF Lost

(* No field that holds a string is overwritten, but the id of a voice        *)
(* channel.                                                                  *)
LEMMA FieldKept ==
  ASSUME Core, FetchNext, NEW k \in Kinds, object[k] # NULL, NEW p \in PartsOf(k), NEW f \in Parts[p],
         NEW b, b \notin Nowhere, field[p][f] = b
  PROVE  field'[p][f] = b \/ (VoiceEnd /\ b = <<"channel", "_id">>)
<1>0. FieldInv /\ PlaceInv /\ EmptyInv /\ TypeInv /\ kind \in Kinds BY DEF Core, PlaceInv, UnsetInv
<1>a. p \in DOMAIN Parts /\ p[1] = k BY DEF PartsOf
<1>1. CASE Fetch
  <2>1. object[kind] = NULL BY <1>0, <1>1 DEF Fetch, PlaceInv
  <2>2. field' = field \/ field' = Wiped(kind, WILD) BY <1>1 DEF Fetch
  <2> QED BY <1>0, <1>a, <2>1, <2>2, WipedFields
<1>2. CASE ChannelType
  <2>1. at = "channel" /\ kind = "channel" BY <1>0, <1>2, Course DEF PlaceInv, ChannelPlaces
  <2>2. \A q \in PartsOf(kind) : Only(q, {}) BY <1>0, <2>1 DEF EmptyInv, Kinds
  <2>3. k # "channel" BY <2>1, <2>2 DEF Only
  <2>4. field' = Wiped("channel", NULL) BY <1>2 DEF ChannelType
  <2> QED BY <1>0, <1>a, <2>3, <2>4, WipedFields
<1>3. CASE AllocateRelations
  <2>1. CASE field' = field BY <2>1
  <2>2. CASE field' = [field EXCEPT ![User].relations = <<"user", "relations">>]
    <3>1. at = "allocate" /\ kind = "user" BY <1>0, <1>3, Course DEF Goes, PlaceInv, UserPlaces
    <3>2. field[User].relations = NULL BY <1>0, <3>1 DEF EmptyInv
    <3>3. p # User \/ f # "relations" BY <3>2 DEF Nowhere
    <3> QED BY <1>0, <1>a, <2>2, <3>3, Allocated
  <2> QED BY <1>3, <2>1, <2>2 DEF AllocateRelations
<1>4. CASE StringActions
  <2>1. PICK fields, obj, keys :
          ReadInto(fields, obj, keys) /\ (IntoEmpty(fields, obj, keys) \/ (VoiceEnd /\ obj = Channel /\ DOMAIN keys = {"id"}))
    <3>1. CASE VoiceEnd
      <4>1. ReadInto(field, Channel, VoiceEndKeys) BY <3>1, OthersReadInto
      <4> QED BY <3>1, <4>1, KeyDomains
    <3>2. CASE ~VoiceEnd BY <1>4, <3>2, ReadsInto
    <3> QED BY <3>1, <3>2
  <2>2. fields[p][f] = b BY <1>a, <2>1 DEF ReadInto, Nowhere
  <2>3. CASE p # obj \/ f \notin DOMAIN keys BY <1>0, <1>a, <2>1, <2>2, <2>3, Unread
  <2>4. CASE p = obj /\ f \in DOMAIN keys
    <3>1. b # NULL BY DEF Nowhere
    <3>2. ~IntoEmpty(fields, obj, keys) BY <2>2, <2>4, <3>1 DEF IntoEmpty
    <3>3. VoiceEnd /\ p = Channel /\ f = "id" BY <2>1, <2>4, <3>2
    <3>4. at = "voice end" BY <3>3, Course DEF Goes
    <3>5. field[Channel].id \in {NULL, <<"channel", "_id">>} BY <1>0, <3>4 DEF TypeInv
    <3> QED BY <3>1, <3>3, <3>5
  <2> QED BY <2>3, <2>4
<1>5. CASE ~Fetch /\ ~ChannelType /\ ~AllocateRelations /\ ~StringActions BY <1>5, FieldSame
<1> QED BY <1>1, <1>2, <1>3, <1>4, <1>5

(* An object keeps what it holds, but for the id of a voice channel.         *)
LEMMA HeldKept ==
  ASSUME Core, FetchNext, NEW k \in Kinds, object[k] # NULL, NEW b \in Held(k)
  PROVE  b \in Held(k)' \/ (VoiceEnd /\ b = <<"channel", "_id">>)
<1>1. b \notin Nowhere /\ \E p \in PartsOf(k) : \E f \in Parts[p] : field[p][f] = b BY HeldIs
<1>2. PICK p \in PartsOf(k) : \E f \in Parts[p] : field[p][f] = b BY <1>1
<1>3. PICK f \in Parts[p] : field[p][f] = b BY <1>2
<1>4. field'[p][f] = b \/ (VoiceEnd /\ b = <<"channel", "_id">>) BY <1>1, <1>3, FieldKept
<1> QED BY <1>1, <1>4, HeldIs

(* Wrappers are added at the end.                                            *)
LEMMA JsonGrows ==
  ASSUME Core, Reading1, NEW w \in DOMAIN json
  PROVE  w \in DOMAIN json'
<1>0. PlaceInv /\ WrapperInv /\ DocInv BY DEF Core
<1>1. CASE Looks
  <2>1. \E v, c, u : Looked(u, v, c)
    BY <1>0, <1>1, GetFileLooks, GetMetadataLooks, GetRelationsLooks, FirstRelationLooks, NextRelationLooks
    DEF Looks
  <2> QED BY <2>1 DEF Looked
<1>2. CASE ~Looks
  <2>1. SameWrappers BY <1>2, QuietFile, QuietUser, QuietChannel DEF Reading1
  <2> QED BY <2>1 DEF SameWrappers
<1> QED BY <1>1, <1>2

LEMMA WithinCount ==
  ASSUME NEW i \in 1 .. MostRelations, count \in 0 .. MostRelations, ~(i > count)
  PROVE  i \in 1 .. count
BY FetchBounds

(* The cleanup of a user frees all that the user holds.                      *)
LEMMA UserCleanedUp ==
  ASSUME Core, at = "delete user", NEW b \in Held("user")
  PROVE  b \in revolt_user_cleanup
<1>0. ShapeInv /\ EmptyInv /\ DocInv BY DEF Core, UnsetInv
<1>1. b \notin Nowhere /\ \E p \in PartsOf("user") : \E f \in Parts[p] : field[p][f] = b BY HeldIs
<1>2. PICK p \in PartsOf("user") : \E f \in Parts[p] : field[p][f] = b BY <1>1
<1>3. PICK f \in Parts[p] : field[p][f] = b BY <1>2
<1>4. b # NULL BY <1>1 DEF Nowhere
<1>5. CASE p = User
  <2>1. f \in UserFields BY <1>0, <1>1, <1>3, <1>5 DEF ShapeInv, Only
  <2>2. f \in {"id", "username", "discriminator", "display_name", "text", "relations", "owner_id"}
    BY <2>1 DEF UserFields, UserKeys
  <2> QED BY <1>3, <1>4, <1>5, <2>2 DEF revolt_user_cleanup, Owned
<1>6. CASE p = <<"user", "avatar">>
  <2>1. f \in {"id", "tag", "filename", "content_type", "message_id", "user_id", "server_id", "object_id"}
    BY <1>6, UserParts DEF FileKeys, FileEndKeys
  <2>2. b \in revolt_file_cleanup(<<"user", "avatar">>)
    BY <1>3, <1>4, <1>6, <2>1 DEF revolt_file_cleanup, Owned
  <2> QED BY <2>2 DEF revolt_user_cleanup
<1>7. CASE \E i \in 1 .. MostRelations : p = Relation(i)
  <2>1. PICK i \in 1 .. MostRelations : p = Relation(i) BY <1>7
  <2>2. f = "user_id" BY <2>1, PartsAre
  <2>3. ~(i > count)
    <3>1. i > count => Empty(Relation(i), Parts[Relation(i)]) BY <1>0 DEF EmptyInv, Filled
    <3> QED BY <1>3, <1>4, <2>1, <3>1 DEF Empty
  <2>4. count \in 0 .. MostRelations BY <1>0 DEF DocInv
  <2>5. i \in 1 .. count BY <2>3, <2>4, WithinCount
  <2>6. b \in Owned(Relation(i), {"user_id"}) BY <1>3, <1>4, <2>1, <2>2 DEF Owned
  <2> QED BY <2>5, <2>6 DEF revolt_user_cleanup
<1> QED BY <1>5, <1>6, <1>7, UserParts

(* The cleanup of a channel frees all that it holds, or all but the icon.    *)
LEMMA ChannelCleanedUp ==
  ASSUME Core, NEW b \in Held("channel"), NEW c
  PROVE  b \in revolt_channel_cleanup(c) \/ (~c /\ b \in Owned(Icon, Parts[Icon]))
<1>0. ShapeInv BY DEF Core, UnsetInv
<1>1. b \notin Nowhere /\ \E p \in PartsOf("channel") : \E f \in Parts[p] : field[p][f] = b BY HeldIs
<1>2. PICK p \in PartsOf("channel") : \E f \in Parts[p] : field[p][f] = b BY <1>1
<1>3. PICK f \in Parts[p] : field[p][f] = b BY <1>2
<1>4. b # NULL BY <1>1 DEF Nowhere
<1>5. CASE p = Channel
  <2>1. f \in DOMAIN ChannelKeys(type) BY <1>0, <1>1, <1>3, <1>5 DEF ShapeInv, Only
  <2>2. PICK t : t = type OBVIOUS
  <2>3. CASE t = "SM"
    <3>1. f \in {"id", "owner_id"} BY <2>1, <2>2, <2>3 DEF ChannelKeys, SmKeys
    <3> QED BY <1>3, <1>4, <1>5, <2>2, <2>3, <3>1 DEF revolt_channel_cleanup, Owned
  <2>4. CASE t = "DM"
    <3>1. f \in {"id", "last_message_id"} BY <2>1, <2>2, <2>4 DEF ChannelKeys, DmKeys
    <3> QED BY <1>3, <1>4, <1>5, <2>2, <2>4, <3>1 DEF revolt_channel_cleanup, Owned
  <2>5. CASE t = "GROUP"
    <3>1. f \in {"id", "owner_id", "last_message_id", "name", "description"}
      BY <2>1, <2>2, <2>5 DEF ChannelKeys, GroupKeys
    <3> QED BY <1>3, <1>4, <1>5, <2>2, <2>5, <3>1 DEF revolt_channel_cleanup, Owned
  <2>6. CASE t = "TEXT"
    <3>1. f \in {"id", "server_id", "last_message_id", "name", "description"}
      BY <2>1, <2>2, <2>6 DEF ChannelKeys, TextKeys
    <3> QED BY <1>3, <1>4, <1>5, <2>2, <2>6, <3>1 DEF revolt_channel_cleanup, Owned
  <2>7. CASE t = "VOICE"
    <3>1. f \in {"id", "server_id", "name", "description"}
      BY <2>1, <2>2, <2>7 DEF ChannelKeys, VoiceKeys
    <3> QED BY <1>3, <1>4, <1>5, <2>2, <2>7, <3>1 DEF revolt_channel_cleanup, Owned
  <2>8. CASE t \notin {"SM", "DM", "GROUP", "TEXT", "VOICE"}
    <3>1. ChannelKeys(type) = <<>> BY <2>2, <2>8 DEF ChannelKeys
    <3>2. DOMAIN <<>> = {} OBVIOUS
    <3> QED BY <2>1, <3>1, <3>2
  <2> QED BY <2>3, <2>4, <2>5, <2>6, <2>7, <2>8
<1>6. CASE p = Icon
  <2>1. type \in WithIcon BY <1>0, <1>1, <1>3, <1>6 DEF ShapeInv, Only
  <2>2. b \in Owned(Icon, Parts[Icon]) BY <1>3, <1>4, <1>6 DEF Owned
  <2>3. c => b \in revolt_file_cleanup(Icon)
    <3>1. f \in {"id", "tag", "filename", "content_type", "message_id", "user_id", "server_id", "object_id"}
      BY <1>6, PartsAre DEF FileKeys, FileEndKeys
    <3> QED BY <1>3, <1>4, <1>6, <3>1 DEF revolt_file_cleanup, Owned
  <2>4. PICK t, g : t = type /\ g = revolt_file_cleanup(<<"channel", "icon">>) OBVIOUS
  <2>5. c => b \in revolt_channel_cleanup(c)
    <3>1. c => b \in g BY <2>3, <2>4 DEF Icon
    <3>2. t \in {"GROUP", "TEXT", "VOICE"} BY <2>1, <2>4 DEF WithIcon
    <3> QED BY <2>4, <3>1, <3>2 DEF revolt_channel_cleanup
  <2> QED BY <2>2, <2>5
<1> QED BY <1>5, <1>6, UserParts

(* What is allocated belongs to someone.                                     *)
LEMMA NewGiven ==
  ASSUME Core, FetchNext, at' # "crashed", NEW b \in blocks', b \notin blocks
  PROVE  Given(b)' \/ Lost(b)'
<1>0. PlaceInv /\ kind \in Kinds /\ DOMAIN object = Kinds /\ DOMAIN err = Kinds BY DEF Core, PlaceInv
<1>a. \A p \in {"header", "body"} : p \in DOMAIN resp <=> p \in DOMAIN resp'
  BY PlaceNext, <1>0 DEF PlaceInv
<1>1. CASE revolt_init /\ at' = "fetch" /\ b \in ClientBlocks BY <1>1 DEF Given
<1>2. CASE Fetch /\ at' = "request"
  <2>1. kind' = kind /\ object' = [object EXCEPT ![kind] = <<kind>>]
    BY <1>0, <1>2 DEF Fetch, Returned
  <2>2. CASE b = <<kind, "path">> BY <1>2, <2>1, <2>2 DEF Given, CallPlaces, EarlyPlaces
  <2>3. CASE b = <<kind>>
    <3>1. PICK k \in Kinds : k = kind BY <1>0
    <3>2. object'[k] # NULL BY <1>0, <2>1, <3>1 DEF NULL
    <3>3. Alive(k)' BY <1>2, <3>2 DEF Alive
    <3> QED BY <2>3, <3>1, <3>3 DEF Given
  <2>4. Made(b) BY MadeOnly
  <2>5. ~Reading1 /\ ~Looks /\ at = "fetch"
    <3>1. at = "fetch" BY <1>2 DEF Fetch
    <3> QED
      BY <3>1, ReadingPlaces
      DEF OpenPlaces, UserPlaces, ChannelPlaces, FilePlaces, Looks, Reading1, FileActions,
                                     revolt_user_deserialize_json_obj
  <2> QED BY <2>2, <2>3, <2>4, <2>5 DEF Made, revolt_init, revolt_rest_request, write_callback, Deserialize
<1>3. CASE Fetch /\ at' # "request" /\ b = <<kind>>
  <2>1. Fails("NOMEM") /\ object' = object BY <1>3, ErrRest
  <2>2. object[kind] = NULL BY <1>0, <1>3 DEF Fetch, PlaceInv
  <2>3. PICK k \in Kinds : k = kind BY <1>0
  <2>4. err'[k] = "NOMEM" /\ object'[k] = NULL BY <1>0, <2>1, <2>2, <2>3 DEF Fails
  <2> QED BY <1>3, <2>3, <2>4 DEF Lost
<1>4. CASE revolt_rest_request /\ at' = "receive" /\ b \in RequestBlocks BY <1>4 DEF Given
<1>5. CASE write_callback /\ \E p \in DOMAIN resp : resp'[p] > 0 /\ b = <<kind, p>>
  <2>1. kind' = kind BY <1>5 DEF write_callback
  <2>2. PICK p \in DOMAIN resp : resp'[p] > 0 /\ b = <<kind, p>> BY <1>5
  <2>3. p \in DOMAIN resp' BY <1>0, <1>a, <2>2 DEF PlaceInv
  <2> QED BY <2>1, <2>2, <2>3 DEF Given
<1>6. CASE Deserialize /\ at' = kind /\ (b = Tree \/ MadeForWrapper(b)')
  <2>1. at' \in OpenPlaces BY <1>0, <1>6 DEF Kinds, OpenPlaces, UserPlaces, ChannelPlaces
  <2> QED BY <1>6, <2>1 DEF Given, MadeForWrapper
<1>7. CASE Looks /\ MadeForWrapper(b)'
  <2>1. Reading1 BY <1>7 DEF Looks, Reading1, FileActions, revolt_user_deserialize_json_obj
  <2>2. at' \in OpenPlaces BY <2>1, ReadingPlaces
  <2> QED BY <1>7, <2>2 DEF Given, MadeForWrapper
<1>8. CASE Reading1 /\ Holding(kind, b)'
  <2>1. kind' = kind /\ object' = object BY <1>8, ReadingFrame
  <2>2. at' \in OpenPlaces BY <1>8, ReadingPlaces
  <2>3. object[kind] = <<kind>> BY <1>0, <1>8, ReadingPlaces DEF PlaceInv, CallPlaces
  <2>4. PICK k \in Kinds : k = kind BY <1>0
  <2>5. object'[k] # NULL BY <2>1, <2>3, <2>4 DEF NULL
  <2>6. Alive(k)' BY <2>2, <2>5 DEF Alive, OpenPlaces, UserPlaces, ChannelPlaces, FilePlaces
  <2>7. b \in Held(k)' BY <1>8, <2>1, <2>4 DEF Holding
  <2> QED BY <2>6, <2>7 DEF Given
<1>9. Made(b) BY MadeOnly
<1> QED BY <1>1, <1>2, <1>3, <1>4, <1>5, <1>6, <1>7, <1>8, <1>9 DEF Made

(* What belonged to someone still does, is lost, or was freed.               *)
LEMMA ObjectsStay ==
  ASSUME Core, FetchNext, at' # "crashed", NEW k \in Kinds, Alive(k), NEW b \in blocks', b = <<k>> \/ b \in Held(k)
  PROVE  Given(b)' \/ Lost(b)'
<1>0. PlaceInv /\ FieldInv /\ kind \in Kinds /\ object[k] = <<k>> /\ object[k] # NULL
  BY DEF Core, PlaceInv, Alive
<1>a. k \in {"user", "channel"} BY DEF Kinds
<1>1. object'[k] # NULL
  <2>1. CASE Fetch
    <3>1. object' = object \/ object' = [object EXCEPT ![kind] = <<kind>>] BY <2>1, ErrRest
    <3>2. <<kind>> # NULL BY DEF NULL
    <3> QED BY <1>0, <3>1, <3>2 DEF PlaceInv
  <2>2. CASE ~Fetch BY <1>0, <2>2, ObjectSame
  <2> QED BY <2>1, <2>2
<1>2. CASE Alive(k)'
  <2>1. CASE b = <<k>> \/ b \in Held(k)' BY <1>2, <2>1 DEF Given
  <2>2. CASE b \in Held(k) /\ b \notin Held(k)'
    <3>1. VoiceEnd /\ b = <<"channel", "_id">> BY <1>0, <2>2, HeldKept
    <3>2. at = "voice end" /\ at' = "leave" /\ kind = "channel"
      BY <1>0, <3>1, Course DEF Goes, PlaceInv, ChannelPlaces
    <3>3. type = "VOICE" BY <3>2 DEF Core, UnsetInv, TypeInv
    <3>4. kind' = kind /\ type' = type
      <4>1. Reading1 BY <3>1 DEF Reading1, revolt_channel_deserialize_json_obj
      <4>2. ~ChannelType BY <3>2, Course
      <4> QED BY <4>1, <4>2, ReadingFrame, ValueStep
    <3> QED BY <3>1, <3>2, <3>3, <3>4 DEF Lost
  <2> QED BY <2>1, <2>2
<1>3. CASE k = "user" /\ ~Alive(k)'
  <2>1. at = "delete user"
    <3>1. at' \in {"exit", "end", "delete channel"} BY <1>1, <1>3 DEF Alive
    <3>2. at # "delete channel" /\ at # "exit" BY <1>3 DEF Alive
    <3>3. at # "init"
      <4>1. at = "init" => object["user"] = NULL BY <1>0 DEF PlaceInv
      <4> QED BY <1>0, <1>3, <4>1
    <3>4. revolt_init => at = "init" BY DEF revolt_init
    <3>5. revolt_cleanup => at = "exit" BY DEF revolt_cleanup
    <3>6. revolt_channel_delete => at = "delete channel" BY DEF revolt_channel_delete
    <3>7. revolt_user_delete => at = "delete user" BY DEF revolt_user_delete
    <3> QED BY <3>1, <3>2, <3>3, <3>4, <3>5, <3>6, <3>7, LastSteps
  <2>2. Delete("user", revolt_user_cleanup, "delete channel") BY <2>1, LastSteps DEF revolt_user_delete
  <2>3. Memory({}, revolt_user_cleanup \cup {object["user"]}, 0, {})
    BY <1>0, <1>3, <2>2 DEF Delete
  <2>4. b \in revolt_user_cleanup \/ b = object["user"] BY <1>0, <1>3, <2>1, UserCleanedUp
  <2>5. b \in revolt_user_cleanup \cup {object["user"]} BY <2>4
  <2> QED BY <2>3, <2>5, MemoryFrees
<1>4. CASE k = "channel" /\ ~Alive(k)'
  <2>1. at = "delete channel" /\ at' = "exit" /\ revolt_channel_delete
    <3>1. at' \in {"exit", "end"} BY <1>1, <1>4 DEF Alive
    <3>2. at # "exit" BY <1>4 DEF Alive
    <3>3. at # "init"
      <4>1. at = "init" => kind = "user" BY <1>0 DEF PlaceInv
      <4>2. kind = "user" => object["channel"] = NULL BY <1>0 DEF PlaceInv
      <4> QED BY <1>0, <1>4, <4>1, <4>2
    <3>4. revolt_init => at = "init" BY DEF revolt_init
    <3>5. revolt_cleanup => at = "exit" BY DEF revolt_cleanup
    <3>6. revolt_channel_delete => at = "delete channel" BY DEF revolt_channel_delete
    <3> QED BY <3>1, <3>2, <3>3, <3>4, <3>5, <3>6, LastSteps
  <2>2. PICK c : c = clean' OBVIOUS
  <2>3. Delete("channel", revolt_channel_cleanup(c), "exit") BY <2>1, <2>2 DEF revolt_channel_delete
  <2>4. Memory({}, revolt_channel_cleanup(c) \cup {object["channel"]}, 0, {})
    BY <1>0, <1>4, <2>1, <2>3 DEF Delete
  <2>5. b \notin revolt_channel_cleanup(c) /\ b # object["channel"] BY <2>4, MemoryFrees
  <2>6. b \in Held("channel") BY <1>0, <1>4, <2>5
  <2>7. ~c /\ b \in Owned(Icon, Parts[Icon]) BY <2>5, <2>6, ChannelCleanedUp
  <2>8. field' = field BY <2>1 DEF revolt_channel_delete, object_vars
  <2> QED BY <2>1, <2>2, <2>7, <2>8 DEF Lost, Owned
<1> QED BY <1>a, <1>2, <1>3, <1>4

-----------------------------------------------------------------------------
(* What belongs to someone still does after a step, is lost, or was freed.   *)
LEMMA OwnersStay ==
  ASSUME Core, FetchNext, at' # "crashed", NEW b \in blocks', b \in blocks, Given(b)
  PROVE  Given(b)' \/ Lost(b)'
<1>0. PlaceInv /\ kind \in Kinds /\ DOMAIN err = Kinds BY DEF Core, PlaceInv
<1>a. DOMAIN resp = {"header", "body"} /\ DOMAIN resp' = {"header", "body"}
  BY <1>0, PlaceNext DEF PlaceInv
<1>b. \A p \in {"header", "body"} : resp[p] \in Nat /\ resp'[p] \in Nat
  BY <1>0, PlaceNext DEF PlaceInv
<1> DEFINE OfCall == b = <<kind, "path">> \/ \E p \in DOMAIN resp : resp[p] > 0 /\ b = <<kind, p>>
<1>1. CASE at \notin {"init", "end"} /\ b \in ClientBlocks
  <2>1. CASE at' \notin {"init", "end"} BY <1>1, <2>1 DEF Given
  <2>2. CASE at' \in {"init", "end"}
    <3>1. revolt_init => at = "init" BY DEF revolt_init
    <3>2. revolt_cleanup BY <1>1, <2>2, <3>1, LastSteps
    <3>3. Memory({}, ClientBlocks, 0, {}) BY <3>2 DEF revolt_cleanup
    <3> QED BY <1>1, <3>3, MemoryFrees
  <2> QED BY <2>1, <2>2
<1>2. CASE at \in CallPlaces /\ ~FetchReturns /\ OfCall
  <2>1. at' \in CallPlaces
    <3> HIDE DEF OfCall
    <3> USE DEF CallPlaces, EarlyPlaces, OpenPlaces, UserPlaces, ChannelPlaces, FilePlaces
    <3>1. Reading1 => at' \in CallPlaces BY ReadingPlaces
    <3>2. RequestActions => at' \in CallPlaces
      BY DEF RequestActions, revolt_rest_request, revoltc_http_request, Ends, write_callback, request_perform
    <3>3. Deserialize \/ Leave => at' \in CallPlaces BY <1>0 DEF Deserialize, Ends, Leave, Kinds
    <3>4. ~revolt_init /\ ~Fetch BY <1>2 DEF revolt_init, Fetch
    <3>5. ~DeleteActions BY <1>2 DEF DeleteActions, revolt_user_delete, revolt_channel_delete, revolt_cleanup
    <3> QED
      BY <1>2, <3>1, <3>2, <3>3, <3>4, <3>5
      DEF FetchNext, FileActions, Reading1, RequestActions, DeleteActions
  <2>2. kind' = kind BY <2>1, CallStep
  <2>3. b = <<kind, "path">> => Given(b)' BY <2>1, <2>2 DEF Given
  <2>4. (\E p \in DOMAIN resp : resp[p] > 0 /\ b = <<kind, p>>) => Given(b)' \/ Lost(b)'
    <3>1. SUFFICES ASSUME NEW p \in DOMAIN resp, resp[p] > 0, b = <<kind, p>> PROVE Given(b)' \/ Lost(b)'
      OBVIOUS
    <3>2. CASE resp'[p] > 0 BY <1>a, <2>2, <3>1, <3>2 DEF Given
    <3>3. CASE ~(resp'[p] > 0)
      <4>1. err'[kind] = "CURL"
        <5>1. ~Reading1
          <6>1. Reading1 => resp' = resp BY ReadingFrame
          <6> QED BY <3>1, <3>3, <6>1
        <5>2. ~(revolt_init \/ Fetch \/ revolt_rest_request \/ Deserialize \/ Leave)
          <6>1. revolt_init \/ Fetch \/ revolt_rest_request \/ Deserialize \/ Leave => resp' = resp
            BY DEF revolt_init, Fetch, revolt_rest_request, Deserialize, Leave, request_vars
          <6> QED BY <3>1, <3>3, <6>1
        <5>3. ~DeleteActions
          <6>1. DeleteActions => resp' = resp
            BY DEF DeleteActions, revolt_user_delete, revolt_channel_delete, revolt_cleanup, request_vars
          <6> QED BY <3>1, <3>3, <6>1
        <5>4. ~write_callback
          <6>1. SUFFICES ASSUME write_callback PROVE FALSE OBVIOUS
          <6>2. PICK part \in {"header", "body"} : resp' = [resp EXCEPT ![part] = @ + 1] \/ resp' = resp
            BY <6>1 DEF write_callback
          <6>3. resp'[p] = resp[p] \/ resp'[p] = resp[p] + 1 BY <1>a, <3>1, <6>2
          <6>4. resp[p] \in Nat BY <1>a, <1>b, <3>1
          <6> QED BY <3>1, <3>3, <6>3, <6>4
        <5>5. request_perform
          BY <1>2, <5>1, <5>2, <5>3, <5>4 DEF FetchNext, FileActions, Reading1, DeleteActions
        <5>6. resp' # resp BY <3>1, <3>3
        <5>7. Fails("CURL") BY <5>5, <5>6 DEF request_perform, Ends, Fails
        <5> QED BY <1>0, <5>7 DEF Fails
      <4>2. PICK k \in Kinds : k = kind BY <1>0
      <4>3. b \in {<<k, "header">>, <<k, "body">>} BY <1>a, <3>1, <4>2
      <4> QED BY <4>1, <4>2, <4>3 DEF Lost
    <3> QED BY <3>2, <3>3
  <2> QED BY <1>2, <2>3, <2>4
<1>3. CASE FetchReturns /\ OfCall
  <2>1. PICK freed : /\ freed = {<<kind, "path">>} \cup {<<kind, p>> : p \in {q \in DOMAIN resp : resp[q] > 0}}
                     /\ Memory({}, freed, 0, {})
    BY <1>3 DEF FetchReturns
  <2>2. b \notin freed BY <2>1, MemoryFrees
  <2>3. b # <<kind, "path">> /\ \A p \in DOMAIN resp : resp[p] > 0 => b # <<kind, p>> BY <2>1, <2>2
  <2> QED BY <1>3, <2>3
<1>4. CASE at \in {"receive", "aborted"} /\ b \in RequestBlocks
  <2>1. CASE request_perform
    <3>1. Memory({}, RequestBlocks, 0, {}) BY <2>1 DEF request_perform
    <3> QED BY <1>4, <3>1, MemoryFrees
  <2>2. CASE ~request_perform
    <3>1. at' \in {"receive", "aborted"} BY <1>4, <2>2, LastSteps DEF write_callback
    <3> QED BY <1>4, <3>1 DEF Given
  <2> QED BY <2>1, <2>2
<1>5. CASE at \in OpenPlaces /\ (b = Tree \/ \E w \in DOMAIN json : b = Wrapper(w))
  <2>1. CASE at = "leave"
    <3>1. Leave BY <2>1, LastSteps
    <3>2. PICK freed : freed = Blocks(Chain(root)) \cup {Tree} OBVIOUS
    <3>3. Memory({}, freed, 0, Through(root)) BY <3>1, <3>2 DEF Leave, revoltc_json_delete
    <3>4. b \notin freed BY <3>3, MemoryFrees
    <3>5. b # Tree BY <3>2, <3>4
    <3>6. PICK w \in DOMAIN json : b = Wrapper(w) BY <1>5, <3>5
    <3>7. JsonType /\ Linked BY DEF Core, WrapperInv
    <3>8. root = 1 /\ root \in InUse BY <1>5, InPlace
    <3>9. w \in InUse BY <3>6 DEF InUse
    <3>10. 1 <= w BY <3>7, <3>9, InUseTyped
    <3>11. w \in Chain(root) BY <3>7, <3>8, <3>9, <3>10, ChainInUse DEF From
    <3> QED BY <3>2, <3>4, <3>6, <3>11 DEF Blocks
  <2>2. CASE at # "leave"
    <3>1. Reading1
      <4> USE DEF OpenPlaces, UserPlaces, ChannelPlaces, FilePlaces
      <4>1. ~(revolt_init \/ Fetch \/ FetchReturns \/ Deserialize \/ Leave)
        BY <1>5, <2>2 DEF revolt_init, Fetch, FetchReturns, Deserialize, Leave
      <4>2. ~RequestActions
        BY <1>5, <2>2 DEF RequestActions, revolt_rest_request, write_callback, request_perform
      <4>3. ~DeleteActions
        BY <1>5, <2>2 DEF DeleteActions, revolt_user_delete, revolt_channel_delete, revolt_cleanup
      <4> QED BY <4>1, <4>2, <4>3 DEF FetchNext, FileActions, Reading1, RequestActions, DeleteActions
    <3>2. at' \in OpenPlaces BY <3>1, ReadingPlaces
    <3>3. \A w \in DOMAIN json : w \in DOMAIN json' BY <3>1, JsonGrows
    <3> QED BY <1>5, <3>2, <3>3 DEF Given
  <2> QED BY <2>1, <2>2
<1>6. CASE \E k \in Kinds : Alive(k) /\ b \in {<<k>>} \cup Held(k)
  <2>1. PICK k \in Kinds : Alive(k) /\ (b = <<k>> \/ b \in Held(k)) BY <1>6
  <2> QED BY <2>1, ObjectsStay
<1>7. (\E p \in DOMAIN resp : resp[p] > 0) => at \in CallPlaces
  <2>1. at \notin CallPlaces => \A p \in DOMAIN resp : resp[p] = 0 BY <1>0 DEF PlaceInv, NothingReceived
  <2> QED BY <2>1
<1>8. CASE (at \in CallPlaces /\ b = <<kind, "path">>) \/ \E p \in DOMAIN resp : resp[p] > 0 /\ b = <<kind, p>>
  BY <1>2, <1>3, <1>7, <1>8
<1> HIDE DEF OfCall
<1> QED BY <1>1, <1>4, <1>5, <1>6, <1>8 DEF Given

(* Every block in use belongs to someone, or is one that the code forgets.   *)
LEMMA AccountStep ==
  ASSUME Core, FetchNext, at' # "crashed"
  PROVE  AccountInv'
<1>1. ASSUME NEW b \in blocks' PROVE Given(b)' \/ Lost(b)'
  <2>1. CASE b \notin blocks BY <2>1, NewGiven
  <2>2. CASE b \in blocks
    <3>1. Given(b) \/ Lost(b) BY <2>2 DEF Core, AccountInv
    <3> QED BY <2>2, <3>1, OwnersStay, LostStays
  <2> QED BY <2>1, <2>2
<1> QED BY <1>1 DEF AccountInv

(* The application crashes only in the ways that are known.                  *)
LEMMA CrashStep ==
  ASSUME Core, FetchNext, at' = "crashed"
  PROVE  Stopped'
<1>0. PlaceInv /\ WrittenInv /\ misuse = {} /\ kind \in Kinds BY DEF Core, PlaceInv
<1>1. revolt_init \/ RelationsMissing \/ revolt_user_delete \/ revolt_channel_delete
  <2>1. Reading1 => RelationsMissing
    BY Course
    DEF Reading1, FileActions, revolt_user_deserialize_json_obj, revolt_channel_deserialize_json_obj, Goes
  <2>2. ~Fetch /\ ~FetchReturns /\ ~Leave BY DEF Fetch, FetchReturns, Returned, Leave
  <2>3. ~RequestActions
    <3>1. revolt_rest_request => at' # "crashed" BY DEF revolt_rest_request, revoltc_http_request, Ends
    <3>2. write_callback \/ request_perform => at' # "crashed" BY DEF write_callback, request_perform, Ends
    <3> QED BY <3>1, <3>2 DEF RequestActions
  <2>4. ~Deserialize BY <1>0 DEF Deserialize, Ends, Kinds
  <2>5. ~revolt_cleanup BY DEF revolt_cleanup
  <2> QED BY <2>1, <2>2, <2>3, <2>4, <2>5 DEF FetchNext, FileActions, Reading1, RequestActions
<1>2. kind' = kind /\ object' = object /\ err' = err /\ field' = field /\ root' = root
  BY <1>1
  DEF revolt_init, RelationsMissing, revolt_user_delete, revolt_channel_delete, object_vars, wrapper_vars
<1>3. \A k \in Kinds : at # k
  <2>1. at \notin Kinds
    BY <1>1 DEF revolt_init, RelationsMissing, revolt_user_delete, revolt_channel_delete, Kinds
  <2> QED BY <2>1
<1>4. \A k \in Kinds : Written(k)' <=> Written(k) BY <1>2 DEF Written, PartsOf
<1>5. root' # NoWrapper => at' # kind' /\ Written(kind)'
  <2>1. PICK k \in Kinds : k = kind BY <1>0
  <2>2. root # NoWrapper => Written(k) BY <1>0, <1>3, <2>1 DEF WrittenInv
  <2>3. root' # NoWrapper => Written(k)' BY <1>2, <1>4, <2>2
  <2>4. at' # kind' BY <1>0, <1>2 DEF Kinds
  <2> QED BY <1>2, <2>1, <2>3, <2>4
<1>6. \A k \in Kinds : object'[k] # NULL /\ err'[k] = "OK" => Written(k)'
  BY <1>0, <1>2, <1>3, <1>4 DEF WrittenInv
<1>7. CASE revolt_init \/ RelationsMissing
  <2>1. \E n : Memory({}, {}, n, {"null"}) BY <1>7 DEF revolt_init, RelationsMissing
  <2>2. misuse' = {"null"} BY <1>0, <2>1 DEF Memory
  <2> QED BY <1>5, <1>6, <2>2 DEF Stopped
<1>8. CASE revolt_user_delete \/ revolt_channel_delete
  <2>1. PICK c : c = clean' OBVIOUS
  <2>2. PICK k, owned, next : k \in Kinds /\ Delete(k, owned, next) /\ next # "crashed"
    <3>1. revolt_user_delete => Delete("user", revolt_user_cleanup, "delete channel")
      BY DEF revolt_user_delete
    <3>2. revolt_channel_delete => Delete("channel", revolt_channel_cleanup(c), "exit")
      BY <2>1 DEF revolt_channel_delete
    <3>3. "delete channel" # "crashed" /\ "exit" # "crashed" OBVIOUS
    <3>4. "user" \in Kinds /\ "channel" \in Kinds BY DEF Kinds
    <3> QED BY <1>8, <3>1, <3>2, <3>3, <3>4
  <2>3. object[k] # NULL /\ ~Written(k) /\ Memory({}, {}, 0, {"wild"}) BY <2>2 DEF Delete
  <2>4. misuse' = {"wild"} BY <1>0, <2>3 DEF Memory
  <2>5. err[k] # "OK" BY <1>0, <1>3, <2>2, <2>3 DEF WrittenInv
  <2>6. \E j \in Kinds : err'[j] # "OK" /\ ~Written(j)' BY <1>2, <1>4, <2>2, <2>3, <2>5
  <2> QED BY <1>5, <1>6, <2>4, <2>6 DEF Stopped
<1> QED BY <1>1, <1>7, <1>8

(* After a crash there is nothing more.                                      *)
LEMMA NoMore ==
  ASSUME at = "crashed"
  PROVE  ~FetchNext
<1> USE DEF OpenPlaces, UserPlaces, ChannelPlaces, FilePlaces
<1>1. ~Reading1 BY ReadingPlaces
<1>2. ~(revolt_init \/ Fetch \/ FetchReturns \/ Deserialize \/ Leave)
  BY DEF revolt_init, Fetch, FetchReturns, Deserialize, Leave
<1>3. ~RequestActions BY DEF RequestActions, revolt_rest_request, write_callback, request_perform
<1>4. ~DeleteActions BY DEF DeleteActions, revolt_user_delete, revolt_channel_delete, revolt_cleanup
<1> QED BY <1>1, <1>2, <1>3, <1>4 DEF FetchNext, FileActions, Reading1, RequestActions, DeleteActions

(* Every step of the application keeps the invariant.                        *)
LEMMA FetchStep ==
  ASSUME FetchInv, FetchNext
  PROVE  FetchInv'
<1>1. at # "crashed"
  <2>1. at = "crashed" => ~FetchNext BY NoMore
  <2> QED BY <2>1
<1>2. Core BY <1>1 DEF FetchInv
<1>3. CASE at' = "crashed" BY <1>2, <1>3, CrashStep DEF FetchInv
<1>4. CASE at' # "crashed"
  <2>1. PlaceInv' /\ DocInv' /\ FieldInv' /\ WrapperInv'
    BY <1>2, <1>4, PlaceNext, DocStep, FieldStep, WrapperStep
  <2>2. ShapeInv' /\ TypeInv' /\ EmptyInv' BY <1>2, <1>4, ShapeStep, TypeStep, EmptyStep
  <2>3. LiveInv' /\ AccountInv' /\ WrittenInv' /\ misuse' = {}
    BY <1>2, <1>4, LiveStep, AccountStep, WrittenStep, CleanStep
  <2> QED BY <1>4, <2>1, <2>2, <2>3 DEF FetchInv, Core, UnsetInv
<1> QED BY <1>3, <1>4

LEMMA FetchStutters ==
  ASSUME FetchInv, UNCHANGED fvars
  PROVE  FetchInv'
<1>1. /\ blocks' = blocks /\ failures' = failures /\ misuse' = misuse /\ doc' = doc /\ json' = json /\ at' = at
      /\ kind' = kind /\ resp' = resp /\ body' = body /\ root' = root /\ file' = file /\ buf' = buf
      /\ object' = object /\ field' = field /\ value' = value /\ count' = count /\ err' = err /\ clean' = clean
  BY DEF fvars, mvars, jvars, request_vars, wrapper_vars, object_vars
<1>2. InUse' = InUse /\ Filled' = Filled /\ max' = max /\ type' = type /\ File' = File
  BY <1>1 DEF InUse, Filled, max, type, File
<1>3. PlaceInv => PlaceInv' BY <1>1 DEF PlaceInv
<1>4. DocInv => DocInv' BY <1>1, <1>2 DEF DocInv, IsArray
<1>5. FieldInv => FieldInv' BY <1>1 DEF FieldInv
<1>6. ShapeInv => ShapeInv' BY <1>1, <1>2 DEF ShapeInv, Only
<1>7. TypeInv => TypeInv' BY <1>1, <1>2 DEF TypeInv
<1>8. EmptyInv => EmptyInv' BY <1>1, <1>2 DEF EmptyInv, Only, Empty
<1>9. WrapperInv => WrapperInv' BY <1>1, <1>2 DEF WrapperInv, JsonType, Linked
<1>a. \A k : Held(k)' = Held(k) BY <1>1 DEF Held, PartsOf
<1>b. \A k : Alive(k)' <=> Alive(k) BY <1>1 DEF Alive
<1>c. Owned(Icon, Parts[Icon])' = Owned(Icon, Parts[Icon]) BY <1>1 DEF Owned
<1>10. LiveInv => LiveInv' BY <1>1, <1>a, <1>b DEF LiveInv
<1>d. \A b : Given(b) => Given(b)' BY <1>1, <1>a, <1>b DEF Given
<1>e. \A b : Lost(b) => Lost(b)' BY <1>1, <1>2, <1>c DEF Lost
<1>11. AccountInv => AccountInv' BY <1>1, <1>d, <1>e DEF AccountInv
<1>12. WrittenInv => WrittenInv' BY <1>1 DEF WrittenInv, Written
<1>13. Stopped => Stopped' BY <1>1 DEF Stopped, Written
<1>14. Core => Core'
  BY <1>1, <1>3, <1>4, <1>5, <1>6, <1>7, <1>8, <1>9, <1>10, <1>11, <1>12 DEF Core, UnsetInv
<1> QED BY <1>1, <1>13, <1>14 DEF FetchInv

LEMMA FetchStarts ==
  ASSUME Init
  PROVE  FetchInv
<1> USE DEF Init, HeapInit, JsonInit
<1>0. at = "init" /\ kind = "user" /\ root = NoWrapper /\ field = [p \in DOMAIN Parts |-> [f \in Parts[p] |-> NULL]]
  OBVIOUS
<1>a. \A p \in DOMAIN Parts : DOMAIN field[p] = Parts[p] /\ \A f \in Parts[p] : field[p][f] = NULL BY <1>0
<1>b. User \in DOMAIN Parts /\ Channel \in DOMAIN Parts /\ Icon \in DOMAIN Parts /\ "id" \in Parts[Channel]
  BY PartsAre, KeyDomains
<1>1. PlaceInv
  BY
  DEF PlaceInv, Kinds, OpenPlaces, CallPlaces, EarlyPlaces, LastPlaces, UserPlaces, ChannelPlaces, FilePlaces,
         NothingReceived
<1>2. DocInv
  <2>1. count \in 0 .. MostRelations BY FetchBounds
  <2> QED
    BY <1>0, <2>1 DEF DocInv, OpenPlaces, UserPlaces, ChannelPlaces, FilePlaces, InRelations, EarlyPlaces
<1>3. FieldInv BY <1>0, <1>a DEF FieldInv, Nowhere
<1>4. ShapeInv BY <1>a, <1>b DEF ShapeInv, Only, Nowhere
<1>5. TypeInv BY <1>0 DEF TypeInv, IconPlaces, FilePlaces
<1>6. EmptyInv
  <2>1. \A p \in DOMAIN Parts : Empty(p, Parts[p]) /\ Only(p, {}) BY <1>a DEF Empty, Only, Nowhere
  <2>2. \A k : \A p \in PartsOf(k) : p \in DOMAIN Parts BY DEF PartsOf
  <2>3. \A i \in 1 .. MostRelations : Relation(i) \in DOMAIN Parts BY PartsAre
  <2> HIDE DEF Init, HeapInit, JsonInit
  <2> QED
    BY <1>0, <2>1, <2>2, <2>3
    DEF EmptyInv, OpenPlaces, UserPlaces, ChannelPlaces, FilePlaces, EarlyPlaces, Kinds
<1>7. WrapperInv
  <2>1. json = <<>> /\ DOMAIN json = {} OBVIOUS
  <2>2. InUse = {} BY <2>1 DEF InUse
  <2>3. JsonType BY <2>1 DEF JsonType
  <2> HIDE DEF Init, HeapInit, JsonInit
  <2> QED
    BY <1>0, <2>2, <2>3
    DEF WrapperInv, Linked, OpenPlaces, UserPlaces, ChannelPlaces, FilePlaces, InRelations
<1>8. LiveInv
  BY
  DEF LiveInv, CallPlaces, EarlyPlaces, OpenPlaces, UserPlaces, ChannelPlaces, FilePlaces, NothingReceived, Alive
<1>9. AccountInv BY DEF AccountInv
<1>10. WrittenInv
  <2>1. \A k \in Kinds : Written(k)
    <3>1. NULL # WILD BY DEF NULL, WILD
    <3> QED BY <1>a, <3>1 DEF Written, PartsOf
  <2> HIDE DEF Init, HeapInit, JsonInit
  <2> QED BY <1>0, <2>1 DEF WrittenInv, Kinds
<1>11. misuse = {} OBVIOUS
<1> HIDE DEF Init, HeapInit, JsonInit
<1> QED
  BY <1>0, <1>1, <1>2, <1>3, <1>4, <1>5, <1>6, <1>7, <1>8, <1>9, <1>10, <1>11 DEF FetchInv, Core, UnsetInv

(* The invariant of the application: while it runs, wrappers are in a line   *)
(* from the root (lib/core/json_cjson.c 60-108), fields that are read are    *)
(* empty, what is used is in use and what is in use belongs to someone; if   *)
(* it has crashed, it was in one of the known ways.                          *)
THEOREM FetchInvariant == FetchSpec => []FetchInv
<1>1. Init => FetchInv BY FetchStarts
<1>2. FetchInv /\ [FetchNext]_fvars => FetchInv' BY FetchStep, FetchStutters
<1> QED BY <1>1, <1>2, PTL DEF FetchSpec

(* No block is freed twice and no wrapper is looked into after its deletion, *)
(* however many allocations fail, whatever the documents and however many    *)
(* relations there are (lib/core/json_cjson.c 60-108, lib/data_models).      *)
THEOREM NothingDanglesThm == FetchSpec => []NothingDangles
<1>1. FetchInv => NothingDangles
  <2>1. Core => misuse = {} BY DEF Core
  <2>2. Stopped => misuse \in {{"null"}, {"wild"}} BY DEF Stopped
  <2> QED BY <2>1, <2>2 DEF FetchInv, NothingDangles
<1> QED BY <1>1, FetchInvariant, PTL

(* An object is left unwritten only if its document was never parsed; an     *)
(* object that was filled in part can be deleted (lib/data_models,           *)
(* lib/core/fetch.c 19-54, 61-96).                                           *)
THEOREM UnwrittenOnlyUnparsedThm == FetchSpec => []UnwrittenOnlyUnparsed
<1>1. FetchInv => UnwrittenOnlyUnparsed
  <2>1. Core => UnwrittenOnlyUnparsed BY DEF Core, WrittenInv, UnwrittenOnlyUnparsed
  <2>2. Stopped => UnwrittenOnlyUnparsed BY DEF Stopped, UnwrittenOnlyUnparsed
  <2> QED BY <2>1, <2>2 DEF FetchInv
<1> QED BY <1>1, FetchInvariant, PTL

(* At the end of the application nothing is allocated but what the code is   *)
(* known to forget: the four leaks that Forgotten names, whichever           *)
(* allocations fail (lib/core/fetch.c, lib/core/http.c, lib/data_models).    *)
THEOREM NothingElseLeaksThm == FetchSpec => []NothingElseLeaks
<1>1. FetchInv => NothingElseLeaks
  <2>1. SUFFICES ASSUME FetchInv, at = "end", NEW b \in blocks PROVE b \in Forgotten
    BY DEF NothingElseLeaks
  <2>2. PlaceInv /\ AccountInv BY <2>1 DEF FetchInv, Core
  <2>3. ~Given(b)
    <3>1. at \notin CallPlaces /\ at \notin OpenPlaces
      BY <2>1 DEF CallPlaces, EarlyPlaces, OpenPlaces, UserPlaces, ChannelPlaces, FilePlaces
    <3>2. \A p \in DOMAIN resp : ~(resp[p] > 0) BY <2>2, <3>1 DEF PlaceInv, NothingReceived
    <3> QED BY <2>1, <3>1, <3>2 DEF Given, Alive
  <2>4. Lost(b) BY <2>2, <2>3 DEF AccountInv
  <2>5. (\E k \in Kinds : err[k] = "NOMEM" /\ object[k] = NULL /\ b = <<k>>) => b \in Forgotten
    BY DEF Forgotten
  <2>6. (\E k \in Kinds : err[k] = "CURL" /\ b \in {<<k, "header">>, <<k, "body">>}) => b \in Forgotten
    BY DEF Forgotten
  <2>7. type = "VOICE" /\ b = <<"channel", "_id">> => b \in Forgotten BY DEF Forgotten
  <2>8. ~clean /\ b \in Owned(Icon, Parts[Icon]) => b \in Forgotten BY DEF Forgotten, Icon
  <2> QED BY <2>4, <2>5, <2>6, <2>7, <2>8 DEF Lost
<1> QED BY <1>1, FetchInvariant, PTL

-----------------------------------------------------------------------------
(* The line from a wrapper, read by position.                                *)
Paths == Seq(Words)
LineShape ==
  \A w \in 0 .. Len(json) :
    /\ Line(w) \in Seq(Paths)
    /\ w = NoWrapper => Line(w) = <<>>
    /\ w # NoWrapper =>
         /\ Len(Line(w)) = Len(Line(json[w].child)) + 1 /\ Line(w)[1] = json[w].val
         /\ \A i \in 1 .. Len(Line(json[w].child)) : Line(w)[i + 1] = Line(json[w].child)[i]

(* A value in front of a line.                                              *)
LEMMA Longer ==
  ASSUME NEW v \in Paths, NEW s \in Seq(Paths)
  PROVE  /\ <<v>> \o s \in Seq(Paths) /\ Len(<<v>> \o s) = Len(s) + 1 /\ (<<v>> \o s)[1] = v
         /\ \A i \in 1 .. Len(s) : (<<v>> \o s)[i + 1] = s[i]
<1>1. <<v>> \in Seq(Paths) /\ Len(<<v>>) = 1 /\ <<v>>[1] = v OBVIOUS
<1>2. Len(s) \in Nat BY LenProperties
<1>3. PICK t : t = <<v>> \o s OBVIOUS
<1>4. /\ t \in Seq(Paths) /\ Len(t) = 1 + Len(s)
      /\ \A i \in 1 .. 1 + Len(s) : t[i] = IF i <= 1 THEN <<v>>[i] ELSE s[i - 1]
  BY <1>1, <1>3, ConcatProperties
<1>5. ASSUME NEW i \in 1 .. Len(s) PROVE t[i + 1] = s[i]
  <2>1. i + 1 \in 1 .. 1 + Len(s) /\ ~(i + 1 <= 1) /\ (i + 1) - 1 = i BY <1>2
  <2> QED BY <2>1, <1>4
<1>6. t[1] = v BY <1>1, <1>2, <1>4
<1> QED BY <1>2, <1>3, <1>4, <1>5, <1>6

(* Lines have that shape.                                                   *)
LEMMA LineShapes == JsonType => LineShape
<1> SUFFICES ASSUME JsonType PROVE LineShape
  OBVIOUS
<1> DEFINE Bad == {u \in 1 .. Len(json) : Line(u) \notin Seq(Paths)}
           Far == {Len(json) - u : u \in Bad}
<1>0. Len(json) \in Nat BY JsonBasics
<1>1. Line(0) = <<>>
  <2>1. 0 \in 0 .. Len(json) BY <1>0
  <2> QED BY <2>1, LineIs DEF NoWrapper
<1>2. ASSUME NEW w \in 1 .. Len(json)
      PROVE  /\ json[w].val \in Paths /\ json[w].child \in {0} \cup (w + 1 .. Len(json))
             /\ Line(w) = <<json[w].val>> \o Line(json[w].child)
  <2>1. w \in 0 .. Len(json) /\ w # NoWrapper BY <1>0 DEF NoWrapper
  <2> QED BY <2>1, JsonBasics, LineIs DEF Paths
<1>3. Bad = {}
  <2>1. SUFFICES ASSUME Bad # {} PROVE FALSE
    OBVIOUS
  <2>2. Far \subseteq Nat /\ Far # {}
    BY <1>0, <2>1
  <2>3. PICK n \in Far : \A m \in Far : n <= m
    <3> HIDE DEF Far
    <3> QED BY <2>2, LeastOf
  <2>4. PICK u \in Bad : n = Len(json) - u
    OBVIOUS
  <2>5. u \in 1 .. Len(json) /\ Line(u) \notin Seq(Paths) OBVIOUS
  <2> DEFINE c == json[u].child
  <2>6. Line(c) \in Seq(Paths)
    <3>1. CASE c = 0
      <4>1. <<>> \in Seq(Paths) BY EmptySeq
      <4> QED BY <3>1, <4>1, <1>1
    <3>2. CASE c # 0
      <4>1. c \in u + 1 .. Len(json) BY <2>5, <1>2, <3>2
      <4>2. c \in 1 .. Len(json) /\ u < c BY <4>1, <2>5, <1>0
      <4> HIDE DEF c
      <4>3. ~(n <= Len(json) - c) BY <4>2, <2>4, <2>5, <1>0
      <4>4. c \notin Bad BY <4>3, <2>3
      <4> QED BY <4>2, <4>4
    <3> QED BY <3>1, <3>2
  <2>7. PICK v \in Paths, s \in Seq(Paths) : v = json[u].val /\ s = Line(c)
    BY <2>5, <2>6, <1>2
  <2>8. Line(u) = <<v>> \o s BY <2>5, <2>7, <1>2
  <2> QED BY <2>5, <2>7, <2>8, Longer
<1>4. \A w \in 1 .. Len(json) : Line(w) \in Seq(Paths) BY <1>3
<1>5. ASSUME NEW w \in 0 .. Len(json)
      PROVE  /\ Line(w) \in Seq(Paths)
             /\ w = NoWrapper => Line(w) = <<>>
             /\ w # NoWrapper =>
                  /\ Len(Line(w)) = Len(Line(json[w].child)) + 1 /\ Line(w)[1] = json[w].val
                  /\ \A i \in 1 .. Len(Line(json[w].child)) : Line(w)[i + 1] = Line(json[w].child)[i]
  <2>1. CASE w = 0
    <3>1. <<>> \in Seq(Paths) BY EmptySeq
    <3> QED BY <2>1, <3>1, <1>1 DEF NoWrapper
  <2>2. CASE w # 0
    <3>1. w \in 1 .. Len(json) BY <2>2, <1>0
    <3> DEFINE c == json[w].child
    <3>2. Line(c) \in Seq(Paths)
      <4>1. c = 0 \/ c \in 1 .. Len(json)
        <5>1. c \in {0} \cup (w + 1 .. Len(json)) BY <3>1, <1>2
        <5> HIDE DEF c
        <5> QED BY <5>1, <3>1, <1>0
      <4>2. <<>> \in Seq(Paths) BY EmptySeq
      <4> HIDE DEF c, Bad
      <4> QED BY <4>1, <4>2, <1>1, <1>4
    <3>3. PICK v \in Paths, s \in Seq(Paths) : v = json[w].val /\ s = Line(c)
      BY <3>1, <3>2, <1>2
    <3>4. Line(w) = <<v>> \o s BY <3>1, <3>3, <1>2
    <3> HIDE DEF Bad
    <3> QED BY <2>2, <3>1, <3>3, <3>4, <1>4, Longer DEF NoWrapper
  <2> QED BY <2>1, <2>2
<1> QED BY <1>5 DEF LineShape

(* A line that was cut behind its member i, and has v there if found.        *)
CutAt(i, before, after, val, found, v) ==
  /\ i \in 1 .. Len(before) /\ before[i] = val
  /\ Len(after) = i + (IF found THEN 1 ELSE 0)
  /\ \A j \in 1 .. i : after[j] = before[j]
  /\ found => after[i + 1] = v
Cut(before, after, val, found, v) == \E i : CutAt(i, before, after, val, found, v)

(* What is cut stays so with one more value in front of it.                 *)
LEMMA CutFurther ==
  ASSUME NEW b, NEW a, NEW bb, NEW aa, NEW val, NEW found, NEW v, NEW i,
         CutAt(i, b, a, val, found, v), Len(b) \in Nat, Len(a) \in Nat,
         Len(bb) = Len(b) + 1, Len(aa) = Len(a) + 1, aa[1] = bb[1],
         \A j \in 1 .. Len(b) : bb[j + 1] = b[j],
         \A j \in 1 .. Len(a) : aa[j + 1] = a[j]
  PROVE  CutAt(i + 1, bb, aa, val, found, v)
<1>1. i \in 1 .. Len(b) /\ b[i] = val /\ found => a[i + 1] = v
  BY DEF CutAt
<1>a. i \in 1 .. Len(b) BY DEF CutAt
<1>2. i + 1 \in 1 .. Len(bb) /\ bb[i + 1] = val BY <1>1, <1>a DEF CutAt
<1>3. CASE found
  <2>1. Len(a) = i + 1 BY <1>3 DEF CutAt
  <2>2. ASSUME NEW j \in 1 .. i + 1 PROVE aa[j] = bb[j]
    <3>1. CASE j = 1 BY <3>1
    <3>2. CASE j # 1
      <4>1. j - 1 \in 1 .. i /\ (j - 1) + 1 = j /\ j - 1 \in 1 .. Len(b) /\ j - 1 \in 1 .. Len(a)
        BY <3>2, <2>1, <1>a
      <4>2. a[j - 1] = b[j - 1] BY <4>1 DEF CutAt
      <4>3. PICK k : k = j - 1 OBVIOUS
      <4>4. aa[k + 1] = a[k] /\ bb[k + 1] = b[k] BY <4>1, <4>3
      <4> QED BY <4>1, <4>2, <4>3, <4>4
    <3> QED BY <3>1, <3>2
  <2>3. aa[(i + 1) + 1] = v
    <3>1. i + 1 \in 1 .. Len(a) /\ a[i + 1] = v BY <2>1, <1>a, <1>3 DEF CutAt
    <3> QED BY <3>1
  <2> QED BY <1>2, <1>3, <2>1, <2>2, <2>3, <1>a DEF CutAt
<1>4. CASE ~found
  <2>1. Len(a) = i BY <1>4, <1>a DEF CutAt
  <2>2. ASSUME NEW j \in 1 .. i + 1 PROVE aa[j] = bb[j]
    <3>1. CASE j = 1 BY <3>1
    <3>2. CASE j # 1
      <4>1. j - 1 \in 1 .. i /\ (j - 1) + 1 = j /\ j - 1 \in 1 .. Len(b) /\ j - 1 \in 1 .. Len(a)
        BY <3>2, <2>1, <1>a
      <4>2. a[j - 1] = b[j - 1] BY <4>1 DEF CutAt
      <4>3. PICK k : k = j - 1 OBVIOUS
      <4>4. aa[k + 1] = a[k] /\ bb[k + 1] = b[k] BY <4>1, <4>3
      <4> QED BY <4>1, <4>2, <4>3, <4>4
    <3> QED BY <3>1, <3>2
  <2> QED BY <1>2, <1>4, <2>1, <2>2, <1>a DEF CutAt
<1> QED BY <1>3, <1>4

(* What a look into w does to the children: c becomes the child of w.        *)
NewChild(w, found, v, c) ==
  /\ c = NoWrapper \/ (found /\ c = Len(json) + 1)
  /\ Len(json') = IF c = NoWrapper THEN Len(json) ELSE c
  /\ json'[w].val = json[w].val /\ json'[w].child = c
  /\ \A u \in 1 .. Len(json) : u # w => json'[u] = json[u]
  /\ c # NoWrapper => json'[c] = [val |-> v, child |-> NoWrapper]

LEMMA ChildrenAre ==
  ASSUME JsonType, NEW w \in 1 .. Len(json), NEW found, NEW v, NEW c,
         revoltc_json_child(w, found, v, c)
  PROVE  NewChild(w, found, v, c)
<1>0. Len(json) \in Nat /\ DOMAIN json = 1 .. Len(json) /\ w # NoWrapper
  BY JsonBasics DEF NoWrapper
<1>1. \A u \in 1 .. Len(json) : json[u] \in [val : Seq(Words), child : Nat]
  BY <1>0, ElementOfSeq DEF JsonType
<1>2. CASE found /\ c = Len(json) + 1
           /\ json' = Append([json EXCEPT ![w].child = c], [val |-> v, child |-> NoWrapper])
  <2>1. PICK upd : upd = [json EXCEPT ![w].child = c] OBVIOUS
  <2>2. PICK rec : rec = [val |-> v, child |-> NoWrapper] OBVIOUS
  <2>3. upd = [u \in 1 .. Len(json) |-> IF u = w THEN [json[w] EXCEPT !.child = c] ELSE json[u]]
    BY <1>0, <2>1, JsonType DEF JsonType
  <2>4. Len(upd) = Len(json) BY <2>3, <1>0
  <2>5. json' = Append(upd, rec) BY <1>2, <2>1, <2>2
  <2>6. json' = [u \in 1 .. Len(json) + 1 |-> IF u = Len(json) + 1 THEN rec ELSE upd[u]]
    BY <2>3, <2>4, <2>5, <1>0
  <2>7. Len(json') = Len(json) + 1 BY <2>6, <1>0
  <2>8. \A u \in 1 .. Len(json) : json'[u] = upd[u]
    <3>1. ASSUME NEW u \in 1 .. Len(json) PROVE json'[u] = upd[u]
      <4>1. u \in 1 .. Len(json) + 1 /\ u # Len(json) + 1 BY <1>0
      <4> QED BY <4>1, <2>6
    <3> QED BY <3>1
  <2>9. json'[c] = rec BY <1>2, <2>6, <1>0
  <2>10. c # NoWrapper BY <1>2, <1>0 DEF NoWrapper
  <2>11. json'[w].val = json[w].val /\ json'[w].child = c BY <1>1, <2>3, <2>8
  <2> QED BY <1>2, <2>2, <2>3, <2>7, <2>8, <2>9, <2>10, <2>11 DEF NewChild
<1>3. CASE c = NoWrapper /\ json' = [json EXCEPT ![w].child = NoWrapper]
  <2>1. json' = [u \in 1 .. Len(json) |->
                   IF u = w THEN [json[w] EXCEPT !.child = NoWrapper] ELSE json[u]]
    BY <1>0, <1>3, JsonType DEF JsonType
  <2>2. Len(json') = Len(json) BY <2>1, <1>0
  <2>3. json'[w].val = json[w].val /\ json'[w].child = c BY <1>1, <1>3, <2>1
  <2> QED BY <1>3, <2>1, <2>2, <2>3 DEF NewChild
<1> QED BY <1>0, <1>2, <1>3 DEF revoltc_json_child

(* The line from u, which is w or before it, is cut behind w.                *)
LEMMA LineCut ==
  ASSUME JsonType, Linked, NEW w \in InUse, NEW found, NEW v, found => v \in Seq(Words), NEW c,
         revoltc_json_child(w, found, v, c), NEW u \in InUse, u <= w
  PROVE  Cut(Line(u), Line(u)', json[w].val, c # NoWrapper, v)
<1>1. Looked(w, v, c) BY ChildLooks
<1>2. JsonType' BY <1>1 DEF Looked
<1>3. LineShape BY LineShapes
<1>4. LineShape'
  <2>1. JsonType' => LineShape' BY LineShapes, PTL
  <2> QED BY <1>2, <2>1
<1>5. Len(json) \in Nat BY JsonBasics
<1>6. w \in 1 .. Len(json) /\ w # NoWrapper /\ json[w].child \in 0 .. Len(json) BY InUseTyped
<1>7. /\ c = NoWrapper \/ (found /\ c = Len(json) + 1)
      /\ Len(json') = IF c = NoWrapper THEN Len(json) ELSE c
      /\ json'[w].val = json[w].val /\ json'[w].child = c
      /\ \A x \in 1 .. Len(json) : x # w => json'[x] = json[x]
      /\ c # NoWrapper => json'[c] = [val |-> v, child |-> NoWrapper]
  <2>1. NewChild(w, found, v, c) BY <1>6, ChildrenAre
  <2> QED BY <2>1 DEF NewChild
<1>8. PICK B : B = [x \in 0 .. Len(json) |-> Line(x)] OBVIOUS
<1>9. PICK A : A = [x \in 0 .. Len(json') |-> Line(x)'] OBVIOUS
<1>10. ASSUME NEW x \in 0 .. Len(json)
       PROVE  /\ B[x] \in Seq(Paths)
              /\ x # NoWrapper =>
                   /\ Len(B[x]) = Len(B[json[x].child]) + 1 /\ B[x][1] = json[x].val
                   /\ \A i \in 1 .. Len(B[json[x].child]) : B[x][i + 1] = B[json[x].child][i]
  <2>1. x # NoWrapper => x \in 1 .. Len(json) BY <1>5 DEF NoWrapper
  <2>2. x # NoWrapper => json[x].child \in 0 .. Len(json)
    <3>1. x # NoWrapper => json[x].child \in {0} \cup (x + 1 .. Len(json)) BY <2>1, JsonBasics
    <3> QED BY <3>1, <1>5
  <2> QED BY <1>3, <1>8, <2>2 DEF LineShape
<1>11. ASSUME NEW x \in 0 .. Len(json')
       PROVE  /\ A[x] \in Seq(Paths) /\ (x = NoWrapper => A[x] = <<>>)
              /\ x # NoWrapper =>
                   /\ Len(A[x]) = Len(A[json'[x].child]) + 1 /\ A[x][1] = json'[x].val
                   /\ \A i \in 1 .. Len(A[json'[x].child]) : A[x][i + 1] = A[json'[x].child][i]
  <2>0. Len(json') \in Nat BY <1>5, <1>7
  <2>1. x # NoWrapper => x \in DOMAIN json'
    <3>1. DOMAIN json' = 1 .. Len(json') BY <1>2, LenProperties DEF JsonType
    <3> QED BY <3>1, <2>0 DEF NoWrapper
  <2>2. x # NoWrapper => json'[x].child \in 0 .. Len(json')
    <3>1. x # NoWrapper => json'[x].child \in {NoWrapper} \cup (x + 1 .. Len(json'))
      BY <1>2, <2>1 DEF JsonType
    <3> QED BY <3>1, <2>0 DEF NoWrapper
  <2> QED BY <1>4, <1>9, <2>2 DEF LineShape
<1>12. \A x \in InUse : x \in 1 .. Len(json) /\ x \in 0 .. Len(json) /\ x \in 0 .. Len(json') /\ x # NoWrapper
  <2>1. \A x \in InUse : x \in 1 .. Len(json) /\ x # NoWrapper BY InUseTyped
  <2> QED BY <2>1, <1>5, <1>7
<1> DEFINE Good(x) == Cut(B[x], A[x], json[w].val, c # NoWrapper, v)
<1>13. Good(w)
  <2>0. /\ w \in 0 .. Len(json) /\ w \in 0 .. Len(json') /\ c \in 0 .. Len(json')
    BY <1>5, <1>7, <1>12 DEF NoWrapper
  <2>1. /\ Len(B[w]) \in Nat /\ Len(B[w]) >= 1 /\ B[w][1] = json[w].val
    <3>1. json[w].child \in 0 .. Len(json) BY <1>6
    <3>2. B[w] \in Seq(Paths) /\ B[json[w].child] \in Seq(Paths) BY <2>0, <3>1, <1>10
    <3>3. Len(B[w]) = Len(B[json[w].child]) + 1 /\ B[w][1] = json[w].val BY <2>0, <1>6, <1>10
    <3>4. Len(B[w]) \in Nat /\ Len(B[json[w].child]) \in Nat BY <3>2, LenProperties
    <3> QED BY <3>3, <3>4
  <2>2. /\ Len(A[w]) = Len(A[c]) + 1 /\ A[w][1] = json[w].val
        /\ \A i \in 1 .. Len(A[c]) : A[w][i + 1] = A[c][i]
    BY <2>0, <1>6, <1>7, <1>11
  <2>3. CASE c = NoWrapper
    <3>1. A[c] = <<>> BY <2>0, <2>3, <1>11
    <3>2. Len(A[w]) = 1 BY <2>2, <3>1
    <3> QED BY <2>1, <2>2, <2>3, <3>2 DEF Cut, CutAt
  <2>4. CASE c # NoWrapper
    <3>1. json'[c].child = NoWrapper /\ json'[c].val = v BY <2>4, <1>7
    <3>2. A[NoWrapper] = <<>>
      <4>1. NoWrapper \in 0 .. Len(json') BY <1>5, <1>7 DEF NoWrapper
      <4> QED BY <4>1, <1>11
    <3>3. Len(A[c]) = Len(A[NoWrapper]) + 1 /\ A[c][1] = v BY <2>0, <2>4, <3>1, <1>11
    <3>4. Len(A[c]) = 1 BY <3>2, <3>3
    <3>5. Len(A[w]) = 2 /\ A[w][1 + 1] = v BY <2>2, <3>3, <3>4
    <3> QED BY <2>1, <2>2, <2>4, <3>5 DEF Cut, CutAt
  <2> QED BY <2>3, <2>4
<1>14. ASSUME NEW x \in InUse, x < w, Good(json[x].child) PROVE Good(x)
  <2>1. /\ json'[x] = json[x] /\ json[x].child \in 1 .. Len(json)
    <3>1. json[x].child # NoWrapper /\ json[x].child \in InUse BY <1>14 DEF Linked
    <3>2. x # w BY <1>12, <1>14
    <3> QED BY <3>1, <3>2, <1>7, <1>12
  <2>2. PICK y : y = json[x].child OBVIOUS
  <2>3. y \in 0 .. Len(json) /\ y \in 0 .. Len(json') BY <2>1, <2>2, <1>5, <1>7
  <2>4. PICK b, a, bb, aa : b = B[y] /\ a = A[y] /\ bb = B[x] /\ aa = A[x] OBVIOUS
  <2>5. /\ Len(bb) = Len(b) + 1 /\ bb[1] = json[x].val
        /\ \A i \in 1 .. Len(b) : bb[i + 1] = b[i]
    BY <2>2, <2>4, <1>10, <1>12
  <2>6. /\ Len(aa) = Len(a) + 1 /\ aa[1] = json[x].val
        /\ \A i \in 1 .. Len(a) : aa[i + 1] = a[i]
    <3>1. json'[x].child = y /\ json'[x].val = json[x].val BY <2>1, <2>2
    <3>2. x \in 0 .. Len(json') /\ x # NoWrapper BY <1>12
    <3>3. /\ Len(A[x]) = Len(A[y]) + 1 /\ A[x][1] = json[x].val
          /\ \A i \in 1 .. Len(A[y]) : A[x][i + 1] = A[y][i]
      BY <3>1, <3>2, <1>11
    <3> QED BY <3>3, <2>4
  <2>7. Len(b) \in Nat /\ Len(a) \in Nat
    <3>1. b \in Seq(Paths) /\ a \in Seq(Paths) BY <2>3, <2>4, <1>10, <1>11
    <3> QED BY <3>1, LenProperties
  <2>8. PICK i : CutAt(i, b, a, json[w].val, c # NoWrapper, v)
    BY <1>14, <2>2, <2>4 DEF Cut
  <2>9. PICK val, found1 : val = json[w].val /\ found1 = (c # NoWrapper) OBVIOUS
  <2>10. CutAt(i, b, a, val, found1, v) BY <2>8, <2>9
  <2>11. aa[1] = bb[1] BY <2>5, <2>6
  <2>12. CutAt(i + 1, bb, aa, val, found1, v)
    <3> HIDE DEF Good
    <3> QED BY <2>5, <2>6, <2>7, <2>10, <2>11, CutFurther
  <2> QED BY <2>4, <2>9, <2>12 DEF Cut
<1> HIDE DEF Good
<1> DEFINE Bad == {x \in InUse : x <= w /\ ~Good(x)}
           Far == {w - x : x \in Bad}
<1>15. Bad = {}
  <2>1. SUFFICES ASSUME Bad # {} PROVE FALSE
    OBVIOUS
  <2>2. Far \subseteq Nat /\ Far # {}
    <3>1. \A x \in Bad : x <= w /\ x \in 1 .. Len(json) /\ w \in 1 .. Len(json) BY <1>6, <1>12
    <3> HIDE DEF Bad
    <3> QED BY <1>5, <2>1, <3>1
  <2>3. PICK n \in Far : \A m \in Far : n <= m
    <3> HIDE DEF Far
    <3> QED BY <2>2, LeastOf
  <2>4. PICK x \in Bad : n = w - x
    OBVIOUS
  <2>5. x \in InUse /\ x <= w /\ ~Good(x) /\ x # w /\ x \in 1 .. Len(json) BY <1>12, <1>13
  <2>6. x < w BY <2>5, <1>5, <1>6
  <2>7. PICK y : y = json[x].child OBVIOUS
  <2>8. y \in InUse /\ x < y /\ y <= w
    <3>1. y # NoWrapper /\ y \in InUse /\ y <= w BY <2>5, <2>6, <2>7 DEF Linked
    <3>2. x < y BY <2>5, <2>7, <3>1, InUseTyped
    <3> QED BY <3>1, <3>2
  <2>9. ~(n <= w - y)
    <3>1. y \in 1 .. Len(json) BY <2>8, <1>12
    <3> HIDE DEF Bad, Far
    <3> QED BY <2>4, <2>5, <2>8, <3>1, <1>5, <1>6
  <2>10. y \notin Bad
    <3> HIDE DEF Bad
    <3> QED BY <2>3, <2>9
  <2>11. Good(y) BY <2>8, <2>10
  <2> QED BY <2>5, <2>6, <2>7, <2>11, <1>14
<1>16. Good(u) BY <1>15
<1>17. B[u] = Line(u) /\ A[u] = Line(u)' BY <1>8, <1>9, <1>12
<1> QED BY <1>16, <1>17 DEF Good

(* The line, as Cursor sees it.                                              *)
LineNow == IF root = NoWrapper THEN <<>> ELSE Line(root)

(* Lines depend on the wrappers alone.                                      *)
LEMMA LineSame == ASSUME json' = json, NEW w PROVE Line(w)' = Line(w)
BY DEF Line

LEMMA LineNowSame ==
  ASSUME json' = json, root' = root PROVE LineNow' = LineNow
BY LineSame DEF LineNow

(* A line that was cut is what Cursor calls a look.                          *)
LEMMA CutIsLook ==
  ASSUME NEW before \in Seq(Paths), NEW after \in Seq(Paths), NEW val, NEW found, NEW v,
         Cut(before, after, val, found, v),
         found => Reading!PartOf(v, val) \/ Reading!SameArray(v, val)
  PROVE  \E i \in DOMAIN before :
           \/ after = SubSeq(before, 1, i)
           \/ /\ Len(after) = i + 1 /\ SubSeq(after, 1, i) = SubSeq(before, 1, i)
              /\ Reading!PartOf(after[i + 1], before[i]) \/ Reading!SameArray(after[i + 1], before[i])
<1>1. PICK i : CutAt(i, before, after, val, found, v)
  BY DEF Cut
<1>2. /\ i \in 1 .. Len(before) /\ i \in DOMAIN before /\ Len(before) \in Nat /\ i <= Len(after)
      /\ Len(after) \in Nat
  <2>1. Len(before) \in Nat /\ DOMAIN before = 1 .. Len(before) /\ Len(after) \in Nat
    BY LenProperties
  <2>2. i \in 1 .. Len(before) BY <1>1 DEF CutAt
  <2>3. Len(after) = i \/ Len(after) = i + 1 BY <1>1, <2>2 DEF CutAt
  <2> QED BY <2>1, <2>2, <2>3
<1>3. before[i] = val /\ \A j \in 1 .. i : after[j] = before[j] BY <1>1 DEF CutAt
<1>4. PICK s : s = SubSeq(before, 1, i) OBVIOUS
<1>5. s \in Seq(Paths) /\ Len(s) = i /\ \A j \in 1 .. i : s[j] = before[j]
  <2>1. \A j \in 1 .. i : before[j] \in Paths
    <3>1. \A j \in 1 .. i : j \in 1 .. Len(before) BY <1>2
    <3> QED BY <3>1, ElementOfSeq
  <2>2. 1 \in Int /\ i \in Int /\ 1 <= i /\ i - 1 + 1 = i BY <1>2
  <2>3. \A j \in 1 .. i : 1 + j - 1 = j BY <1>2
  <2>4. s \in Seq(Paths) /\ Len(s) = (IF 1 <= i THEN i - 1 + 1 ELSE 0)
        /\ \A j \in 1 .. i - 1 + 1 : s[j] = before[1 + j - 1]
    BY <1>4, <2>1, <2>2, SubSeqProperties
  <2> QED BY <2>2, <2>3, <2>4
<1>6. CASE ~found
  <2>1. Len(after) = i BY <1>1, <1>2, <1>6 DEF CutAt
  <2>2. \A j \in 1 .. Len(after) : after[j] = s[j] BY <1>3, <1>5, <2>1
  <2>3. after = s BY <1>5, <2>1, <2>2, SeqEqual
  <2> QED BY <1>2, <1>4, <2>3
<1>7. CASE found
  <2>1. Len(after) = i + 1 /\ after[i + 1] = v BY <1>1, <1>2, <1>7 DEF CutAt
  <2>2. PICK t : t = SubSeq(after, 1, i) OBVIOUS
  <2>3. t \in Seq(Paths) /\ Len(t) = i /\ \A j \in 1 .. i : t[j] = after[j]
    <3>1. \A j \in 1 .. i : after[j] \in Paths
      <4>1. \A j \in 1 .. i : j \in 1 .. Len(after) BY <1>2
      <4> QED BY <4>1, ElementOfSeq
    <3>2. 1 \in Int /\ i \in Int /\ 1 <= i /\ i - 1 + 1 = i BY <1>2
    <3>3. \A j \in 1 .. i : 1 + j - 1 = j BY <1>2
    <3>4. t \in Seq(Paths) /\ Len(t) = (IF 1 <= i THEN i - 1 + 1 ELSE 0)
          /\ \A j \in 1 .. i - 1 + 1 : t[j] = after[1 + j - 1]
      BY <2>2, <3>1, <3>2, SubSeqProperties
    <3> QED BY <3>2, <3>3, <3>4
  <2>4. \A j \in 1 .. Len(t) : t[j] = s[j] BY <1>3, <1>5, <2>3
  <2>5. t = s BY <1>5, <2>3, <2>4, SeqEqual
  <2> QED BY <1>2, <1>3, <1>4, <1>7, <2>1, <2>2, <2>5
<1> QED BY <1>6, <1>7

(* A look into a wrapper in use is a look of Cursor.                         *)
LEMMA LookReads ==
  ASSUME JsonType, Linked, 1 \in InUse, root = 1, root' = 1,
         NEW w \in InUse, NEW found, NEW v, found => v \in Seq(Words), NEW c,
         revoltc_json_child(w, found, v, c),
         c # NoWrapper => Reading!PartOf(v, json[w].val) \/ Reading!SameArray(v, json[w].val)
  PROVE  Reading!Look
<1>1. PICK val, there : val = json[w].val /\ there = (c # NoWrapper) OBVIOUS
<1>2. Cut(Line(1), Line(1)', val, there, v)
  <2>1. 1 <= w
    <3>1. w \in 1 .. Len(json) /\ Len(json) \in Nat BY InUseTyped, JsonBasics
    <3> QED BY <3>1
  <2> QED BY <1>1, <2>1, LineCut
<1>3. Line(1) \in Seq(Paths) /\ Line(1)' \in Seq(Paths)
  <2>1. LineShape BY LineShapes
  <2>2. JsonType' BY ChildLooks DEF Looked
  <2>3. LineShape'
    <3>1. JsonType' => LineShape' BY LineShapes, PTL
    <3> QED BY <2>2, <3>1
  <2>4. 1 \in 0 .. Len(json) /\ 1 \in 0 .. Len(json')
    <3>1. 1 \in DOMAIN json /\ 1 \in DOMAIN json' BY ChildLooks DEF Looked, InUse
    <3>2. DOMAIN json = 1 .. Len(json) /\ DOMAIN json' = 1 .. Len(json') /\ Len(json) \in Nat /\ Len(json') \in Nat
      BY <2>2, LenProperties DEF JsonType
    <3> QED BY <3>1, <3>2
  <2> QED BY <2>1, <2>3, <2>4 DEF LineShape
<1>4. PICK before, after : before = LineNow /\ after = LineNow' OBVIOUS
<1>5. before = Line(1) /\ after = Line(1)' BY <1>4 DEF LineNow, NoWrapper
<1>6. \E i \in DOMAIN before :
           \/ after = SubSeq(before, 1, i)
           \/ /\ Len(after) = i + 1 /\ SubSeq(after, 1, i) = SubSeq(before, 1, i)
              /\ Reading!PartOf(after[i + 1], before[i]) \/ Reading!SameArray(after[i + 1], before[i])
  <2>1. before \in Seq(Paths) /\ after \in Seq(Paths) BY <1>3, <1>5
  <2>2. Cut(before, after, val, there, v) BY <1>2, <1>5
  <2>3. there => Reading!PartOf(v, val) \/ Reading!SameArray(v, val) BY <1>1
  <2> QED BY <2>1, <2>2, <2>3, CutIsLook
<1> QED BY <1>4, <1>6 DEF Reading!Look, LineNow

(* What is found by a key is a part of what it is looked up in.              *)
LEMMA PartBehind ==
  ASSUME NEW val \in Seq(Words), NEW key \in Seq(Words), Len(key) > 0
  PROVE  Reading!PartOf(val \o key, val)
<1>1. Len(val) \in Nat /\ Len(key) \in Nat BY LenProperties
<1>2. Len(val \o key) = Len(val) + Len(key) BY ConcatProperties
<1>3. SubSeq(val \o key, 1, Len(val)) = val
  <2>1. CASE Len(val) = 0
    <3>1. \A i \in 1 .. Len(val) : (val \o key)[i] \in Words BY <2>1
    <3>2. PICK t : t = SubSeq(val \o key, 1, Len(val)) OBVIOUS
    <3>3. 1 \in Int /\ Len(val) \in Int /\ Len(val) < 1 BY <1>1, <2>1
    <3>4. t = <<>> BY <3>2, <3>3, SubSeqEmpty
    <3>5. val = <<>>
      <4>1. \A i \in 1 .. Len(val) : val[i] = <<>>[i] BY <2>1
      <4>2. <<>> \in Seq(Words) /\ Len(<<>>) = 0 BY EmptySeq
      <4> QED BY <2>1, <4>1, <4>2, SeqEqual
    <3> QED BY <3>2, <3>4, <3>5
  <2>2. CASE Len(val) > 0
    <3>1. 1 \in 1 .. Len(val) /\ Len(val) \in 1 .. Len(val) BY <1>1, <2>2
    <3>2. SubSeq(val \o key, 1, Len(val)) = SubSeq(val, 1, Len(val)) BY <3>1, SubSeqOfConcat1
    <3> QED BY <3>2, SubSeqFull
  <2> QED BY <1>1, <2>1, <2>2
<1>4. Len(val) < Len(val) + Len(key) BY <1>1
<1> QED BY <1>2, <1>3, <1>4 DEF Reading!PartOf

(* An element is a part of its array, and next to the others.               *)
LEMMA Neighbours ==
  ASSUME NEW a \in Words, NEW b \in Words, NEW c \in Words
  PROVE  Reading!PartOf(<<a, b>>, <<a>>) /\ Reading!SameArray(<<a, c>>, <<a, b>>)
<1>1. Reading!PartOf(<<a, b>>, <<a>>)
  <2>1. <<a>> \in Seq(Words) /\ <<b>> \in Seq(Words) /\ Len(<<b>>) = 1 BY OneOf
  <2>2. PICK v, key : v = <<a>> /\ key = <<b>> OBVIOUS
  <2>3. v \in Seq(Words) /\ key \in Seq(Words) /\ Len(key) > 0
    <3>1. Len(key) = 1 BY <2>1, <2>2
    <3> QED BY <2>1, <2>2, <3>1
  <2>5. Reading!PartOf(v \o key, v) BY <2>3, PartBehind
  <2>4. v \o key = <<a, b>> BY <2>2, TwoOf
  <2> QED BY <2>2, <2>4, <2>5
<1>2. ASSUME NEW x \in Words PROVE SubSeq(<<a, x>>, 1, 1) = <<a>>
  <2>1. PICK v : v = <<a, x>> OBVIOUS
  <2>2. v[1] = a BY <2>1
  <2>3. PICK t : t = SubSeq(v, 1, 1) OBVIOUS
  <2>4. \A i \in 1 .. 1 : v[i] \in Words BY <2>2
  <2>5. t \in Seq(Words) /\ Len(t) = 1 /\ t[1] = v[1] BY <2>3, <2>4, SubSeqProperties
  <2>6. PICK u : u = <<a>> OBVIOUS
  <2>7. u \in Seq(Words) /\ Len(u) = 1 /\ u[1] = a BY <2>6, OneOf
  <2>8. \A i \in 1 .. Len(t) : t[i] = u[i] BY <2>2, <2>5, <2>7
  <2> QED BY <2>1, <2>3, <2>5, <2>6, <2>7, <2>8, SeqEqual
<1>3. Len(<<a, c>>) = 2 /\ Len(<<a, b>>) = 2 /\ <<a, b>> # <<>> OBVIOUS
<1>4. SubSeq(<<a, c>>, 1, 2 - 1) = SubSeq(<<a, b>>, 1, 2 - 1)
  <2>1. SubSeq(<<a, c>>, 1, 1) = SubSeq(<<a, b>>, 1, 1) BY <1>2
  <2> QED BY <2>1
<1> QED BY <1>1, <1>3, <1>4 DEF Reading!SameArray

(* An object is looked up by a key of one word.                              *)
LEMMA ObjectReads ==
  ASSUME JsonType, Linked, 1 \in InUse, root = 1, root' = 1, NEW w \in InUse,
         NEW a \in Words, NEW c, revoltc_json_get_obj(w, <<a>>, c)
  PROVE  Reading!Look
<1>1. PICK key : key = <<a>> OBVIOUS
<1>2. key \in Seq(Words) /\ Len(key) = 1 BY <1>1, OneOf
<1>3. PICK val : val = json[w].val /\ val \in Seq(Words) BY InUseTyped, JsonBasics
<1>4. PICK v : v = At(w, key) OBVIOUS
<1>5. v \in Seq(Words) /\ v = val \o key BY <1>2, <1>3, <1>4, AtTyped
<1>6. Reading!PartOf(v, val)
  <2>1. Len(key) > 0 BY <1>2
  <2> QED BY <1>2, <1>3, <1>5, <2>1, PartBehind
<1>7. PICK found : revoltc_json_child(w, found, v, c) BY <1>1, <1>4 DEF revoltc_json_get_obj
<1>8. c # NoWrapper => Reading!PartOf(v, json[w].val) \/ Reading!SameArray(v, json[w].val) BY <1>3, <1>6
<1> QED BY <1>5, <1>7, <1>8, LookReads

(* The first relation is a part of the array, and each one follows the one   *)
(* before it.                                                                *)
LEMMA FirstElementReads ==
  ASSUME PlaceInv, DocInv, WrapperInv, FirstRelation
  PROVE  Reading!Look \/ LineNow' = LineNow
<1>1. /\ root = 1 /\ root' = 1 /\ 1 \in InUse /\ buf # NoWrapper /\ buf \in InUse
      /\ JsonType /\ Linked /\ json[buf].val = <<"relations">>
      /\ at \in OpenPlaces /\ IsArray(<<"relations">>)
  <2>1. at = "first" /\ root' = root BY DEF FirstRelation, Finds
  <2>2. at \in OpenPlaces BY <2>1 DEF OpenPlaces, UserPlaces
  <2>3. root = 1 BY <2>2 DEF PlaceInv
  <2>4. IsArray(<<"relations">>) BY <2>1 DEF DocInv
  <2>5. /\ JsonType /\ Linked /\ 1 \in InUse /\ buf # NoWrapper /\ buf \in InUse
        /\ json[buf].val = <<"relations">>
    BY <2>1, <2>2 DEF WrapperInv
  <2> QED BY <2>1, <2>2, <2>3, <2>4, <2>5
<1>2. PICK v : v = Element(<<"relations">>, 1) OBVIOUS
<1>3. PICK c : revoltc_json_child(buf, v # <<>>, v, c)
  BY <1>1, <1>2 DEF FirstRelation, revoltc_json_arr_get
<1>4. v = (IF 1 <= max THEN <<"relations", doc.arrays[<<"relations">>][1]>> ELSE <<>>)
      /\ v \in Seq(Words)
  BY <1>1, <1>2, ElementIs
<1>5. PICK found : found = (v # <<>>) OBVIOUS
<1>6. c # NoWrapper => found BY <1>1, <1>3, <1>5 DEF revoltc_json_child
<1>7. v # <<>> => Reading!PartOf(v, json[buf].val)
  <2>1. SUFFICES ASSUME v # <<>> PROVE Reading!PartOf(v, json[buf].val)
    OBVIOUS
  <2>2. PICK b : b = doc.arrays[<<"relations">>][1] OBVIOUS
  <2>3. v = <<"relations", b>> BY <1>4, <2>1, <2>2
  <2>4. b \in Words
    <3>1. 2 \in 1 .. Len(v) /\ v[2] = b BY <2>3
    <3> QED BY <1>4, <3>1, ElementOfSeq
  <2>5. "relations" \in Words BY DEF Words, Literals
  <2> QED BY <1>1, <2>3, <2>4, <2>5, Neighbours
<1>8. revoltc_json_child(buf, found, v, c) BY <1>3, <1>5
<1>9. c # NoWrapper => Reading!PartOf(v, json[buf].val) \/ Reading!SameArray(v, json[buf].val)
  BY <1>5, <1>6, <1>7
<1> QED BY <1>1, <1>4, <1>8, <1>9, LookReads

LEMMA NextElementReads ==
  ASSUME PlaceInv, DocInv, WrapperInv, NextRelation
  PROVE  Reading!Look \/ LineNow' = LineNow
<1>1. /\ root = 1 /\ root' = 1 /\ 1 \in InUse /\ buf \in InUse \cup {NoWrapper}
      /\ JsonType /\ Linked /\ count \in Nat
      /\ at = "next" /\ at \in OpenPlaces /\ IsArray(<<"relations">>)
  BY DEF NextRelation, Finds, PlaceInv, DocInv, WrapperInv, OpenPlaces, UserPlaces, InRelations
<1>2. PICK c : revoltc_json_unsafe_next(buf, c)
  BY DEF NextRelation
<1>3. CASE buf = NoWrapper
  <2>1. json' = json BY <1>2, <1>3 DEF revoltc_json_unsafe_next, revoltc_json_child, jvars
  <2> QED BY <1>1, <2>1, LineNowSame
<1>4. CASE buf # NoWrapper
  <2>1. buf \in InUse BY <1>1, <1>4
  <2>2. PICK v : v = Element(<<"relations">>, count + 2) OBVIOUS
  <2>3. revoltc_json_child(buf, v # <<>>, v, c)
    BY <1>1, <1>2, <1>4, <2>2, FollowingIs DEF revoltc_json_unsafe_next
  <2>4. v = (IF count + 2 <= max THEN <<"relations", doc.arrays[<<"relations">>][count + 2]>> ELSE <<>>)
        /\ v \in Seq(Words)
    BY <1>1, <2>2, ElementIs
  <2>5. PICK found : found = (v # <<>>) OBVIOUS
  <2>6. c # NoWrapper => found BY <1>4, <2>3, <2>5 DEF revoltc_json_child
  <2>7. v # <<>> => Reading!SameArray(v, json[buf].val)
    <3>1. SUFFICES ASSUME v # <<>> PROVE Reading!SameArray(v, json[buf].val)
      OBVIOUS
    <3>2. PICK b, e : b = doc.arrays[<<"relations">>][count + 2] /\ e = doc.arrays[<<"relations">>][count + 1]
      OBVIOUS
    <3>3. v = <<"relations", b>> BY <2>4, <3>1, <3>2
    <3>4. b \in Words
      <4>1. 2 \in 1 .. Len(v) /\ v[2] = b BY <3>3
      <4> QED BY <2>4, <4>1, ElementOfSeq
    <3>5. PICK val : val = json[buf].val /\ val \in Seq(Words) BY <1>1, <2>1, InUseTyped, JsonBasics
    <3>6. val = <<"relations", e>> BY <1>1, <1>4, <3>2, <3>5 DEF WrapperInv, InRelations
    <3>7. e \in Words
      <4>1. 2 \in 1 .. Len(val) /\ val[2] = e BY <3>6
      <4> QED BY <3>5, <4>1, ElementOfSeq
    <3>8. "relations" \in Words BY DEF Words, Literals
    <3> QED BY <3>3, <3>4, <3>5, <3>6, <3>7, <3>8, Neighbours
  <2>8. revoltc_json_child(buf, found, v, c) BY <2>3, <2>5
  <2>9. c # NoWrapper => Reading!PartOf(v, json[buf].val) \/ Reading!SameArray(v, json[buf].val)
    BY <2>5, <2>6, <2>7
  <2> QED BY <1>1, <2>1, <2>4, <2>8, <2>9, LookReads
<1> QED BY <1>3, <1>4

(* Each look of the deserialisers is one of Cursor, or finds no wrapper to   *)
(* look into.                                                                *)
LEMMA AnyLookReads ==
  ASSUME Core, Looks
  PROVE  Reading!Look \/ LineNow' = LineNow
<1>1. PlaceInv /\ DocInv /\ WrapperInv BY DEF Core
<1>2. CASE GetFile
  <2>1. /\ root = 1 /\ root' = 1 /\ 1 \in InUse /\ at \in {"avatar", "icon"} /\ JsonType /\ Linked
    BY <1>1, <1>2 DEF GetFile, Finds, PlaceInv, WrapperInv, OpenPlaces, UserPlaces, ChannelPlaces
  <2>2. at \in Words BY <2>1 DEF Words, Literals
  <2>3. PICK c : revoltc_json_get_obj(1, <<at>>, c) BY <1>2, <2>1 DEF GetFile
  <2> QED BY <2>1, <2>2, <2>3, ObjectReads
<1>3. CASE GetMetadata
  <2>1. /\ root = 1 /\ root' = 1 /\ 1 \in InUse /\ file \in InUse /\ JsonType /\ Linked
    BY <1>1, <1>3 DEF GetMetadata, Finds, PlaceInv, WrapperInv, OpenPlaces, FilePlaces
  <2>2. "metadata" \in Words BY DEF Words, Literals
  <2>3. PICK c : revoltc_json_get_obj(file, <<"metadata">>, c) BY <1>3 DEF GetMetadata
  <2> QED BY <2>1, <2>2, <2>3, ObjectReads
<1>4. CASE GetRelations
  <2>1. /\ root = 1 /\ root' = 1 /\ 1 \in InUse /\ JsonType /\ Linked
    BY <1>1, <1>4 DEF GetRelations, Finds, PlaceInv, WrapperInv, OpenPlaces, UserPlaces
  <2>2. "relations" \in Words BY DEF Words, Literals
  <2>3. PICK c : revoltc_json_get_obj(1, <<"relations">>, c)
    BY <1>4, <2>1 DEF GetRelations, revoltc_json_get_arr
  <2> QED BY <2>1, <2>2, <2>3, ObjectReads
<1>5. CASE FirstRelation BY <1>1, <1>5, FirstElementReads
<1>6. CASE NextRelation BY <1>1, <1>6, NextElementReads
<1> QED BY <1>2, <1>3, <1>4, <1>5, <1>6 DEF Looks

(* Parsing opens the document: its root is all that was reached.             *)
LEMMA ParseOpens ==
  ASSUME Core, Deserialize
  PROVE  Reading!Open \/ LineNow' = LineNow
<1>1. at = "deserialize" /\ PlaceInv BY DEF Core, Deserialize
<1>2. root = NoWrapper
  <2>1. at \notin OpenPlaces BY <1>1 DEF OpenPlaces, UserPlaces, ChannelPlaces, FilePlaces
  <2> QED BY <1>1, <2>1 DEF PlaceInv
<1>3. LineNow = <<>> BY <1>2 DEF LineNow
<1>4. CASE root' = NoWrapper
  <2>1. LineNow' = <<>> BY <1>4 DEF LineNow
  <2> QED BY <1>3, <2>1
<1>5. CASE root' # NoWrapper
  <2>1. PICK r, w : revoltc_json_parse(body, r, w) /\ root' = w BY <1>2, <1>5 DEF Deserialize
  <2>2. root' = 1 /\ json' = << [val |-> <<>>, child |-> NoWrapper] >>
    BY <1>5, <2>1 DEF revoltc_json_parse
  <2>3. JsonType'
    <3>1. <<>> \in Seq(Words) BY EmptySeq
    <3>2. PICK j : j = [val |-> <<>>, child |-> NoWrapper] OBVIOUS
    <3>3. j \in [val : Seq(Words), child : Nat] BY <3>1, <3>2 DEF NoWrapper
    <3>4. json' = <<j>> BY <2>2, <3>2
    <3>5. json' \in Seq([val : Seq(Words), child : Nat]) /\ DOMAIN json' = {1} /\ json'[1] = j
      BY <3>3, <3>4
    <3> QED BY <3>2, <3>5 DEF JsonType
  <2>4. LineShape'
    <3>1. JsonType' => LineShape' BY LineShapes, PTL
    <3> QED BY <2>3, <3>1
  <2>5. /\ Len(json') = 1 /\ json'[1].val = <<>> /\ json'[1].child = 0
    BY <2>2 DEF NoWrapper
  <2>6. PICK l, rest : l = Line(1)' /\ rest = Line(0)' OBVIOUS
  <2>7. 1 \in 0 .. 1 /\ 0 \in 0 .. 1 OBVIOUS
  <2>8. rest = <<>> BY <2>4, <2>5, <2>6, <2>7 DEF LineShape, NoWrapper
  <2>9. l \in Seq(Paths) /\ Len(l) = Len(rest) + 1 /\ l[1] = <<>>
    BY <2>4, <2>5, <2>6, <2>7 DEF LineShape, NoWrapper
  <2>10. l = << <<>> >>
    <3>1. Len(l) = 1 BY <2>8, <2>9
    <3>2. PICK t : t = << <<>> >> OBVIOUS
    <3>3. t \in Seq(Paths) /\ Len(t) = 1 /\ t[1] = <<>>
      <4>1. <<>> \in Paths BY EmptySeq DEF Paths
      <4> QED BY <3>2, <4>1
    <3>4. \A i \in 1 .. Len(l) : l[i] = t[i]
      <4>1. \A i \in 1 .. Len(l) : i = 1 BY <3>1
      <4>2. l[1] = t[1] BY <2>9, <3>3
      <4> QED BY <4>1, <4>2
    <3> QED BY <2>9, <3>1, <3>2, <3>3, <3>4, SeqEqual
  <2>11. LineNow' = << <<>> >> BY <2>2, <2>6, <2>10 DEF LineNow, NoWrapper
  <2> QED BY <1>3, <2>11 DEF Reading!Open, LineNow
<1> QED BY <1>4, <1>5

(* The deletion of the root closes it.                                       *)
LEMMA LeaveCloses ==
  ASSUME Core, Leave
  PROVE  Reading!Close
<1>1. /\ JsonType /\ 1 \in InUse /\ root = 1
  <2>1. at \in OpenPlaces BY DEF Leave, OpenPlaces
  <2> QED BY <2>1 DEF Core, PlaceInv, WrapperInv
<1>2. LineShape BY <1>1, LineShapes
<1>3. 1 \in 1 .. Len(json) /\ json[1].child \in 0 .. Len(json) /\ Len(json) \in Nat
  BY <1>1, InUseTyped, JsonBasics
<1>4. Len(Line(1)) > 0
  <2>1. 1 \in 0 .. Len(json) BY <1>3
  <2>2. Len(Line(1)) = Len(Line(json[1].child)) + 1 BY <1>2, <2>1 DEF LineShape, NoWrapper
  <2>3. Len(Line(json[1].child)) \in Nat
    <3>1. Line(json[1].child) \in Seq(Paths) BY <1>2, <1>3 DEF LineShape
    <3> QED BY <3>1, LenProperties
  <2> QED BY <2>2, <2>3
<1>5. LineNow # <<>>
  <2>1. LineNow = Line(1) BY <1>1 DEF LineNow, NoWrapper
  <2>2. Len(<<>>) = 0 OBVIOUS
  <2> QED BY <1>4, <2>1, <2>2
<1>6. LineNow' = <<>>
  <2>1. root' = NoWrapper BY DEF Leave
  <2> QED BY <2>1 DEF LineNow
<1> QED BY <1>5, <1>6 DEF Reading!Close, LineNow

(* Every step of the application is one of Cursor or leaves the line alone.  *)
LEMMA StepReads ==
  ASSUME FetchInv, FetchNext
  PROVE  Reading!Next \/ LineNow' = LineNow
<1>1. Core
  <2>1. at = "crashed" => ~FetchNext BY NoMore
  <2> QED BY <2>1 DEF FetchInv
<1>2. CASE Looks
  <2>1. Reading!Look \/ LineNow' = LineNow BY <1>1, <1>2, AnyLookReads
  <2> QED BY <2>1 DEF Reading!Next
<1>3. CASE Deserialize
  <2>1. Reading!Open \/ LineNow' = LineNow BY <1>1, <1>3, ParseOpens
  <2> QED BY <2>1 DEF Reading!Next
<1>4. CASE Leave
  <2>1. Reading!Close \/ LineNow' = LineNow BY <1>1, <1>4, LeaveCloses
  <2> QED BY <2>1 DEF Reading!Next
<1>5. CASE revolt_init \/ Fetch \/ FetchReturns \/ RequestActions \/ DeleteActions
  <2>1. SameWrappers BY <1>1, <1>5, QuietRest
  <2>2. root' = root
    <3>1. revolt_init \/ Fetch \/ FetchReturns => root' = root
      BY DEF revolt_init, Fetch, FetchReturns, wrapper_vars
    <3>2. RequestActions => root' = root
      BY DEF RequestActions, revolt_rest_request, write_callback, request_perform, wrapper_vars
    <3>3. DeleteActions => root' = root
      BY DEF DeleteActions, revolt_user_delete, revolt_channel_delete, revolt_cleanup, wrapper_vars
    <3> QED BY <1>5, <3>1, <3>2, <3>3
  <2> QED BY <2>1, <2>2, LineNowSame DEF SameWrappers
<1>6. CASE Reading1 /\ ~Looks
  <2>1. SameWrappers BY <1>1, <1>6, QuietFile, QuietUser, QuietChannel DEF Reading1
  <2>2. root' = root BY <1>6, ReadingFrame
  <2> QED BY <2>1, <2>2, LineNowSame DEF SameWrappers
<1> QED BY <1>2, <1>3, <1>4, <1>5, <1>6
     DEF FetchNext, FileActions, Reading1, RequestActions, DeleteActions

(* The deserialisers read a document along one line of values, each a part   *)
(* of the one before it or next to it in its array, whatever the documents   *)
(* and whichever wrappers cannot be allocated: each step of the application  *)
(* is one of Cursor or leaves the line alone (lib/core/json_cjson.c 53-76,   *)
(* 196-218).                                                                 *)
THEOREM ImplementsCursorThm == FetchSpec => ImplementsCursor
<1>1. Init => Reading!Init
  BY DEF Init, Reading!Init
<1>2. FetchInv /\ [FetchNext]_fvars => [Reading!Next]_(IF root = NoWrapper THEN <<>> ELSE Line(root))
  <2>1. FetchInv /\ FetchNext => Reading!Next \/ LineNow' = LineNow BY StepReads
  <2>2. UNCHANGED fvars => LineNow' = LineNow
    <3>1. UNCHANGED fvars => json' = json /\ root' = root BY DEF fvars, jvars, wrapper_vars
    <3> QED BY <3>1, LineNowSame
  <2> QED BY <2>1, <2>2 DEF LineNow
<1> QED BY <1>1, <1>2, FetchInvariant, PTL DEF FetchSpec, ImplementsCursor, Reading!Spec
=============================================================================
