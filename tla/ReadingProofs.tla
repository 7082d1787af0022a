---------------------------- MODULE ReadingProofs ----------------------------
(***************************************************************************)
(* An OK fetch has read the whole document (ReadsDocument), for every      *)
(* answer the schema allows and any number of failures.  Besides FetchInv  *)
(* it takes two invariants: what has been read at each place (ReadInv: the *)
(* strings that fields hold, the enumerators, the numbers), and what has   *)
(* been found (FoundInv: relations in their places, a type that is known). *)
(***************************************************************************)
EXTENDS FetchProofs, FiniteSetTheorems

(* What has been read, place by place, while no part has been found missing. *)
(* Places that come after something has been read:                           *)
AfterBot == {"leave"}
AfterRelationship == {"bot"} \cup AfterBot
AfterRelations == {"relationship"} \cup AfterRelationship
AfterPresence == {"relations", "allocate", "first"} \cup InRelations \cup AfterRelations
AfterStatus == {"presence"} \cup AfterPresence
AfterFileEnd == {"status", "channel end", "voice end"} \cup AfterStatus
AfterType == {"file end"} \cup AfterFileEnd
AfterFile == {"metadata", "metadata type"} \cup AfterType
AfterUser == {"avatar", "file"} \cup AfterFile
AfterStrings == {"icon", "file"} \cup AfterFile
AfterNumbers == {"voice end", "leave"}

(* A field holds a copy of the string at its path, if there is one and there *)
(* was memory for it.                                                        *)
CopyNames(k, path) == {<<k>> \o path, (<<k>> \o path) \o <<"again">>}
Holds(b, k, path) ==
  \/ b = NULL /\ (path \in DOMAIN doc.strings => AllocationFailed)
  \/ path \in DOMAIN doc.strings /\ b \in CopyNames(k, path)
FieldsHold(obj, path, keys) ==
  \A f \in DOMAIN keys : Holds(field[obj][f], obj[1], path \o keys[f])

(* An enumerator is what its name means, if there was memory for a copy.     *)
Means(v, meaning) == AllocationFailed \/ value[v] = meaning

(* The avatar or the icon.                                                   *)
FilePath == IF kind = "user" THEN <<"avatar">> ELSE <<"icon">>
MetadataPath == IF kind = "user" THEN <<"avatar", "metadata">> ELSE <<"icon", "metadata">>
FileNamePath ==
  IF kind = "user" THEN <<"avatar", "metadata", "type">> ELSE <<"icon", "metadata", "type">>
HasFile == kind = "user" \/ type \in WithIcon
FileRead ==
  /\ at \in FilePlaces /\ file # NoWrapper => json[file].val = FilePath
  /\ at = "metadata type" /\ buf # NoWrapper => json[buf].val = MetadataPath
  /\ at \in AfterFile /\ HasFile => FieldsHold(File, FilePath, FileKeys)
  /\ at \in AfterType /\ HasFile => Means(File, metadata_type(NameIn(doc, FileNamePath)))
  /\ at \in AfterFileEnd /\ HasFile => FieldsHold(File, FilePath, FileEndKeys)

RelationHeld(i) == FieldsHold(Relation(i), RelationPath(i), RelationKeys)
StatusRead(i) ==
  Means(Relation(i),
        user_relationship_status_from_str(NameIn(doc, RelationPath(i) \o <<"status">>)))
RelationsRead ==
  /\ \A i \in 1 .. count : RelationHeld(i) /\ StatusRead(i)
  /\ at \in {"relation status", "next"} => RelationHeld(count + 1)
  /\ at = "next" => StatusRead(count + 1)
  /\ at \in InRelations /\ count < max /\ buf = NoWrapper => AllocationFailed
  /\ at \in AfterRelations /\ IsArray(<<"relations">>) /\ <<"relations">> \in doc.nodes =>
       AllocationFailed \/ count = max
  /\ field[User].relations \in Nowhere \cup {<<"user", "relations">>}

UserRead ==
  /\ at \in AfterUser => FieldsHold(User, <<>>, UserKeys)
  /\ at \in AfterStatus => FieldsHold(User, <<>>, StatusKeys)
  /\ at \in AfterPresence =>
       Means(<<"user", "presence">>, user_presence_from_str(NameIn(doc, <<"status", "presence">>)))
  /\ at \in AfterRelationship =>
       Means(<<"user", "relationship">>,
             user_relationship_status_from_str(NameIn(doc, <<"relationship">>)))
  /\ at \in AfterBot => FieldsHold(User, <<>>, BotKeys)

NumberRead(b, path) ==
  path \in DOMAIN doc.numbers /\ doc.numbers[path] \in I64 => bits[b] = doc.numbers[path]
ChannelRead ==
  /\ at # "channel" => type = TypeIn(doc)
  /\ at \in AfterStrings => FieldsHold(Channel, <<>>, ChannelKeys(type))
  /\ at \in AfterNumbers /\ type = "GROUP" => NumberRead("permissions", <<"permissions">>)
  /\ at \in AfterNumbers /\ type \in {"TEXT", "VOICE"} =>
       /\ NumberRead("a", <<"default_permissions", "a">>)
       /\ NumberRead("d", <<"default_permissions", "d">>)

ReadInv ==
  /\ failures \in 0 .. MaxFailures
  /\ at \in OpenPlaces /\ err[kind] = "OK" =>
       /\ doc \in Documents[kind] /\ FileRead
       /\ kind = "user" => UserRead /\ RelationsRead
       /\ kind = "channel" => ChannelRead

-----------------------------------------------------------------------------
(* Sets of keys are finite, so that the copies that fail can be counted.     *)
LEMMA FiniteFive ==
  ASSUME NEW a, NEW b, NEW c, NEW d, NEW e
  PROVE  IsFiniteSet({a, b, c, d, e})
<1>1. IsFiniteSet({a}) BY FS_Singleton
<1>2. PICK S : S = {a, b} OBVIOUS
<1>3. IsFiniteSet(S)
  <2>1. IsFiniteSet({a} \cup {b}) BY <1>1, FS_AddElement
  <2>2. {a} \cup {b} = S BY <1>2
  <2> QED BY <2>1, <2>2
<1>4. PICK T : T = {a, b, c} OBVIOUS
<1>5. IsFiniteSet(T)
  <2>1. IsFiniteSet(S \cup {c}) BY <1>3, FS_AddElement
  <2>2. S \cup {c} = T BY <1>2, <1>4
  <2> QED BY <2>1, <2>2
<1>6. PICK U : U = {a, b, c, d} OBVIOUS
<1>7. IsFiniteSet(U)
  <2>1. IsFiniteSet(T \cup {d}) BY <1>5, FS_AddElement
  <2>2. T \cup {d} = U BY <1>4, <1>6
  <2> QED BY <2>1, <2>2
<1>8. PICK V : V = {a, b, c, d, e} OBVIOUS
<1>9. IsFiniteSet(V)
  <2>1. IsFiniteSet(U \cup {e}) BY <1>7, FS_AddElement
  <2>2. U \cup {e} = V BY <1>6, <1>8
  <2> QED BY <2>1, <2>2
<1> QED BY <1>8, <1>9

FewKeys(keys) == \E a, b, c, d, e : DOMAIN keys \subseteq {a, b, c, d, e}

LEMMA TablesSmall ==
  /\ FewKeys(UserKeys) /\ FewKeys(StatusKeys) /\ FewKeys(BotKeys) /\ FewKeys(FileKeys)
  /\ FewKeys(FileEndKeys) /\ FewKeys(RelationKeys) /\ FewKeys(VoiceEndKeys)
  /\ FewKeys(ChannelKeys(type))
<1>1. DOMAIN UserKeys \subseteq {"id", "username", "discriminator", "display_name", "id"}
  BY DEF UserKeys
<1>2. DOMAIN StatusKeys \subseteq {"text", "text", "text", "text", "text"} BY DEF StatusKeys
<1>3. DOMAIN BotKeys \subseteq {"owner_id", "id", "id", "id", "id"} BY DEF BotKeys
<1>4. DOMAIN FileKeys \subseteq {"id", "tag", "filename", "content_type", "id"} BY DEF FileKeys
<1>5. DOMAIN FileEndKeys \subseteq {"message_id", "user_id", "server_id", "object_id", "id"}
  BY DEF FileEndKeys
<1>6. DOMAIN RelationKeys \subseteq {"user_id", "id", "id", "id", "id"} BY DEF RelationKeys
<1>7. DOMAIN VoiceEndKeys \subseteq {"id", "id", "id", "id", "id"} BY DEF VoiceEndKeys
<1>8. DOMAIN SmKeys \subseteq {"id", "owner_id", "id", "id", "id"} BY DEF SmKeys
<1>9. DOMAIN DmKeys \subseteq {"id", "last_message_id", "id", "id", "id"} BY DEF DmKeys
<1>10. DOMAIN GroupKeys \subseteq {"id", "owner_id", "last_message_id", "name", "description"}
  BY DEF GroupKeys
<1>11. DOMAIN TextKeys \subseteq {"id", "server_id", "last_message_id", "name", "description"}
  BY DEF TextKeys
<1>12. DOMAIN VoiceKeys \subseteq {"id", "server_id", "name", "description", "id"} BY DEF VoiceKeys
<1>13. DOMAIN <<>> \subseteq {"id", "id", "id", "id", "id"} OBVIOUS
<1>14. ChannelKeys(type) \in {SmKeys, DmKeys, GroupKeys, TextKeys, VoiceKeys, <<>>}
  BY DEF ChannelKeys
<1>15. FewKeys(SmKeys) BY <1>8 DEF FewKeys
<1>16. FewKeys(DmKeys) BY <1>9 DEF FewKeys
<1>17. FewKeys(GroupKeys) BY <1>10 DEF FewKeys
<1>18. FewKeys(TextKeys) BY <1>11 DEF FewKeys
<1>19. FewKeys(VoiceKeys) BY <1>12 DEF FewKeys
<1>20. FewKeys(<<>>) BY <1>13 DEF FewKeys
<1>21. FewKeys(ChannelKeys(type)) BY <1>14, <1>15, <1>16, <1>17, <1>18, <1>19, <1>20
<1>22. FewKeys(UserKeys) BY <1>1 DEF FewKeys
<1>23. FewKeys(StatusKeys) BY <1>2 DEF FewKeys
<1>24. FewKeys(BotKeys) BY <1>3 DEF FewKeys
<1>25. FewKeys(FileKeys) BY <1>4 DEF FewKeys
<1>26. FewKeys(FileEndKeys) BY <1>5 DEF FewKeys
<1>27. FewKeys(RelationKeys) BY <1>6 DEF FewKeys
<1>28. FewKeys(VoiceEndKeys) BY <1>7 DEF FewKeys
<1> QED BY <1>21, <1>22, <1>23, <1>24, <1>25, <1>26, <1>27, <1>28

(* Allocations that fail are fewer than before, and none is got back.        *)
Spends == failures' \in Nat /\ failures' <= failures

LEMMA MemorySpends ==
  ASSUME failures \in Nat, NEW new, NEW freed, NEW n \in Nat, NEW wrong, Memory(new, freed, n, wrong)
  PROVE  Spends /\ (n > 0 => failures' < failures)
<1>1. n <= failures /\ failures' = failures - n BY DEF Memory
<1> QED BY <1>1 DEF Spends

LEMMA LostFew ==
  ASSUME NEW keys, FewKeys(keys), NEW w, NEW lost \in SUBSET Copyable(w, keys)
  PROVE  Cardinality(lost) \in Nat /\ (lost # {} => Cardinality(lost) > 0)
<1>1. PICK a, b, c, d, e : DOMAIN keys \subseteq {a, b, c, d, e} BY DEF FewKeys
<1>2. lost \in SUBSET {a, b, c, d, e} BY <1>1 DEF Copyable
<1>3. PICK F : F = {a, b, c, d, e} OBVIOUS
<1>4. IsFiniteSet(F) BY <1>3, FiniteFive
<1>5. IsFiniteSet(lost) BY <1>2, <1>3, <1>4, FS_Subset
<1>6. Cardinality(lost) \in Nat BY <1>5, FS_CardinalityType
<1>7. Cardinality(lost) = 0 => lost = {} BY <1>5, FS_EmptySet
<1> QED BY <1>6, <1>7

LEMMA StringsSpend ==
  ASSUME failures \in Nat, NEW fields, NEW obj, NEW w, NEW keys, FewKeys(keys),
         GetStrings(fields, obj, w, keys)
  PROVE  Spends
<1>1. PICK lost : /\ lost \in SUBSET Copyable(w, keys)
                  /\ Memory(Copies(obj, w, keys, lost), {}, Cardinality(lost), Through(w))
  BY DEF GetStrings, MayFail
<1>2. Cardinality(lost) \in Nat BY <1>1, LostFew
<1> QED BY <1>1, <1>2, MemorySpends

LEMMA NameSpends ==
  ASSUME failures \in Nat, NEW w, NEW key, NEW name, NEW v, NEW m, GetName(w, key, name, v, m)
  PROVE  Spends /\ (name = NameAt(w, key) \/ (name = NoName /\ failures' < failures))
<1>1. CASE name = NameAt(w, key) /\ Memory({}, {}, 0, Through(w))
  BY <1>1, MemorySpends
<1>2. CASE name = NoName /\ Memory({}, {}, 1, Through(w))
  BY <1>2, MemorySpends
<1> QED BY <1>1, <1>2 DEF GetName

LEMMA ChildSpends ==
  ASSUME failures \in Nat, JsonType, NEW w, NEW found, NEW v, NEW c,
         revoltc_json_child(w, found, v, c)
  PROVE  Spends /\ (c = NoWrapper /\ w # NoWrapper /\ found => failures' < failures)
<1>0. Len(json) \in Nat BY JsonBasics
<1>1. CASE w = NoWrapper /\ Memory({}, {}, 0, {}) BY <1>1, MemorySpends
<1>2. CASE w # NoWrapper /\ c = Len(json) + 1
           /\ Memory({Wrapper(c)}, Blocks(Chain(json[w].child)), 0, Through(w))
  <2>1. Spends BY <1>2, MemorySpends
  <2>2. c # NoWrapper BY <1>0, <1>2 DEF NoWrapper
  <2> QED BY <2>1, <2>2
<1>3. CASE w # NoWrapper
           /\ Memory({}, Blocks(Chain(json[w].child)), IF found THEN 1 ELSE 0, Through(w))
  <2>1. CASE found
    <3>1. Memory({}, Blocks(Chain(json[w].child)), 1, Through(w)) BY <1>3, <2>1
    <3> QED BY <3>1, MemorySpends
  <2>2. CASE ~found
    <3>1. Memory({}, Blocks(Chain(json[w].child)), 0, Through(w)) BY <1>3, <2>2
    <3> QED BY <2>2, <3>1, MemorySpends
  <2> QED BY <2>1, <2>2
<1> QED BY <1>1, <1>2, <1>3 DEF revoltc_json_child

LEMMA ObjSpends ==
  ASSUME failures \in Nat, JsonType, NEW w, NEW key, NEW c, revoltc_json_get_obj(w, key, c)
  PROVE  Spends /\ (c = NoWrapper /\ w # NoWrapper /\ At(w, key) \in doc.nodes => failures' < failures)
<1>1. PICK found : found = (At(w, key) \in doc.nodes) OBVIOUS
<1>2. PICK v : v = At(w, key) OBVIOUS
<1>3. revoltc_json_child(w, found, v, c) BY <1>1, <1>2 DEF revoltc_json_get_obj
<1>4. Spends /\ (c = NoWrapper /\ w # NoWrapper /\ found => failures' < failures)
  BY <1>3, ChildSpends
<1> QED BY <1>1, <1>4

(* The steps that read.                                                      *)
LEMMA StringActionsSpend ==
  ASSUME failures \in Nat, StringActions
  PROVE  Spends
<1>1. CASE UserStrings BY <1>1, TablesSmall, StringsSpend DEF UserStrings
<1>2. CASE Status BY <1>2, TablesSmall, StringsSpend DEF Status
<1>3. CASE Bot BY <1>3, TablesSmall, StringsSpend DEF Bot
<1>4. CASE RelationString BY <1>4, TablesSmall, StringsSpend DEF RelationString
<1>5. CASE FileStrings /\ file # NoWrapper
  <2>1. GetStrings(FileNulled, File, file, FileKeys) BY <1>5 DEF FileStrings, FileNulled
  <2> QED BY <2>1, TablesSmall, StringsSpend
<1>6. CASE FileEnd BY <1>6, TablesSmall, StringsSpend DEF FileEnd
<1>7. CASE ChannelStrings BY <1>7, TablesSmall, StringsSpend DEF ChannelStrings
<1>8. CASE VoiceEnd BY <1>8, TablesSmall, StringsSpend DEF VoiceEnd
<1> QED BY <1>1, <1>2, <1>3, <1>4, <1>5, <1>6, <1>7, <1>8 DEF StringActions

LEMMA LooksSpend ==
  ASSUME failures \in Nat, JsonType, Looks
  PROVE  Spends
<1>1. CASE GetFile BY <1>1, ObjSpends DEF GetFile
<1>2. CASE GetMetadata BY <1>2, ObjSpends DEF GetMetadata
<1>3. CASE GetRelations
  <2>1. PICK a : revoltc_json_get_arr(root, <<"relations">>, a) BY <1>3 DEF GetRelations
  <2> QED BY <2>1, ObjSpends DEF revoltc_json_get_arr
<1>4. CASE FirstRelation
  <2>1. PICK c : revoltc_json_arr_get(buf, 1, c) BY <1>4 DEF FirstRelation
  <2>2. PICK v : v = Element(json[buf].val, 1) OBVIOUS
  <2>3. PICK found : found = (v # <<>>) OBVIOUS
  <2>4. revoltc_json_child(buf, found, v, c) BY <2>1, <2>2, <2>3 DEF revoltc_json_arr_get
  <2> QED BY <2>4, ChildSpends
<1>5. CASE NextRelation
  <2>1. PICK c : revoltc_json_unsafe_next(buf, c) BY <1>5 DEF NextRelation
  <2>2. CASE buf = NoWrapper
    <3>1. PICK v : v = <<>> OBVIOUS
    <3>2. revoltc_json_child(buf, FALSE, v, c) BY <2>1, <2>2, <3>1 DEF revoltc_json_unsafe_next
    <3> QED BY <3>2, ChildSpends
  <2>3. CASE buf # NoWrapper
    <3>1. PICK v : v = Following(buf) OBVIOUS
    <3>2. PICK found : found = (v # <<>>) OBVIOUS
    <3>3. revoltc_json_child(buf, found, v, c)
      BY <2>1, <2>3, <3>1, <3>2 DEF revoltc_json_unsafe_next
    <3> QED BY <3>3, ChildSpends
  <2> QED BY <2>2, <2>3
<1> QED BY <1>1, <1>2, <1>3, <1>4, <1>5 DEF Looks

LEMMA NamesSpend ==
  ASSUME failures \in Nat
  PROVE  /\ revolt_file_metadata_deserialize_json_obj => Spends
         /\ Presence \/ RelationStatus \/ Relationship \/ ChannelType => Spends
<1>1. ASSUME revolt_file_metadata_deserialize_json_obj PROVE Spends
  <2>1. CASE Memory({}, {}, 0, {}) BY <2>1, MemorySpends
  <2>2. CASE \E name : GetName(buf, <<"type">>, name, File, metadata_type(name))
    BY <2>2, NameSpends
  <2> QED BY <1>1, <2>1, <2>2 DEF revolt_file_metadata_deserialize_json_obj
<1>2. Presence => Spends BY NameSpends DEF Presence
<1>3. RelationStatus => Spends BY NameSpends DEF RelationStatus
<1>4. Relationship => Spends BY NameSpends DEF Relationship
<1>5. ChannelType => Spends BY NameSpends DEF ChannelType
<1> QED BY <1>1, <1>2, <1>3, <1>4, <1>5

LEMMA ReadingSpends ==
  ASSUME failures \in Nat, JsonType, Reading1
  PROVE  Spends
<1>1. CASE StringActions BY <1>1, StringActionsSpend
<1>2. CASE Looks BY <1>2, LooksSpend
<1>3. CASE FileStrings /\ file = NoWrapper BY <1>3, MemorySpends DEF FileStrings
<1>4. CASE AllocateRelations BY <1>4, MemorySpends DEF AllocateRelations
<1>5. CASE RelationsMissing BY <1>5, MemorySpends DEF RelationsMissing
<1>6. CASE NoMoreRelations BY <1>6 DEF NoMoreRelations, mvars, Spends
<1>7. CASE Permissions BY <1>7, MemorySpends DEF Permissions
<1>8. CASE revolt_file_metadata_deserialize_json_obj
           \/ Presence \/ RelationStatus \/ Relationship \/ ChannelType
  BY <1>8, NamesSpend
<1> QED BY <1>1, <1>2, <1>3, <1>4, <1>5, <1>6, <1>7, <1>8
     DEF Reading1, FileActions, revolt_user_deserialize_json_obj, revolt_channel_deserialize_json_obj,
         StringActions, Looks

(* And all others.                                                           *)
LEMMA StepSpends ==
  ASSUME failures \in Nat, JsonType, FetchNext
  PROVE  Spends
<1>1. CASE Reading1 BY <1>1, ReadingSpends
<1>2. CASE revolt_init BY <1>2, MemorySpends DEF revolt_init
<1>3. CASE Fetch BY <1>3, MemorySpends DEF Fetch
<1>4. CASE FetchReturns BY <1>4, MemorySpends DEF FetchReturns
<1>5. CASE RequestActions
  <2>1. revolt_rest_request => Spends BY MemorySpends DEF revolt_rest_request, revoltc_http_request
  <2>2. write_callback => Spends BY MemorySpends DEF write_callback
  <2>3. request_perform => Spends BY MemorySpends DEF request_perform
  <2> QED BY <1>5, <2>1, <2>2, <2>3 DEF RequestActions
<1>6. CASE Deserialize
  <2>1. CASE Memory({}, {}, 0, {}) BY <2>1, MemorySpends
  <2>2. CASE \E r, w : revoltc_json_parse(body, r, w)
    BY <2>2, MemorySpends DEF revoltc_json_parse
  <2> QED BY <1>6, <2>1, <2>2 DEF Deserialize
<1>7. CASE Leave BY <1>7, MemorySpends DEF Leave, revoltc_json_delete
<1>8. CASE DeleteActions
  <2>1. revolt_user_delete => Spends BY MemorySpends DEF revolt_user_delete, Delete
  <2>2. revolt_channel_delete => Spends
    <3>1. SUFFICES ASSUME revolt_channel_delete PROVE Spends OBVIOUS
    <3>2. PICK owned : Delete("channel", owned, "exit") BY <3>1 DEF revolt_channel_delete
    <3> QED BY <3>2, MemorySpends DEF Delete
  <2>3. revolt_cleanup => Spends BY MemorySpends DEF revolt_cleanup
  <2> QED BY <1>8, <2>1, <2>2, <2>3 DEF DeleteActions
<1> QED BY <1>1, <1>2, <1>3, <1>4, <1>5, <1>6, <1>7, <1>8
     DEF FetchNext, Reading1, FileActions, RequestActions, DeleteActions

(* The same after a step, of a part and a path that the step has named.      *)
HoldsThen(b, k, path) ==
  \/ b = NULL /\ (path \in DOMAIN doc'.strings => AllocationFailed')
  \/ path \in DOMAIN doc'.strings /\ b \in CopyNames(k, path)
FieldsHoldThen(obj, path, keys) ==
  \A f \in DOMAIN keys : HoldsThen(field'[obj][f], obj[1], path \o keys[f])

LEMMA FailedMore ==
  ASSUME failures \in 0 .. MaxFailures, Spends
  PROVE  /\ failures' \in 0 .. MaxFailures /\ (AllocationFailed => AllocationFailed')
         /\ (failures' < failures => AllocationFailed')
BY MaxFailuresAssumption DEF Spends, AllocationFailed

(* Strings that are read from the wrapper of a path are held.                *)
LEMMA StringsHeld ==
  ASSUME failures \in 0 .. MaxFailures, JsonType,
         NEW fields, NEW obj \in DOMAIN fields, NEW keys, FewKeys(keys),
         DOMAIN keys \subseteq DOMAIN fields[obj], Head(obj) = obj[1],
         NEW w, NEW path, w # NoWrapper => json[w].val = path, w = NoWrapper => AllocationFailed,
         GetStrings(fields, obj, w, keys)
  PROVE  FieldsHoldThen(obj, path, keys)
<1>1. PICK lost : /\ lost \in SUBSET Copyable(w, keys)
                  /\ field' = [fields EXCEPT ![obj] = Copied(@, obj, w, keys, lost)]
                  /\ Memory(Copies(obj, w, keys, lost), {}, Cardinality(lost), Through(w))
  BY DEF GetStrings, MayFail
<1>2. Cardinality(lost) \in Nat /\ (lost # {} => Cardinality(lost) > 0) BY <1>1, LostFew
<1>3. Spends /\ (lost # {} => failures' < failures) BY <1>1, <1>2, MemorySpends
<1>4. /\ lost # {} => AllocationFailed'
      /\ w = NoWrapper => AllocationFailed'
  BY <1>3, FailedMore
<1> DEFINE old == fields[obj]
           new == Copied(old, obj, w, keys, lost)
           got == Copyable(w, keys) \ lost
<1>5. field'[obj] = new
  <2> HIDE DEF new
  <2>1. field' = [fields EXCEPT ![obj] = new] BY <1>1 DEF new
  <2> QED BY <2>1
<1>6. \A f \in DOMAIN keys : /\ f \in got => new[f] = Copy(obj, w, keys[f])
                             /\ f \notin got => new[f] = NULL
  <2> HIDE DEF got
  <2> QED BY DEF Copied, got
<1>7. doc' = doc BY StringsFrame
<1>8. ASSUME NEW f \in DOMAIN keys PROVE HoldsThen(field'[obj][f], obj[1], path \o keys[f])
  <2>1. PICK p : p = path \o keys[f] OBVIOUS
  <2>2. w # NoWrapper => At(w, keys[f]) = p BY <2>1 DEF At
  <2>3. f \in Copyable(w, keys) <=> w # NoWrapper /\ At(w, keys[f]) \in DOMAIN doc.strings
    BY DEF Copyable
  <2>4. CASE f \in got
    <3>1. w # NoWrapper /\ p \in DOMAIN doc.strings BY <2>2, <2>3, <2>4
    <3>2. Copy(obj, w, keys[f]) = Fresh(<<obj[1]>> \o p) BY <2>2, <3>1 DEF Copy
    <3>3. Fresh(<<obj[1]>> \o p) \in CopyNames(obj[1], p) BY DEF Fresh, CopyNames
    <3> HIDE DEF new, got
    <3> QED BY <1>5, <1>6, <1>7, <2>1, <2>4, <3>1, <3>2, <3>3 DEF HoldsThen
  <2>5. CASE f \notin got
    <3>1. field'[obj][f] = NULL BY <1>5, <1>6, <2>5
    <3>2. f \in lost \/ f \notin Copyable(w, keys) BY <2>5
    <3>3. p \in DOMAIN doc.strings => AllocationFailed' BY <1>4, <2>2, <2>3, <3>2
    <3> HIDE DEF new, got
    <3> QED BY <1>7, <2>1, <3>1, <3>3 DEF HoldsThen
  <2> QED BY <2>4, <2>5
<1> QED BY <1>8 DEF FieldsHoldThen

(* They are held as long as the fields are not touched.                      *)
LEMMA HeldStill ==
  ASSUME failures \in 0 .. MaxFailures, Spends, doc' = doc, NEW obj, NEW path, NEW keys,
         FieldsHold(obj, path, keys), \A f \in DOMAIN keys : field'[obj][f] = field[obj][f]
  PROVE  FieldsHoldThen(obj, path, keys)
<1>1. AllocationFailed => AllocationFailed' BY FailedMore
<1>2. ASSUME NEW f \in DOMAIN keys PROVE HoldsThen(field'[obj][f], obj[1], path \o keys[f])
  <2>1. PICK p : p = path \o keys[f] OBVIOUS
  <2>2. Holds(field[obj][f], obj[1], p) BY <2>1 DEF FieldsHold
  <2>3. HoldsThen(field'[obj][f], obj[1], p) BY <1>1, <2>2 DEF Holds, HoldsThen
  <2> QED BY <2>1, <2>3
<1> QED BY <1>2 DEF FieldsHoldThen

(* A name that is looked at is the one in the document, or it could not be   *)
(* copied; it sets one enumerator.                                           *)
LEMMA NameTold ==
  ASSUME failures \in 0 .. MaxFailures, NEW w, w # NoWrapper, NEW key, NEW name, NEW v \in DOMAIN value,
         NEW m, GetName(w, key, name, v, m)
  PROVE  value'[v] = m /\ (name = NameIn(doc, At(w, key)) \/ (name = NoName /\ AllocationFailed'))
<1>1. failures \in Nat BY MaxFailuresAssumption
<1>2. Spends /\ (name = NameAt(w, key) \/ (name = NoName /\ failures' < failures))
  BY <1>1, NameSpends
<1>3. NameAt(w, key) = NameIn(doc, At(w, key)) BY DEF NameAt, NameIn
<1>4. value'[v] = m
  <2>1. value' = [value EXCEPT ![v] = m] BY NameFrame
  <2> QED BY <2>1
<1>5. failures' < failures => AllocationFailed' BY <1>2, FailedMore
<1> QED BY <1>2, <1>3, <1>4, <1>5

(* A step of a deserialiser after which nothing has been found missing.      *)
Reads ==
  /\ Core /\ ReadInv /\ FetchNext /\ Reading1
  /\ at' \in OpenPlaces /\ err'[kind'] = "OK"

LEMMA ReadsOn ==
  ASSUME Reads
  PROVE  /\ kind' = kind /\ doc' = doc /\ root' = root /\ err' = err /\ err[kind] = "OK"
         /\ at \in OpenPlaces /\ kind \in Kinds /\ root = 1 /\ 1 \in InUse /\ json[1].val = <<>>
         /\ failures \in 0 .. MaxFailures /\ Spends /\ JsonType /\ doc \in Documents[kind]
         /\ FileRead
         /\ (kind = "user" => UserRead /\ RelationsRead)
         /\ (kind = "channel" => ChannelRead)
         /\ DOMAIN value = Values
<1>1. kind' = kind /\ root' = root BY ReadingFrame DEF Reads
<1>2. at \in OpenPlaces /\ at \in OpenPlaces \ {"leave"} /\ ~Deserialize /\ ~Leave
  BY ReadingPlaces DEF Reads
<1>3. doc' = doc BY <1>2, DocKept DEF Reads
<1>4. kind \in Kinds /\ root = 1 /\ DOMAIN err = Kinds /\ 1 \in InUse /\ json[1].val = <<>> /\ JsonType
      /\ err[kind] = "OK"
  BY <1>2 DEF Reads, Core, PlaceInv, WrapperInv
<1>5. err' = err
  <2>1. ASSUME NEW r, r \in {"INVAL", "PARSE"}, Fails(r) PROVE FALSE
    <3>1. err'[kind] = r BY <2>1, <1>4 DEF Fails
    <3> QED BY <1>1, <2>1, <3>1 DEF Reads
  <2> QED BY <2>1, ErrReading DEF Reads
<1>6. failures \in 0 .. MaxFailures BY DEF Reads, ReadInv
<1>7. Spends
  <2>1. failures \in Nat BY <1>6, MaxFailuresAssumption
  <2> QED BY <1>4, <2>1, StepSpends DEF Reads
<1>8. /\ doc \in Documents[kind] /\ FileRead
      /\ (kind = "user" => UserRead /\ RelationsRead)
      /\ (kind = "channel" => ChannelRead)
  BY <1>2, <1>4 DEF Reads, ReadInv
<1>9. DOMAIN value = Values BY DEF Reads, Core, UnsetInv, ShapeInv
<1> QED BY <1>1, <1>2, <1>3, <1>4, <1>5, <1>6, <1>7, <1>8, <1>9

(* Then no part was missing.                                                 *)
LEMMA ReadCourse ==
  ASSUME Reads
  PROVE  /\ FileStrings => Goes("file", "metadata") /\ file # NoWrapper
         /\ revolt_file_metadata_deserialize_json_obj =>
              Goes("metadata type", "file end") /\ buf # NoWrapper
         /\ ChannelType => Goes("channel", "strings") /\ type' # "UNKNOWN"
<1>1. err' = err /\ err[kind] = "OK" /\ kind \in Kinds /\ DOMAIN err = Kinds
  BY ReadsOn DEF Reads, Core, PlaceInv
<1>2. ASSUME NEW r, r \in {"INVAL", "PARSE"}, Leaves(r) PROVE FALSE
  <2>1. err'[kind] = r BY <1>1, <1>2 DEF Leaves
  <2> QED BY <1>1, <1>2, <2>1
<1>3. FileStrings => Goes("file", "metadata") /\ file # NoWrapper
  BY <1>2 DEF FileStrings, Goes
<1>4. revolt_file_metadata_deserialize_json_obj => Goes("metadata type", "file end") /\ buf # NoWrapper
  BY <1>2 DEF revolt_file_metadata_deserialize_json_obj, Goes
<1>5. ChannelType => Goes("channel", "strings") /\ type' # "UNKNOWN"
  BY <1>2 DEF ChannelType, Goes
<1> QED BY <1>3, <1>4, <1>5

(* What each step writes; the rest it keeps.                                 *)
Writes(p, f) ==
  \/ UserStrings /\ p \notin Relations /\ p[1] = "user"
  \/ ChannelType /\ p[1] = "channel"
  \/ Status /\ p = User /\ f \in DOMAIN StatusKeys
  \/ Bot /\ p = User /\ f \in DOMAIN BotKeys
  \/ RelationString /\ p = Relation(count + 1)
  \/ FileStrings /\ p = File
  \/ FileEnd /\ p = File /\ f \in DOMAIN FileEndKeys
  \/ ChannelStrings /\ p = Channel
  \/ VoiceEnd /\ p = Channel /\ f \in DOMAIN VoiceEndKeys
  \/ AllocateRelations /\ p = User /\ f = "relations"

LEMMA GotElsewhere ==
  ASSUME NEW fields, DOMAIN fields = DOMAIN Parts, \A q \in DOMAIN Parts : DOMAIN fields[q] = Parts[q],
         NEW obj, NEW keys, GotStrings(fields, obj, keys),
         NEW p \in DOMAIN Parts, NEW f \in Parts[p], p # obj \/ f \notin DOMAIN keys
  PROVE  field'[p][f] = fields[p][f]
<1>1. CASE p # obj BY <1>1 DEF GotStrings
<1>2. CASE p = obj /\ f \notin DOMAIN keys BY <1>2 DEF GotStrings
<1> QED BY <1>1, <1>2

LEMMA Kept ==
  ASSUME Core, FetchNext, Reading1, NEW p \in DOMAIN Parts, NEW f \in Parts[p], ~Writes(p, f)
  PROVE  field'[p][f] = field[p][f]
<1>0. FieldInv /\ DOMAIN field = DOMAIN Parts /\ \A q \in DOMAIN Parts : DOMAIN field[q] = Parts[q]
  BY DEF Core, FieldInv
<1>1. CASE UserStrings
  <2>1. GotStrings(Wiped("user", NULL), User, UserKeys) BY <1>1, UserReads
  <2>2. p \in Relations \/ p[1] # "user" BY <1>1 DEF Writes
  <2>3. p # User
    <3>1. User \notin Relations BY DEF User, Relations, Relation
    <3> QED BY <2>2, <3>1, Heads
  <2>4. Wiped("user", NULL)[p] = field[p] BY <2>2 DEF Wiped
  <2>5. FieldOk(Wiped("user", NULL)) BY <1>0, WipedOk DEF Nowhere
  <2>6. PICK fields : fields = Wiped("user", NULL) OBVIOUS
  <2>7. DOMAIN fields = DOMAIN Parts /\ \A q \in DOMAIN Parts : DOMAIN fields[q] = Parts[q]
    BY <2>5, <2>6 DEF FieldOk
  <2>8. GotStrings(fields, User, UserKeys) BY <2>1, <2>6
  <2>9. field'[p][f] = fields[p][f] BY <2>3, <2>7, <2>8, GotElsewhere
  <2> QED BY <2>4, <2>6, <2>9
<1>2. CASE Status BY <1>0, <1>2, StatusReads, GotElsewhere DEF Writes
<1>3. CASE Bot BY <1>0, <1>3, BotReads, GotElsewhere DEF Writes
<1>4. CASE RelationString
  <2>1. GotStrings(field, Relation(count + 1), RelationKeys) BY <1>4, RelationReads
  <2>2. p # Relation(count + 1) BY <1>4 DEF Writes
  <2> QED BY <1>0, <2>1, <2>2, GotElsewhere
<1>5. CASE FileStrings /\ file # NoWrapper
  <2>1. GotStrings(FileNulled, File, FileKeys) BY <1>5, FileReads
  <2>2. p # File BY <1>5 DEF Writes
  <2>3. kind \in Kinds BY DEF Core, PlaceInv
  <2>4. FieldOk(FileNulled) /\ FileNulled[p] = field[p] BY <1>0, <2>2, <2>3, FileNulledIs
  <2>5. PICK fields : fields = FileNulled OBVIOUS
  <2>6. DOMAIN fields = DOMAIN Parts /\ \A q \in DOMAIN Parts : DOMAIN fields[q] = Parts[q]
    BY <2>4, <2>5 DEF FieldOk
  <2>7. GotStrings(fields, File, FileKeys) BY <2>1, <2>5
  <2>8. field'[p][f] = fields[p][f] BY <2>2, <2>6, <2>7, GotElsewhere
  <2> QED BY <2>4, <2>5, <2>8
<1>6. CASE FileEnd BY <1>0, <1>6, FileEndReads, GotElsewhere DEF Writes
<1>7. CASE ChannelStrings BY <1>0, <1>7, ChannelReads, GotElsewhere DEF Writes
<1>8. CASE VoiceEnd BY <1>0, <1>8, VoiceEndReads, GotElsewhere DEF Writes
<1>9. CASE ChannelType
  <2>1. field' = Wiped("channel", NULL) BY <1>9 DEF ChannelType
  <2>2. p[1] # "channel" BY <1>9 DEF Writes
  <2> QED BY <1>0, <2>1, <2>2, WipedFields
<1>10. CASE AllocateRelations
  <2>1. \/ field' = [field EXCEPT ![User].relations = <<"user", "relations">>]
        \/ field' = field
    BY <1>10 DEF AllocateRelations
  <2>2. p # User \/ f # "relations" BY <1>10 DEF Writes
  <2>3. CASE field' = [field EXCEPT ![User].relations = <<"user", "relations">>]
    BY <1>0, <2>2, <2>3, Allocated
  <2> QED BY <2>1, <2>3
<1>11. CASE ~ChannelType /\ ~AllocateRelations /\ ~StringActions
  <2>1. ~Fetch
    <3>1. at \in OpenPlaces BY ReadingPlaces
    <3> QED BY <3>1 DEF Fetch, OpenPlaces, UserPlaces, ChannelPlaces, FilePlaces
  <2> QED BY <1>11, <2>1, FieldSame
<1> QED BY <1>1, <1>2, <1>3, <1>4, <1>5, <1>6, <1>7, <1>8, <1>9, <1>10, <1>11 DEF StringActions

(* Which step comes before each of the places where something has been read. *)
LEMMA UserMoves ==
  ASSUME Reads, kind = "user"
  PROVE  /\ at' \in AfterUser => UserStrings \/ (at \in AfterUser /\ ~UserStrings)
         /\ at' \in AfterStatus => Status \/ at \in AfterStatus
         /\ at' \in AfterPresence => Presence \/ at \in AfterPresence
         /\ at' \in AfterRelations =>
              NoMoreRelations \/ (GetRelations /\ at' = "relationship") \/ at \in AfterRelations
         /\ at' \in AfterRelationship => Relationship \/ at \in AfterRelationship
         /\ at' \in AfterBot => Bot \/ at \in AfterBot
         /\ ~revolt_channel_deserialize_json_obj
<1> USE DEF AfterUser, AfterFile, AfterType, AfterFileEnd, AfterStatus, AfterPresence, AfterRelations,
            AfterRelationship, AfterBot, InRelations, Goes
<1>0. ~revolt_channel_deserialize_json_obj /\ at # "icon"
  <2>1. at \notin ChannelPlaces BY DEF Reads, Core, PlaceInv
  <2> QED BY <2>1, Course DEF revolt_channel_deserialize_json_obj, ChannelPlaces
<1>1. CASE FileActions
  <2>1. CASE GetFile BY <1>0, <2>1, Course
  <2>2. CASE FileStrings BY <1>0, <2>2, ReadCourse
  <2>3. CASE GetMetadata BY <1>0, <2>3, Course
  <2>4. CASE revolt_file_metadata_deserialize_json_obj BY <1>0, <2>4, ReadCourse
  <2>5. CASE FileEnd BY <1>0, <2>5, Course
  <2> QED BY <1>0, <1>1, <2>1, <2>2, <2>3, <2>4, <2>5 DEF FileActions
<1>2. CASE revolt_user_deserialize_json_obj
  <2> QED BY <1>0, <1>2, Course DEF revolt_user_deserialize_json_obj
<1> QED BY <1>0, <1>1, <1>2 DEF Reads, Reading1

LEMMA FileMoves ==
  ASSUME Reads
  PROVE  /\ at' \in AfterFile => FileStrings \/ at \in AfterFile \/ (ChannelStrings /\ at' = "leave")
         /\ at' \in AfterType => \/ revolt_file_metadata_deserialize_json_obj \/ at \in AfterType
                                 \/ (ChannelStrings /\ at' = "leave")
         /\ at' \in AfterFileEnd => FileEnd \/ at \in AfterFileEnd \/ (ChannelStrings /\ at' = "leave")
         /\ at' \in FilePlaces => GetFile \/ at \in FilePlaces
         /\ at' = "metadata type" => GetMetadata
<1> USE DEF AfterFile, AfterType, AfterFileEnd, AfterStatus, AfterPresence, AfterRelations,
            AfterRelationship, AfterBot, InRelations, Goes, FilePlaces
<1>0. kind \in Kinds BY DEF Reads, Core, PlaceInv
<1>1. CASE FileActions
  <2>1. CASE GetFile BY <2>1, Course
  <2>2. CASE FileStrings BY <2>2, ReadCourse
  <2>3. CASE GetMetadata BY <2>3, Course
  <2>4. CASE revolt_file_metadata_deserialize_json_obj BY <2>4, ReadCourse
  <2>5. CASE FileEnd BY <2>5, Course
  <2> QED BY <1>1, <2>1, <2>2, <2>3, <2>4, <2>5 DEF FileActions
<1>2. CASE revolt_user_deserialize_json_obj
  BY <1>2, Course DEF revolt_user_deserialize_json_obj
<1>3. CASE revolt_channel_deserialize_json_obj
  BY <1>3, Course, ReadCourse DEF revolt_channel_deserialize_json_obj
<1> QED BY <1>1, <1>2, <1>3 DEF Reads, Reading1

LEMMA ChannelMoves ==
  ASSUME Reads, kind = "channel"
  PROVE  /\ at = "channel" => ChannelType
         /\ at' # "channel"
         /\ at' \in AfterStrings => ChannelStrings \/ at \in AfterStrings
         /\ at' \in AfterNumbers => \/ Permissions \/ at \in AfterNumbers
                                    \/ (ChannelStrings /\ at' = "leave")
         /\ ~revolt_user_deserialize_json_obj
<1> USE DEF AfterStrings, AfterFile, AfterType, AfterFileEnd, AfterStatus, AfterPresence, AfterRelations,
            AfterRelationship, AfterBot, InRelations, Goes, FilePlaces, AfterNumbers
<1>0. ~revolt_user_deserialize_json_obj /\ at # "avatar"
  <2>1. at \notin UserPlaces BY DEF Reads, Core, PlaceInv
  <2> QED BY <2>1, Course DEF revolt_user_deserialize_json_obj, UserPlaces
<1>1. CASE FileActions
  <2>1. CASE GetFile BY <1>0, <2>1, Course
  <2>2. CASE FileStrings BY <1>0, <2>2, ReadCourse
  <2>3. CASE GetMetadata BY <1>0, <2>3, Course
  <2>4. CASE revolt_file_metadata_deserialize_json_obj BY <1>0, <2>4, ReadCourse
  <2>5. CASE FileEnd BY <1>0, <2>5, Course
  <2> QED BY <1>0, <1>1, <2>1, <2>2, <2>3, <2>4, <2>5 DEF FileActions
<1>3. CASE revolt_channel_deserialize_json_obj
  BY <1>0, <1>3, Course, ReadCourse DEF revolt_channel_deserialize_json_obj
<1> QED BY <1>0, <1>1, <1>3 DEF Reads, Reading1

(* Who writes into which part.                                               *)
LEMMA Writers ==
  ASSUME Reads
  PROVE  /\ \A f : Writes(User, f) => \/ UserStrings \/ (Status /\ f = "text") \/ (Bot /\ f = "owner_id")
                                      \/ (AllocateRelations /\ f = "relations")
         /\ \A f : Writes(File, f) => \/ UserStrings \/ ChannelType \/ FileStrings
                                      \/ (FileEnd /\ f \in DOMAIN FileEndKeys)
         /\ \A i \in 1 .. MostRelations : \A f : Writes(Relation(i), f) => RelationString /\ i = count + 1
         /\ \A f : Writes(Channel, f) => \/ ChannelType \/ ChannelStrings
                                         \/ (VoiceEnd /\ f \in DOMAIN VoiceEndKeys)
<1>1. RelationString => count + 1 \in 1 .. MostRelations BY RelationReads DEF Reads
<1>2. kind \in Kinds BY DEF Reads, Core, PlaceInv
<1>3. \A i \in 1 .. MostRelations : Relation(i) \in Relations BY DEF Relations
<1>4. DOMAIN StatusKeys = {"text"} /\ DOMAIN BotKeys = {"owner_id"} BY KeyDomains
<1>5. \A f : Writes(User, f) => \/ UserStrings \/ (Status /\ f = "text") \/ (Bot /\ f = "owner_id")
                                \/ (AllocateRelations /\ f = "relations")
  BY <1>1, <1>4, Apart, Heads DEF Writes
<1>6. \A f : Writes(File, f) => \/ UserStrings \/ ChannelType \/ FileStrings
                                \/ (FileEnd /\ f \in DOMAIN FileEndKeys)
  BY <1>1, Apart DEF Writes
<1>7. \A i \in 1 .. MostRelations : \A f : Writes(Relation(i), f) => RelationString /\ i = count + 1
  BY <1>1, <1>3, Apart, Heads DEF Writes
<1>8. \A f : Writes(Channel, f) => \/ ChannelType \/ ChannelStrings
                                   \/ (VoiceEnd /\ f \in DOMAIN VoiceEndKeys)
  BY <1>1, Apart, Heads DEF Writes
<1> QED BY <1>5, <1>6, <1>7, <1>8

(* Which step sets which enumerator.                                         *)
Sets(v) ==
  \/ revolt_file_metadata_deserialize_json_obj /\ v = File
  \/ Presence /\ v = <<"user", "presence">>
  \/ Relationship /\ v = <<"user", "relationship">>
  \/ RelationStatus /\ v = Relation(count + 1)
  \/ ChannelType /\ v = <<"channel", "type">>

LEMMA ValueKept ==
  ASSUME Reads, NEW v \in Values, ~Sets(v)
  PROVE  value'[v] = value[v]
<1>0. DOMAIN value = Values BY ReadsOn
<1>1. ASSUME NEW u, NEW m, value' = [value EXCEPT ![u] = m], u # v PROVE value'[v] = value[v]
  BY <1>0, <1>1
<1>2. CASE revolt_file_metadata_deserialize_json_obj
  <2>1. \/ value' = value
        \/ \E name : GetName(buf, <<"type">>, name, File, metadata_type(name))
    BY <1>2 DEF revolt_file_metadata_deserialize_json_obj
  <2> QED BY <1>1, <1>2, <2>1, NameFrame DEF Sets
<1>3. CASE Presence BY <1>1, <1>3, NameFrame DEF Presence, Sets
<1>4. CASE Relationship BY <1>1, <1>4, NameFrame DEF Relationship, Sets
<1>5. CASE RelationStatus
  <2>0. PICK name : GetName(buf, <<"status">>, name, Relation(count + 1),
                            user_relationship_status_from_str(name))
    BY <1>5 DEF RelationStatus
  <2>1. PICK u, m : u = Relation(count + 1) /\ value' = [value EXCEPT ![u] = m]
    BY <2>0, NameFrame
  <2>2. u # v BY <1>5, <2>1 DEF Sets
  <2> QED BY <1>1, <2>1, <2>2
<1>6. CASE ChannelType BY <1>1, <1>6, NameFrame DEF ChannelType, Sets
<1>7. CASE GetFile \/ GetMetadata \/ FileStrings \/ FileEnd
  BY <1>7 DEF GetFile, GetMetadata, FileStrings, FileEnd, object_vars
<1>8. CASE UserStrings \/ Status \/ GetRelations \/ AllocateRelations \/ FirstRelation \/ RelationString
           \/ NextRelation \/ RelationsMissing \/ NoMoreRelations \/ Bot
  BY <1>8 DEF UserStrings, Status, GetRelations, AllocateRelations, FirstRelation, RelationString,
     NextRelation, RelationsMissing, NoMoreRelations, Bot, object_vars
<1>9. CASE ChannelStrings \/ Permissions \/ VoiceEnd
  BY <1>9 DEF ChannelStrings, Permissions, VoiceEnd
<1> QED BY <1>2, <1>3, <1>4, <1>5, <1>6, <1>7, <1>8, <1>9
     DEF Reads, Reading1, FileActions, revolt_user_deserialize_json_obj, revolt_channel_deserialize_json_obj

(* An enumerator that is not set means what it meant.                        *)
LEMMA MeansStill ==
  ASSUME Reads, NEW v \in Values, ~Sets(v), NEW m, Means(v, m)
  PROVE  AllocationFailed' \/ value'[v] = m
<1>1. AllocationFailed => AllocationFailed' BY ReadsOn, FailedMore
<1>2. value'[v] = value[v] BY ValueKept
<1> QED BY <1>1, <1>2 DEF Means

(* A wrapper for the root gives what is found under the key itself.          *)
LEMMA OneKey == ASSUME NEW S, NEW a \in S PROVE <<a>> \in Seq(S)
OBVIOUS

LEMMA TwoKeys == ASSUME NEW S, NEW a \in S, NEW b \in S PROVE <<a, b>> \in Seq(S)
OBVIOUS

(* The words of paths to names and numbers.                                  *)
NameWords ==
  {"status", "presence", "relationship", "channel_type", "permissions", "default_permissions",
   "a", "d"}

LEMMA NamePaths ==
  /\ <<"status", "presence">> \in Seq(NameWords) /\ <<"relationship">> \in Seq(NameWords)
  /\ <<"channel_type">> \in Seq(NameWords) /\ <<"permissions">> \in Seq(NameWords)
  /\ <<"default_permissions", "a">> \in Seq(NameWords)
  /\ <<"default_permissions", "d">> \in Seq(NameWords)
<1>1. /\ "status" \in NameWords /\ "presence" \in NameWords /\ "relationship" \in NameWords
      /\ "channel_type" \in NameWords /\ "permissions" \in NameWords /\ "a" \in NameWords
      /\ "d" \in NameWords /\ "default_permissions" \in NameWords
  BY DEF NameWords
<1> QED BY <1>1, OneKey, TwoKeys

LEMMA RootIs ==
  ASSUME Reads, NEW key \in Seq(NameWords)
  PROVE  At(root, key) = key
<1>1. root = 1 /\ json[1].val = <<>> BY ReadsOn
<1>2. <<>> \o key = key BY ConcatEmptySeq
<1> QED BY <1>1, <1>2 DEF At, NoWrapper

LEMMA RootTold ==
  ASSUME Reads, NEW path \in Seq(NameWords), NEW v \in Values, NEW name, NEW m,
         GetName(root, path, name, v, m)
  PROVE  value'[v] = m /\ (name = NameIn(doc, path) \/ (name = NoName /\ AllocationFailed'))
<1>1. /\ failures \in 0 .. MaxFailures /\ root # NoWrapper /\ v \in DOMAIN value
  BY ReadsOn DEF NoWrapper
<1>2. At(root, path) = path BY RootIs
<1>3. value'[v] = m /\ (name = NameIn(doc, At(root, path)) \/ (name = NoName /\ AllocationFailed'))
  BY <1>1, NameTold
<1> QED BY <1>2, <1>3

(* Fields of a part that is read again or not at all.                        *)
LEMMA KeepsHeld ==
  ASSUME Reads, NEW obj \in DOMAIN Parts, NEW path, NEW keys, DOMAIN keys \subseteq Parts[obj],
         FieldsHold(obj, path, keys), \A f \in DOMAIN keys : ~Writes(obj, f)
  PROVE  FieldsHoldThen(obj, path, keys)
<1>1. \A f \in DOMAIN keys : field'[obj][f] = field[obj][f] BY Kept DEF Reads
<1>2. failures \in 0 .. MaxFailures /\ Spends /\ doc' = doc BY ReadsOn
<1> QED BY <1>1, <1>2, HeldStill

(* The strings that the root gives.                                          *)
LEMMA RootHeld ==
  ASSUME Reads, NEW fields, FieldOk(fields), NEW obj \in {User, Channel}, NEW keys, FewKeys(keys),
         KeyTable(keys, obj), GetStrings(fields, obj, root, keys)
  PROVE  FieldsHoldThen(obj, <<>>, keys)
<1>1. failures \in 0 .. MaxFailures /\ JsonType /\ root = 1 /\ json[1].val = <<>> BY ReadsOn
<1>2. obj \in DOMAIN Parts /\ Head(obj) = obj[1] BY PartsAre, Heads
<1>3. obj \in DOMAIN fields /\ DOMAIN keys \subseteq DOMAIN fields[obj]
  BY <1>2 DEF FieldOk, KeyTable
<1>4. root # NoWrapper => json[root].val = <<>> BY <1>1
<1>5. root = NoWrapper => AllocationFailed BY <1>1 DEF NoWrapper
<1>6. PICK path : path = <<>> OBVIOUS
<1>7. FieldsHoldThen(obj, path, keys) BY <1>1, <1>2, <1>3, <1>4, <1>5, <1>6, StringsHeld
<1> QED BY <1>6, <1>7

LEMMA UserReadStep ==
  ASSUME Reads, kind = "user"
  PROVE  UserRead'
<1>0. /\ UserRead /\ FieldInv /\ FieldOk(field) /\ doc' = doc /\ User \in DOMAIN Parts
      /\ failures \in 0 .. MaxFailures /\ root # NoWrapper /\ DOMAIN value = Values
  <2>1. FieldInv BY DEF Reads, Core
  <2> QED BY <2>1, ReadsOn, FieldOkNow, PartsAre DEF NoWrapper
<1>1. ASSUME at' \in AfterUser PROVE FieldsHoldThen(User, <<>>, UserKeys)
  <2>1. CASE UserStrings
    <3>1. PICK fields : fields = Wiped("user", NULL) OBVIOUS
    <3>2. GetStrings(fields, User, root, UserKeys) BY <2>1, <3>1 DEF UserStrings
    <3>3. FieldOk(fields) BY <1>0, <3>1, WipedOk DEF Nowhere
    <3> QED BY <3>2, <3>3, Tables, TablesSmall, RootHeld
  <2>2. CASE at \in AfterUser /\ ~UserStrings
    <3>1. FieldsHold(User, <<>>, UserKeys) BY <1>0, <2>2 DEF UserRead
    <3>2. ASSUME NEW f \in DOMAIN UserKeys PROVE ~Writes(User, f)
      <4>1. f # "text" /\ f # "owner_id" /\ f # "relations" BY <3>2, KeyDomains
      <4> QED BY <2>2, <4>1, Writers
    <3>3. DOMAIN UserKeys \subseteq Parts[User] BY Tables DEF KeyTable
    <3> QED BY <1>0, <3>1, <3>2, <3>3, KeepsHeld
  <2> QED BY <1>1, <2>1, <2>2, UserMoves
<1>2. ASSUME at' \in AfterStatus PROVE FieldsHoldThen(User, <<>>, StatusKeys)
  <2>1. CASE Status
    <3>1. GetStrings(field, User, root, StatusKeys) BY <2>1 DEF Status
    <3> QED BY <1>0, <3>1, Tables, TablesSmall, RootHeld
  <2>2. CASE at \in AfterStatus /\ ~Status
    <3>1. FieldsHold(User, <<>>, StatusKeys) BY <1>0, <2>2 DEF UserRead
    <3>2. ~UserStrings
      BY <2>2, Course
      DEF Goes, AfterStatus, AfterPresence, InRelations, AfterRelations, AfterRelationship, AfterBot
    <3>3. ASSUME NEW f \in DOMAIN StatusKeys PROVE ~Writes(User, f)
      <4>1. f = "text" BY <3>3, KeyDomains
      <4> QED BY <2>2, <3>2, <4>1, Writers
    <3>4. DOMAIN StatusKeys \subseteq Parts[User] BY Tables DEF KeyTable
    <3> QED BY <1>0, <3>1, <3>3, <3>4, KeepsHeld
  <2> QED BY <1>2, <2>1, <2>2, UserMoves
<1>3. ASSUME at' \in AfterBot PROVE FieldsHoldThen(User, <<>>, BotKeys)
  <2>1. CASE Bot
    <3>1. GetStrings(field, User, root, BotKeys) BY <2>1 DEF Bot
    <3> QED BY <1>0, <3>1, Tables, TablesSmall, RootHeld
  <2>2. CASE at \in AfterBot
    <3>1. at # "leave" BY ReadingPlaces DEF Reads
    <3> QED BY <2>2, <3>1 DEF AfterBot
  <2> QED BY <1>3, <2>1, <2>2, UserMoves
<1>4. ASSUME at' \in AfterPresence
      PROVE  \/ AllocationFailed'
             \/ value'[<<"user", "presence">>] =
                  user_presence_from_str(NameIn(doc, <<"status", "presence">>))
  <2>0. PICK v : v = <<"user", "presence">> OBVIOUS
  <2>a. v \in Values BY <2>0 DEF Values
  <2>1. CASE Presence
    <3>1. PICK name : GetName(root, <<"status", "presence">>, name, v, user_presence_from_str(name))
      BY <2>0, <2>1 DEF Presence
    <3>2. PICK path : path = <<"status", "presence">> OBVIOUS
    <3>3. path \in Seq(NameWords) BY <3>2, NamePaths
    <3>4. PICK m : m = user_presence_from_str(name) OBVIOUS
    <3>5. GetName(root, path, name, v, m) BY <3>1, <3>2, <3>4
    <3>6. value'[v] = m /\ (name = NameIn(doc, path) \/ (name = NoName /\ AllocationFailed'))
      BY <2>a, <3>3, <3>5, RootTold
    <3> QED BY <2>0, <3>2, <3>4, <3>6
  <2>2. CASE at \in AfterPresence /\ ~Presence
    <3>1. PICK m : m = user_presence_from_str(NameIn(doc, <<"status", "presence">>)) OBVIOUS
    <3>2. Means(v, m) BY <1>0, <2>0, <2>2, <3>1 DEF UserRead
    <3>3. ~Sets(v)
      <4>1. v # File BY <2>0 DEF File
      <4>2. v # Relation(count + 1) BY <2>0 DEF Relation
      <4> QED BY <2>0, <2>2, <4>1, <4>2 DEF Sets
    <3> QED BY <2>0, <2>a, <3>1, <3>2, <3>3, MeansStill
  <2> QED BY <1>4, <2>1, <2>2, UserMoves
<1>5. ASSUME at' \in AfterRelationship
      PROVE  \/ AllocationFailed'
             \/ value'[<<"user", "relationship">>] =
                  user_relationship_status_from_str(NameIn(doc, <<"relationship">>))
  <2>0. PICK v : v = <<"user", "relationship">> OBVIOUS
  <2>a. v \in Values BY <2>0 DEF Values
  <2>1. CASE Relationship
    <3>1. PICK name : GetName(root, <<"relationship">>, name, v, user_relationship_status_from_str(name))
      BY <2>0, <2>1 DEF Relationship
    <3>2. PICK path : path = <<"relationship">> OBVIOUS
    <3>3. path \in Seq(NameWords) BY <3>2, NamePaths
    <3>4. PICK m : m = user_relationship_status_from_str(name) OBVIOUS
    <3>5. GetName(root, path, name, v, m) BY <3>1, <3>2, <3>4
    <3>6. value'[v] = m /\ (name = NameIn(doc, path) \/ (name = NoName /\ AllocationFailed'))
      BY <2>a, <3>3, <3>5, RootTold
    <3> QED BY <2>0, <3>2, <3>4, <3>6
  <2>2. CASE at \in AfterRelationship /\ ~Relationship
    <3>1. PICK m : m = user_relationship_status_from_str(NameIn(doc, <<"relationship">>)) OBVIOUS
    <3>2. Means(v, m) BY <1>0, <2>0, <2>2, <3>1 DEF UserRead
    <3>3. ~Sets(v)
      <4>1. v # File BY <2>0 DEF File
      <4>2. v # Relation(count + 1) BY <2>0 DEF Relation
      <4> QED BY <2>0, <2>2, <4>1, <4>2 DEF Sets
    <3> QED BY <2>0, <2>a, <3>1, <3>2, <3>3, MeansStill
  <2> QED BY <1>5, <2>1, <2>2, UserMoves
<1>6. FieldsHoldThen(User, <<>>, UserKeys) => FieldsHold(User, <<>>, UserKeys)'
  BY DEF FieldsHold, FieldsHoldThen, Holds, HoldsThen
<1>7. FieldsHoldThen(User, <<>>, StatusKeys) => FieldsHold(User, <<>>, StatusKeys)'
  BY DEF FieldsHold, FieldsHoldThen, Holds, HoldsThen
<1>8. FieldsHoldThen(User, <<>>, BotKeys) => FieldsHold(User, <<>>, BotKeys)'
  BY DEF FieldsHold, FieldsHoldThen, Holds, HoldsThen
<1>9. NameIn(doc, <<"status", "presence">>) = NameIn(doc, <<"status", "presence">>)'
      /\ NameIn(doc, <<"relationship">>) = NameIn(doc, <<"relationship">>)'
  BY <1>0 DEF NameIn
<1>10. at' \in AfterPresence =>
         Means(<<"user", "presence">>, user_presence_from_str(NameIn(doc, <<"status", "presence">>)))'
  BY <1>4, <1>9 DEF Means
<1>11. at' \in AfterRelationship =>
         Means(<<"user", "relationship">>,
               user_relationship_status_from_str(NameIn(doc, <<"relationship">>)))'
  BY <1>5, <1>9 DEF Means
<1> QED BY <1>1, <1>2, <1>3, <1>6, <1>7, <1>8, <1>10, <1>11 DEF UserRead

(* Without a name a channel has no type.                                     *)
LEMMA NoType == channel_type_from_str(NoName) = "UNKNOWN"
<1>1. Spelling["none"][1] = "" BY DEF Spelling
<1>2. Letter(NoName) = "" BY <1>1 DEF Letter, NoName
<1> QED BY <1>2 DEF channel_type_from_str, ByLetter

(* A number in range is what get_i64 returns.                                *)
LEMMA NumberIs ==
  ASSUME Reads, NEW key \in Seq(NameWords), key \in DOMAIN doc.numbers, doc.numbers[key] \in I64
  PROVE  revoltc_json_get_i64(root, key) = {doc.numbers[key]}
<1>1. At(root, key) = key BY RootIs
<1>2. root # NoWrapper BY ReadsOn DEF NoWrapper
<1>3. PICK n : n = doc.numbers[key] OBVIOUS
<1>4. n \in I64 /\ ~(n < -MaxI64 - 1) /\ ~(n > MaxI64 + 1)
  BY <1>3, MaxI64Assumption DEF I64
<1> QED BY <1>1, <1>2, <1>3, <1>4 DEF revoltc_json_get_i64

LEMMA BitsKept ==
  ASSUME Reads, ~Permissions, ~ChannelType
  PROVE  bits' = bits
<1>1. CASE StringActions
  <2>1. CASE FileStrings /\ file # NoWrapper BY <2>1, StringsFrame DEF FileStrings
  <2>2. CASE ~FileStrings
    BY <1>1, <2>2, StringsFrame
    DEF StringActions, UserStrings, Status, Bot, RelationString, FileEnd, ChannelStrings, VoiceEnd
  <2>3. CASE FileStrings /\ file = NoWrapper BY <2>3, ReadCourse
  <2> QED BY <2>1, <2>2, <2>3
<1>2. CASE Looks
  BY <1>2 DEF Looks, GetFile, GetMetadata, GetRelations, FirstRelation, NextRelation, object_vars
<1>3. CASE FileStrings BY <1>1, <1>3, ReadCourse DEF StringActions
<1>4. CASE AllocateRelations \/ RelationsMissing \/ NoMoreRelations \/ Presence \/ RelationStatus
           \/ Relationship \/ revolt_file_metadata_deserialize_json_obj
  BY <1>4 DEF AllocateRelations, RelationsMissing, NoMoreRelations, Presence, RelationStatus,
     Relationship, revolt_file_metadata_deserialize_json_obj, object_vars
<1> QED BY <1>1, <1>2, <1>3, <1>4
     DEF Reads, Reading1, FileActions, revolt_user_deserialize_json_obj, revolt_channel_deserialize_json_obj,
         StringActions, Looks

LEMMA TypeRead ==
  ASSUME Reads, kind = "channel"
  PROVE  type' = TypeIn(doc)'
<1>1. doc' = doc /\ ChannelRead BY ReadsOn
<1>2. TypeIn(doc)' = TypeIn(doc) BY <1>1 DEF TypeIn, NameIn
<1>3. CASE ChannelType
  <2>1. PICK v : v = <<"channel", "type">> OBVIOUS
  <2>2. v \in Values BY <2>1 DEF Values
  <2>3. PICK name : GetName(root, <<"channel_type">>, name, v, channel_type_from_str(name))
    BY <1>3, <2>1 DEF ChannelType
  <2>4. PICK path : path = <<"channel_type">> OBVIOUS
  <2>5. path \in Seq(NameWords) BY <2>4, NamePaths
  <2>6. PICK m : m = channel_type_from_str(name) OBVIOUS
  <2>7. GetName(root, path, name, v, m) BY <2>3, <2>4, <2>6
  <2>8. value'[v] = m /\ (name = NameIn(doc, path) \/ name = NoName)
    BY <2>2, <2>5, <2>7, RootTold
  <2>9. type' = m
    <3>1. value'[v] = m BY <2>8
    <3> QED BY <2>1, <3>1 DEF type
  <2>10. m # "UNKNOWN" BY <1>3, <2>9, ReadCourse
  <2>11. name # NoName BY <2>6, <2>10, NoType
  <2> QED BY <1>2, <2>4, <2>6, <2>8, <2>9, <2>11 DEF TypeIn
<1>4. CASE ~ChannelType
  <2>1. at # "channel" BY <1>4, ChannelMoves
  <2>2. type' = type BY <1>4, ValueStep DEF Reads
  <2> QED BY <1>1, <1>2, <2>1, <2>2 DEF ChannelRead
<1> QED BY <1>3, <1>4

LEMMA AfterStringsApart ==
  at \in AfterStrings => at # "strings" /\ at # "channel" /\ at # "user"
BY DEF AfterStrings, AfterFile, AfterType, AfterFileEnd, AfterStatus, AfterPresence, AfterRelations,
       AfterRelationship, AfterBot, InRelations

LEMMA ChannelStringsRead ==
  ASSUME Reads, kind = "channel", at' \in AfterStrings
  PROVE  FieldsHoldThen(Channel, <<>>, ChannelKeys(type))
<1>0. /\ ChannelRead /\ FieldInv /\ FieldOk(field) /\ doc' = doc /\ Channel \in DOMAIN Parts
      /\ DOMAIN ChannelKeys(type) \subseteq Parts[Channel]
  <2>1. FieldInv BY DEF Reads, Core
  <2> QED BY <2>1, ReadsOn, FieldOkNow, PartsAre, Tables DEF KeyTable
<1>1. CASE ChannelStrings
  <2>1. GetStrings(field, Channel, root, ChannelKeys(type)) BY <1>1 DEF ChannelStrings
  <2> QED BY <1>0, <2>1, Tables, TablesSmall, RootHeld
<1>2. CASE at \in AfterStrings
  <2>1. FieldsHold(Channel, <<>>, ChannelKeys(type)) BY <1>0, <1>2 DEF ChannelRead
  <2>2. ~ChannelStrings /\ ~ChannelType BY <1>2, AfterStringsApart, Course
  <2>3. CASE ~VoiceEnd
    <3>1. \A f : ~Writes(Channel, f) BY <2>2, <2>3, Writers
    <3> QED BY <1>0, <2>1, <3>1, KeepsHeld
  <2>4. CASE VoiceEnd
    <3>1. GetStrings(field, Channel, root, VoiceEndKeys) BY <2>4 DEF VoiceEnd
    <3>2. FieldsHoldThen(Channel, <<>>, VoiceEndKeys) BY <1>0, <3>1, Tables, TablesSmall, RootHeld
    <3>3. type = "VOICE"
      <4>1. at = "voice end" BY <2>4, Course DEF Goes
      <4> QED BY <4>1 DEF Reads, Core, UnsetInv, TypeInv
    <3>4. ChannelKeys(type) = VoiceKeys BY <3>3 DEF ChannelKeys
    <3>5. /\ DOMAIN VoiceEndKeys = {"id"} /\ VoiceEndKeys["id"] = VoiceKeys["id"]
      BY DEF VoiceEndKeys, VoiceKeys
    <3>6. AllocationFailed => AllocationFailed' BY ReadsOn, FailedMore
    <3>7. ASSUME NEW f \in DOMAIN VoiceKeys
          PROVE HoldsThen(field'[Channel][f], Channel[1], <<>> \o VoiceKeys[f])
      <4>1. CASE f = "id" BY <3>2, <3>5, <4>1 DEF FieldsHoldThen
      <4>2. CASE f # "id"
        <5>1. ~Writes(Channel, f) BY <2>2, <3>5, <4>2, Writers
        <5>2. f \in Parts[Channel] BY <1>0, <3>4
        <5>3. field'[Channel][f] = field[Channel][f] BY <1>0, <5>1, <5>2, Kept DEF Reads
        <5>4. Holds(field[Channel][f], Channel[1], <<>> \o VoiceKeys[f])
          BY <2>1, <3>4 DEF FieldsHold
        <5> QED BY <1>0, <3>6, <5>3, <5>4 DEF Holds, HoldsThen
      <4> QED BY <4>1, <4>2
    <3> QED BY <3>4, <3>7 DEF FieldsHoldThen
  <2> QED BY <2>3, <2>4
<1> QED BY <1>1, <1>2, ChannelMoves

LEMMA ChannelReadStep ==
  ASSUME Reads, kind = "channel"
  PROVE  ChannelRead'
<1>0. ChannelRead /\ doc' = doc /\ at' # "channel"
  BY ReadsOn, ChannelMoves
<1>1. type' = TypeIn(doc)' BY TypeRead
<1>2. at' \in AfterStrings => FieldsHold(Channel, <<>>, ChannelKeys(type))'
  <2>1. ASSUME at' \in AfterStrings PROVE FieldsHoldThen(Channel, <<>>, ChannelKeys(type))
    BY <2>1, ChannelStringsRead
  <2>2. ASSUME at' \in AfterStrings PROVE ChannelKeys(type') = ChannelKeys(type)
    <3>1. ~ChannelType
      <4>1. at' # "strings"
        BY <2>2 DEF AfterStrings, AfterFile, AfterType, AfterFileEnd, AfterStatus, AfterPresence,
           AfterRelations, AfterRelationship, AfterBot, InRelations
      <4> QED BY <4>1, ReadCourse DEF Goes
    <3>2. type' = type BY <3>1, ValueStep DEF Reads
    <3> QED BY <3>2
  <2>3. PICK keys : keys = ChannelKeys(type) OBVIOUS
  <2>4. PICK then : then = ChannelKeys(type') OBVIOUS
  <2>5. at' \in AfterStrings => FieldsHoldThen(Channel, <<>>, then) BY <2>1, <2>2, <2>3, <2>4
  <2>6. FieldsHoldThen(Channel, <<>>, then) => FieldsHold(Channel, <<>>, ChannelKeys(type))'
    BY <2>4 DEF FieldsHold, FieldsHoldThen, Holds, HoldsThen
  <2> QED BY <2>5, <2>6
<1>3. CASE Permissions
  <2>1. type' = type
    <3>1. ~ChannelType BY <1>3, Course
    <3> QED BY <3>1, ValueStep DEF Reads
  <2> DEFINE number(b, key) ==
           IF key[1] = (IF type = "GROUP" THEN "permissions" ELSE "default_permissions")
           THEN revoltc_json_get_i64(root, key) ELSE {bits[b]}
  <2>2. PICK p \in number("permissions", <<"permissions">>),
             a \in number("a", <<"default_permissions", "a">>),
             d \in number("d", <<"default_permissions", "d">>) :
               bits' = [permissions |-> p, a |-> a, d |-> d]
    BY <1>3 DEF Permissions
  <2>3. bits'["permissions"] = p /\ bits'["a"] = a /\ bits'["d"] = d BY <2>2
  <2>4. type = "GROUP" => NumberRead("permissions", <<"permissions">>)'
    <3>1. PICK key : key = <<"permissions">> OBVIOUS
    <3>2. key \in Seq(NameWords) BY <3>1, NamePaths
    <3>3. type = "GROUP" => p \in revoltc_json_get_i64(root, key) BY <3>1
    <3>4. type = "GROUP" /\ key \in DOMAIN doc.numbers /\ doc.numbers[key] \in I64 => p = doc.numbers[key]
      BY <3>2, <3>3, NumberIs
    <3> QED BY <1>0, <2>3, <3>1, <3>4 DEF NumberRead, I64
  <2>5. type \in {"TEXT", "VOICE"} => NumberRead("a", <<"default_permissions", "a">>)'
    <3>1. PICK key : key = <<"default_permissions", "a">> OBVIOUS
    <3>2. key \in Seq(NameWords) BY <3>1, NamePaths
    <3>3. type \in {"TEXT", "VOICE"} => a \in revoltc_json_get_i64(root, key) BY <3>1
    <3>4. type \in {"TEXT", "VOICE"} /\ key \in DOMAIN doc.numbers /\ doc.numbers[key] \in I64 =>
            a = doc.numbers[key]
      BY <3>2, <3>3, NumberIs
    <3> QED BY <1>0, <2>3, <3>1, <3>4 DEF NumberRead, I64
  <2>6. type \in {"TEXT", "VOICE"} => NumberRead("d", <<"default_permissions", "d">>)'
    <3>1. PICK key : key = <<"default_permissions", "d">> OBVIOUS
    <3>2. key \in Seq(NameWords) BY <3>1, NamePaths
    <3>3. type \in {"TEXT", "VOICE"} => d \in revoltc_json_get_i64(root, key) BY <3>1
    <3>4. type \in {"TEXT", "VOICE"} /\ key \in DOMAIN doc.numbers /\ doc.numbers[key] \in I64 =>
            d = doc.numbers[key]
      BY <3>2, <3>3, NumberIs
    <3> QED BY <1>0, <2>3, <3>1, <3>4 DEF NumberRead, I64
  <2> HIDE DEF number
  <2> QED BY <1>0, <1>1, <1>2, <2>1, <2>4, <2>5, <2>6 DEF ChannelRead
<1>4. CASE ~Permissions
  <2>1. ASSUME at' \in AfterNumbers, type' \in WithIcon
        PROVE  at \in AfterNumbers /\ type' = type /\ bits' = bits
    <3>1. ~ChannelType
      <4>1. at' # "strings" BY <2>1 DEF AfterNumbers
      <4> QED BY <4>1, ReadCourse DEF Goes
    <3>2. type' = type BY <3>1, ValueStep DEF Reads
    <3>3. ~(ChannelStrings /\ at' = "leave") BY <2>1, <3>2, Course DEF WithIcon
    <3> QED BY <1>4, <2>1, <3>1, <3>2, <3>3, BitsKept, ChannelMoves
  <2>2. at' \in AfterNumbers /\ type' = "GROUP" => NumberRead("permissions", <<"permissions">>)'
    BY <1>0, <2>1 DEF ChannelRead, NumberRead, WithIcon, I64
  <2>3. at' \in AfterNumbers /\ type' \in {"TEXT", "VOICE"} =>
          /\ NumberRead("a", <<"default_permissions", "a">>)'
          /\ NumberRead("d", <<"default_permissions", "d">>)'
    BY <1>0, <2>1 DEF ChannelRead, NumberRead, WithIcon, I64
  <2> QED BY <1>0, <1>1, <1>2, <2>2, <2>3 DEF ChannelRead
<1> QED BY <1>3, <1>4

(* The places after a file has been read in part.                            *)
LEMMA FileApart ==
  /\ at \in AfterFileEnd => at \in AfterType /\ at # "file end"
  /\ at \in AfterType => at \in AfterFile /\ at # "metadata type"
  /\ at \in AfterFile => at # "file" /\ at # "user" /\ at # "channel"
BY DEF AfterFile, AfterType, AfterFileEnd, AfterStatus, AfterPresence, AfterRelations,
       AfterRelationship, AfterBot, InRelations

(* A key is put behind a path.                                               *)
LEMMA ThreeOf ==
  ASSUME NEW S, NEW a \in S, NEW b \in S, NEW c \in S
  PROVE  <<a, b>> \o <<c>> = <<a, b, c>>
<1>1. PICK s, t : s = <<a, b>> /\ t = <<c>> OBVIOUS
<1>2. s \in Seq(S) /\ Len(s) = 2 /\ s[1] = a /\ s[2] = b BY <1>1
<1>3. t \in Seq(S) /\ Len(t) = 1 /\ t[1] = c BY <1>1
<1>4. PICK u : u = s \o t OBVIOUS
<1>5. /\ u \in Seq(S) /\ Len(u) = Len(s) + Len(t)
      /\ \A i \in 1 .. Len(s) + Len(t) : u[i] = IF i <= Len(s) THEN s[i] ELSE t[i - Len(s)]
  BY <1>2, <1>3, <1>4, ConcatProperties
<1>6. Len(u) = 3 /\ u[1] = a /\ u[2] = b /\ u[3] = c BY <1>2, <1>3, <1>5
<1>7. PICK v : v = <<a, b, c>> OBVIOUS
<1>8. v \in Seq(S) /\ Len(v) = 3 /\ v[1] = a /\ v[2] = b /\ v[3] = c BY <1>7
<1>9. \A i \in 1 .. Len(u) : u[i] = v[i] BY <1>6, <1>8
<1>10. u = v BY <1>5, <1>6, <1>8, <1>9, SeqEqual
<1> QED BY <1>1, <1>4, <1>7, <1>10

LEMMA FilePaths ==
  FilePath \o <<"metadata">> = MetadataPath /\ MetadataPath \o <<"type">> = FileNamePath
<1>1. "avatar" \in Words /\ "icon" \in Words /\ "metadata" \in Words BY DEF Words, Literals
<1>2. <<"avatar">> \o <<"metadata">> = <<"avatar", "metadata">>
      /\ <<"icon">> \o <<"metadata">> = <<"icon", "metadata">>
  BY <1>1, TwoOf
<1>3. PICK S : S = {"avatar", "icon", "metadata", "type"} OBVIOUS
<1>4. "avatar" \in S /\ "icon" \in S /\ "metadata" \in S /\ "type" \in S BY <1>3
<1>5. <<"avatar", "metadata">> \o <<"type">> = <<"avatar", "metadata", "type">>
      /\ <<"icon", "metadata">> \o <<"type">> = <<"icon", "metadata", "type">>
  BY <1>4, ThreeOf
<1>6. CASE kind = "user" BY <1>2, <1>5, <1>6 DEF FilePath, MetadataPath, FileNamePath
<1>7. CASE kind # "user" BY <1>2, <1>5, <1>7 DEF FilePath, MetadataPath, FileNamePath
<1> QED BY <1>6, <1>7

(* The wrapper of a file is that of its path, and stays so.                  *)
LEMMA FileIs ==
  ASSUME Reads, at' \in FilePlaces, file' # NoWrapper
  PROVE  json'[file'].val = FilePath
<1>0. FileRead /\ PlaceInv /\ DocInv /\ WrapperInv /\ Core /\ Reading1 /\ JsonType
      /\ root = 1 /\ 1 \in InUse
  BY ReadsOn DEF Reads, Core
<1>1. CASE GetFile
  <2>1. PICK c : Looked(1, <<at>>, c) /\ file' = c BY <1>0, <1>1, GetFileLooks
  <2>2. json'[file'].val = <<at>> BY <2>1 DEF Looked
  <2>3. at \in {"avatar", "icon"} BY <1>1, Course
  <2>4. at = "avatar" => kind = "user" BY <1>0 DEF PlaceInv, UserPlaces
  <2>5. at = "icon" => kind # "user" BY <1>0 DEF PlaceInv, ChannelPlaces
  <2> QED BY <2>2, <2>3, <2>4, <2>5 DEF FilePath
<1>2. CASE at \in FilePlaces
  <2>1. file # NoWrapper => json[file].val = FilePath /\ file \in InUse
    BY <1>0, <1>2 DEF FileRead, WrapperInv
  <2>2. CASE GetMetadata
    <3>1. PICK v, c : Looked(file, v, c) /\ file \in InUse /\ file' = file
      BY <1>0, <2>2, GetMetadataLooks
    <3>2. json'[file].val = json[file].val BY <3>1 DEF Looked
    <3> QED BY <2>1, <3>1, <3>2
  <2>3. CASE ~GetMetadata
    <3>1. ~Looks BY <1>2, <2>3, Course DEF Looks, Goes, FilePlaces
    <3>2. file' = file BY <1>0, <3>1, ReadingPointers
    <3>3. SameWrappers BY <1>0, <3>1, QuietFile, QuietUser, QuietChannel DEF Reading1
    <3> QED BY <2>1, <3>2, <3>3 DEF SameWrappers
  <2> QED BY <2>2, <2>3
<1> QED BY <1>1, <1>2, FileMoves

LEMMA MetadataIs ==
  ASSUME Reads, at' = "metadata type", buf' # NoWrapper
  PROVE  json'[buf'].val = MetadataPath
<1>0. FileRead /\ PlaceInv /\ WrapperInv BY ReadsOn DEF Reads, Core
<1>1. GetMetadata BY FileMoves
<1>2. at = "metadata" BY <1>1, Course DEF Goes
<1>3. file # NoWrapper /\ json[file].val = FilePath
  BY <1>0, <1>2 DEF FileRead, WrapperInv, FilePlaces
<1>4. PICK v, c : Looked(file, v, c) /\ buf' = c /\ v = At(file, <<"metadata">>)
  BY <1>0, <1>1, GetMetadataLooks
<1>5. v = MetadataPath BY <1>3, <1>4, FilePaths DEF At
<1>6. json'[c].val = v BY <1>4 DEF Looked
<1> QED BY <1>4, <1>5, <1>6

(* An object that has a file had it before.                                  *)
LEMMA HadFile ==
  ASSUME Reads, HasFile'
  PROVE  /\ ~ChannelType => HasFile
         /\ ~(ChannelStrings /\ at' = "leave")
<1>1. kind' = kind BY ReadsOn
<1>2. ~ChannelType => type' = type BY ValueStep DEF Reads
<1>3. ASSUME ChannelStrings, at' = "leave" PROVE FALSE
  <2>1. at = "strings" /\ type \in {"SM", "DM"} /\ ~ChannelType BY <1>3, Course
  <2>2. kind # "user" BY <2>1 DEF Reads, Core, PlaceInv, ChannelPlaces
  <2> QED BY <1>1, <1>2, <2>1, <2>2 DEF HasFile, WithIcon
<1> QED BY <1>1, <1>2, <1>3 DEF HasFile

LEMMA FileStringsRead ==
  ASSUME Reads, at' \in AfterFile, HasFile'
  PROVE  FieldsHoldThen(File, FilePath, FileKeys)
<1>0. /\ FileRead /\ FieldInv /\ Core /\ kind \in Kinds /\ JsonType /\ failures \in 0 .. MaxFailures
      /\ FieldOk(field) /\ File \in DOMAIN Parts /\ DOMAIN FileKeys \subseteq Parts[File]
  <2>1. FieldInv BY DEF Reads, Core
  <2> QED BY <2>1, ReadsOn, FieldOkNow, PartsAre, Tables DEF Reads, KeyTable
<1>1. CASE FileStrings
  <2>1. at = "file" /\ file # NoWrapper BY <1>1, ReadCourse DEF Goes
  <2>2. json[file].val = FilePath BY <1>0, <2>1 DEF FileRead, FilePlaces
  <2>3. PICK fields, obj, path : fields = FileNulled /\ obj = File /\ path = FilePath OBVIOUS
  <2>4. GetStrings(fields, obj, file, FileKeys) BY <1>1, <2>1, <2>3 DEF FileStrings, FileNulled
  <2>5. FieldOk(fields) BY <1>0, <2>3, FileNulledIs
  <2>6. obj \in DOMAIN fields /\ DOMAIN FileKeys \subseteq DOMAIN fields[obj]
    BY <1>0, <2>3, <2>5 DEF FieldOk
  <2>7. Head(obj) = obj[1] BY <1>0, <2>3, Heads
  <2>8. file # NoWrapper => json[file].val = path BY <2>2, <2>3
  <2>9. file = NoWrapper => AllocationFailed BY <2>1
  <2>10. FewKeys(FileKeys) BY TablesSmall
  <2>11. FieldsHoldThen(obj, path, FileKeys)
    BY <1>0, <2>4, <2>6, <2>7, <2>8, <2>9, <2>10, StringsHeld
  <2> QED BY <2>3, <2>11
<1>2. CASE at \in AfterFile
  <2>1. ~UserStrings /\ ~ChannelType /\ ~FileStrings BY <1>2, FileApart, Course DEF Goes
  <2>2. HasFile BY <2>1, HadFile
  <2>3. FieldsHold(File, FilePath, FileKeys) BY <1>0, <1>2, <2>2 DEF FileRead
  <2>4. ASSUME NEW f \in DOMAIN FileKeys PROVE ~Writes(File, f)
    <3>1. f \notin DOMAIN FileEndKeys BY KeyDomains
    <3> QED BY <2>1, <3>1, Writers
  <2>5. PICK obj, path : obj = File /\ path = FilePath OBVIOUS
  <2>6. FieldsHoldThen(obj, path, FileKeys)
    <3>1. obj \in DOMAIN Parts /\ DOMAIN FileKeys \subseteq Parts[obj] /\ FieldsHold(obj, path, FileKeys)
      BY <1>0, <2>3, <2>5
    <3>2. \A f \in DOMAIN FileKeys : ~Writes(obj, f) BY <2>4, <2>5
    <3> QED BY <3>1, <3>2, KeepsHeld
  <2> QED BY <2>5, <2>6
<1> QED BY <1>1, <1>2, FileMoves, HadFile

LEMMA FileEndRead ==
  ASSUME Reads, at' \in AfterFileEnd, HasFile'
  PROVE  FieldsHoldThen(File, FilePath, FileEndKeys)
<1>0. /\ FileRead /\ FieldInv /\ Core /\ kind \in Kinds /\ JsonType /\ failures \in 0 .. MaxFailures
      /\ FieldOk(field) /\ File \in DOMAIN Parts /\ DOMAIN FileEndKeys \subseteq Parts[File]
      /\ WrapperInv
  <2>1. FieldInv BY DEF Reads, Core
  <2> QED BY <2>1, ReadsOn, FieldOkNow, PartsAre, Tables DEF Reads, KeyTable, Core
<1>1. CASE FileEnd
  <2>1. at = "file end" BY <1>1, Course
  <2>a. file # NoWrapper BY <1>0, <2>1 DEF WrapperInv
  <2>2. json[file].val = FilePath BY <1>0, <2>1, <2>a DEF FileRead, FilePlaces
  <2>3. PICK obj, path : obj = File /\ path = FilePath OBVIOUS
  <2>4. GetStrings(field, obj, file, FileEndKeys) BY <1>1, <2>3 DEF FileEnd
  <2>6. obj \in DOMAIN field /\ DOMAIN FileEndKeys \subseteq DOMAIN field[obj]
    BY <1>0, <2>3 DEF FieldOk
  <2>7. Head(obj) = obj[1] BY <1>0, <2>3, Heads
  <2>8. file # NoWrapper => json[file].val = path BY <2>2, <2>3
  <2>9. file = NoWrapper => AllocationFailed BY <2>a
  <2>10. FewKeys(FileEndKeys) BY TablesSmall
  <2>11. FieldsHoldThen(obj, path, FileEndKeys)
    BY <1>0, <2>4, <2>6, <2>7, <2>8, <2>9, <2>10, StringsHeld
  <2> QED BY <2>3, <2>11
<1>2. CASE at \in AfterFileEnd
  <2>1. ~UserStrings /\ ~ChannelType /\ ~FileStrings /\ ~FileEnd BY <1>2, FileApart, Course DEF Goes
  <2>2. HasFile BY <2>1, HadFile
  <2>3. FieldsHold(File, FilePath, FileEndKeys) BY <1>0, <1>2, <2>2 DEF FileRead
  <2>5. PICK obj, path : obj = File /\ path = FilePath OBVIOUS
  <2>6. FieldsHoldThen(obj, path, FileEndKeys)
    <3>1. /\ obj \in DOMAIN Parts /\ DOMAIN FileEndKeys \subseteq Parts[obj]
          /\ FieldsHold(obj, path, FileEndKeys)
      BY <1>0, <2>3, <2>5
    <3>2. \A f \in DOMAIN FileEndKeys : ~Writes(obj, f) BY <2>1, <2>5, Writers
    <3> QED BY <3>1, <3>2, KeepsHeld
  <2> QED BY <2>5, <2>6
<1> QED BY <1>1, <1>2, FileMoves, HadFile

LEMMA FileNameRead ==
  ASSUME Reads, at' \in AfterType, HasFile'
  PROVE  AllocationFailed' \/ value'[File] = metadata_type(NameIn(doc, FileNamePath))
<1>0. FileRead /\ failures \in 0 .. MaxFailures /\ DOMAIN value = Values BY ReadsOn
<1>1. PICK v : v = File OBVIOUS
<1>2. v \in Values BY <1>1 DEF File, Values
<1>3. CASE revolt_file_metadata_deserialize_json_obj
  <2>1. at = "metadata type" /\ buf # NoWrapper BY <1>3, ReadCourse DEF Goes
  <2>2. json[buf].val = MetadataPath BY <1>0, <2>1 DEF FileRead
  <2>3. At(buf, <<"type">>) = FileNamePath BY <2>1, <2>2, FilePaths DEF At
  <2>4. PICK name : GetName(buf, <<"type">>, name, v, metadata_type(name))
    BY <1>1, <1>3, <2>1 DEF revolt_file_metadata_deserialize_json_obj
  <2>5. PICK key, m : key = <<"type">> /\ m = metadata_type(name) OBVIOUS
  <2>6. GetName(buf, key, name, v, m) BY <2>4, <2>5
  <2>7. value'[v] = m /\ (name = NameIn(doc, At(buf, key)) \/ (name = NoName /\ AllocationFailed'))
    BY <1>0, <1>2, <2>1, <2>6, NameTold
  <2> QED BY <1>1, <2>3, <2>5, <2>7
<1>4. CASE at \in AfterType /\ ~revolt_file_metadata_deserialize_json_obj
  <2>1. ~ChannelType BY <1>4, FileApart, Course
  <2>2. HasFile BY <2>1, HadFile
  <2>3. PICK m : m = metadata_type(NameIn(doc, FileNamePath)) OBVIOUS
  <2>4. Means(v, m) BY <1>0, <1>1, <1>4, <2>2, <2>3 DEF FileRead
  <2>5. ~Sets(v)
    <3>1. v # <<"user", "presence">> /\ v # <<"user", "relationship">> /\ v # <<"channel", "type">>
      BY <1>1 DEF File
    <3>2. v # Relation(count + 1) BY <1>1 DEF File, Relation
    <3> QED BY <1>4, <3>1, <3>2 DEF Sets
  <2> QED BY <1>1, <1>2, <2>3, <2>4, <2>5, MeansStill
<1> QED BY <1>3, <1>4, FileMoves, HadFile

LEMMA FileReadStep ==
  ASSUME Reads
  PROVE  FileRead'
<1>0. kind' = kind /\ doc' = doc BY ReadsOn
<1>1. FilePath' = FilePath /\ MetadataPath' = MetadataPath /\ FileNamePath' = FileNamePath /\ File' = File
  BY <1>0 DEF FilePath, MetadataPath, FileNamePath, File
<1>2. PICK obj, path : obj = File /\ path = FilePath OBVIOUS
<1>3. at' \in AfterFile /\ HasFile' => FieldsHold(File, FilePath, FileKeys)'
  <2>1. at' \in AfterFile /\ HasFile' => FieldsHoldThen(obj, path, FileKeys)
    BY <1>2, FileStringsRead
  <2>2. FieldsHoldThen(obj, path, FileKeys) => FieldsHold(File, FilePath, FileKeys)'
    BY <1>1, <1>2 DEF FieldsHold, FieldsHoldThen, Holds, HoldsThen
  <2> QED BY <2>1, <2>2
<1>4. at' \in AfterFileEnd /\ HasFile' => FieldsHold(File, FilePath, FileEndKeys)'
  <2>1. at' \in AfterFileEnd /\ HasFile' => FieldsHoldThen(obj, path, FileEndKeys)
    BY <1>2, FileEndRead
  <2>2. FieldsHoldThen(obj, path, FileEndKeys) => FieldsHold(File, FilePath, FileEndKeys)'
    BY <1>1, <1>2 DEF FieldsHold, FieldsHoldThen, Holds, HoldsThen
  <2> QED BY <2>1, <2>2
<1>5. at' \in AfterType /\ HasFile' => Means(File, metadata_type(NameIn(doc, FileNamePath)))'
  <2>1. NameIn(doc, FileNamePath)' = NameIn(doc, FileNamePath) BY <1>0, <1>1 DEF NameIn
  <2> QED BY <1>1, <2>1, FileNameRead DEF Means
<1> QED BY <1>1, <1>3, <1>4, <1>5, FileIs, MetadataIs DEF FileRead

(* A relation, after a step.                                                 *)
HeldThen(i) == FieldsHoldThen(Relation(i), RelationPath(i), RelationKeys)
ToldThen(i) ==
  \/ AllocationFailed'
  \/ value'[Relation(i)] =
       user_relationship_status_from_str(NameIn(doc, RelationPath(i) \o <<"status">>))

LEMMA HeldStays ==
  ASSUME Reads, NEW i \in 1 .. MostRelations, RelationHeld(i), ~(RelationString /\ i = count + 1)
  PROVE  HeldThen(i)
<1>1. PICK obj, path : obj = Relation(i) /\ path = RelationPath(i) OBVIOUS
<1>2. obj \in DOMAIN Parts /\ DOMAIN RelationKeys \subseteq Parts[obj]
  BY <1>1, PartsAre, KeyDomains
<1>3. FieldsHold(obj, path, RelationKeys) BY <1>1 DEF RelationHeld
<1>4. \A f \in DOMAIN RelationKeys : ~Writes(obj, f) BY <1>1, Writers
<1>5. FieldsHoldThen(obj, path, RelationKeys) BY <1>2, <1>3, <1>4, KeepsHeld
<1> QED BY <1>1, <1>5 DEF HeldThen

LEMMA ToldStays ==
  ASSUME Reads, NEW i \in 1 .. MostRelations, StatusRead(i), ~(RelationStatus /\ i = count + 1)
  PROVE  ToldThen(i)
<1>1. PICK v, m : /\ v = Relation(i)
                  /\ m = user_relationship_status_from_str(NameIn(doc, RelationPath(i) \o <<"status">>))
  OBVIOUS
<1>2. v \in Values BY <1>1 DEF Values, Relations
<1>3. Means(v, m) BY <1>1 DEF StatusRead
<1>4. ~Sets(v)
  <2>1. v # <<"user", "presence">> /\ v # <<"user", "relationship">> /\ v # <<"channel", "type">>
        /\ v # File
    BY <1>1 DEF Relation, File
  <2>2. v = Relation(count + 1) => i = count + 1 BY <1>1 DEF Relation
  <2> QED BY <2>1, <2>2 DEF Sets
<1> QED BY <1>1, <1>2, <1>3, <1>4, MeansStill DEF ToldThen

(* Which steps lead into the relations and out of them.                      *)
LEMMA RelationMoves ==
  ASSUME Reads
  PROVE  /\ at' = "relation status" => RelationString
         /\ at' = "next" => RelationStatus
         /\ at' = "relation" => FirstRelation \/ NextRelation
         /\ RelationString \/ RelationStatus => count' = count /\ buf' = buf
<1>1. CASE FileActions
  BY <1>1, Course DEF FileActions, Goes
<1>2. CASE revolt_user_deserialize_json_obj
  <2>1. RelationString \/ RelationStatus => ~Looks /\ ~UserStrings BY Course DEF Looks, Goes
  <2>2. RelationString \/ RelationStatus => count' = count /\ buf' = buf
    BY <2>1, ReadingPointers DEF Reads
  <2> QED BY <1>2, <2>2, Course DEF revolt_user_deserialize_json_obj, Goes
<1>3. CASE revolt_channel_deserialize_json_obj
  BY <1>3, Course DEF revolt_channel_deserialize_json_obj, Goes
<1> QED BY <1>1, <1>2, <1>3 DEF Reads, Reading1

LEMMA RelationStringRead ==
  ASSUME Reads, RelationString, RelationsRead
  PROVE  HeldThen(count + 1)
<1>0. /\ FieldInv /\ WrapperInv /\ JsonType /\ failures \in 0 .. MaxFailures /\ FieldOk(field)
      /\ at = "relation" /\ count < max
  <2>1. FieldInv /\ WrapperInv BY DEF Reads, Core
  <2> QED BY <2>1, ReadsOn, FieldOkNow, Course DEF Goes
<1>1. count + 1 \in 1 .. MostRelations BY RelationReads DEF Reads
<1>2. PICK obj, path : obj = Relation(count + 1) /\ path = RelationPath(count + 1) OBVIOUS
<1>3. GetStrings(field, obj, buf, RelationKeys) BY <1>2 DEF RelationString
<1>4. obj \in DOMAIN field /\ DOMAIN RelationKeys \subseteq DOMAIN field[obj]
  BY <1>0, <1>1, <1>2, PartsAre, KeyDomains DEF FieldOk
<1>5. Head(obj) = obj[1] BY <1>1, <1>2, Heads
<1>6. buf # NoWrapper => json[buf].val = path
  BY <1>0, <1>2 DEF WrapperInv, InRelations, RelationPath
<1>7. buf = NoWrapper => AllocationFailed BY <1>0 DEF RelationsRead, InRelations
<1>8. FewKeys(RelationKeys) BY TablesSmall
<1>9. FieldsHoldThen(obj, path, RelationKeys)
  BY <1>0, <1>3, <1>4, <1>5, <1>6, <1>7, <1>8, StringsHeld
<1> QED BY <1>2, <1>9 DEF HeldThen

LEMMA RelationStatusRead ==
  ASSUME Reads, RelationStatus, RelationsRead
  PROVE  ToldThen(count + 1)
<1>0. /\ WrapperInv /\ DocInv /\ failures \in 0 .. MaxFailures /\ at = "relation status" /\ count < max
      /\ DOMAIN value = Values /\ (AllocationFailed => AllocationFailed') /\ at \in OpenPlaces
  <2>1. WrapperInv /\ DocInv BY DEF Reads, Core
  <2>2. at = "relation status" BY Course DEF Goes
  <2>3. count < max BY <2>1, <2>2 DEF DocInv
  <2> QED BY <2>1, <2>2, <2>3, ReadsOn, FailedMore
<1>1. CASE buf = NoWrapper
  <2>1. AllocationFailed BY <1>0, <1>1 DEF RelationsRead, InRelations
  <2> QED BY <1>0, <2>1 DEF ToldThen
<1>2. CASE buf # NoWrapper
  <2>1. json[buf].val = RelationPath(count + 1)
    BY <1>0, <1>2 DEF WrapperInv, InRelations, RelationPath
  <2>2. At(buf, <<"status">>) = RelationPath(count + 1) \o <<"status">> BY <1>2, <2>1 DEF At
  <2>3. PICK v : v = Relation(count + 1) OBVIOUS
  <2>4. v \in DOMAIN value
    <3>1. IsArray(<<"relations">>) BY <1>0 DEF DocInv, InRelations
    <3>2. max \in Nat /\ max <= MostRelations BY <1>0, <3>1, MaxTyped
    <3>3. count \in 0 .. MostRelations BY <1>0 DEF DocInv
    <3>5. count < max BY <1>0
    <3>4. count + 1 \in 1 .. MostRelations BY <3>2, <3>3, <3>5, FetchBounds
    <3> QED BY <1>0, <2>3, <3>4 DEF Values, Relations
  <2>5. PICK name : GetName(buf, <<"status">>, name, v, user_relationship_status_from_str(name))
    BY <2>3 DEF RelationStatus
  <2>6. PICK key, m : key = <<"status">> /\ m = user_relationship_status_from_str(name) OBVIOUS
  <2>7. GetName(buf, key, name, v, m) BY <2>5, <2>6
  <2>8. value'[v] = m /\ (name = NameIn(doc, At(buf, key)) \/ (name = NoName /\ AllocationFailed'))
    BY <1>0, <1>2, <2>4, <2>7, NameTold
  <2> QED BY <2>2, <2>3, <2>6, <2>8 DEF ToldThen
<1> QED BY <1>1, <1>2

(* A relation that is not found could not be given a wrapper.                *)
LEMMA RelationFound ==
  ASSUME Reads, kind = "user", at' \in InRelations, count' < max, buf' = NoWrapper
  PROVE  AllocationFailed'
<1>0. /\ PlaceInv /\ DocInv /\ WrapperInv /\ JsonType /\ failures \in 0 .. MaxFailures /\ Spends
      /\ RelationsRead /\ at \in OpenPlaces /\ count \in Nat
      /\ (AllocationFailed => AllocationFailed') /\ (failures' < failures => AllocationFailed')
  <2>1. PlaceInv /\ DocInv /\ WrapperInv BY DEF Reads, Core
  <2>2. count \in Nat
    <3>1. count \in 0 .. MostRelations BY <2>1 DEF DocInv
    <3> QED BY <3>1
  <2> QED BY <2>1, <2>2, ReadsOn, FailedMore
<1>f. failures \in Nat BY <1>0, MaxFailuresAssumption
<1>1. CASE FirstRelation
  <2>1. at = "first" /\ count' = count
    <3>1. at = "first" /\ ~UserStrings /\ ~NextRelation BY <1>1, Course DEF Goes
    <3> QED BY <3>1, ReadingFrame DEF Reads
  <2>2. buf # NoWrapper /\ json[buf].val = <<"relations">> /\ IsArray(<<"relations">>) /\ count = 0
    BY <1>0, <2>1 DEF WrapperInv, DocInv, BeforeRelations
  <2>3. PICK c : revoltc_json_arr_get(buf, 1, c) /\ buf' = c BY <1>1 DEF FirstRelation
  <2>4. PICK v : v = Element(<<"relations">>, 1) OBVIOUS
  <2>5. max \in Nat BY <1>0, <2>2, MaxTyped
  <2>6. v = <<"relations", doc.arrays[<<"relations">>][1]>>
    <3>1. 1 <= max BY <2>1, <2>2, <2>5
    <3>2. v = IF 1 <= max THEN <<"relations", doc.arrays[<<"relations">>][1]>> ELSE <<>>
      BY <1>0, <2>2, <2>4, ElementIs
    <3> QED BY <3>1, <3>2
  <2>7. PICK found : found = (v # <<>>) OBVIOUS
  <2>8. revoltc_json_child(buf, found, v, c)
    BY <2>2, <2>3, <2>4, <2>7 DEF revoltc_json_arr_get
  <2>9. found BY <2>6, <2>7
  <2>10. failures' < failures BY <1>0, <1>f, <2>2, <2>3, <2>8, <2>9, ChildSpends
  <2> QED BY <1>0, <2>10
<1>2. CASE NextRelation
  <2>1. at = "next" /\ count' = count + 1 BY <1>2, Course DEF Goes
  <2>2. IsArray(<<"relations">>) /\ count < max BY <1>0, <2>1 DEF DocInv, InRelations
  <2>3. CASE buf = NoWrapper
    <3>1. AllocationFailed BY <1>0, <2>1, <2>2, <2>3 DEF RelationsRead, InRelations
    <3> QED BY <1>0, <3>1
  <2>4. CASE buf # NoWrapper
    <3>1. PICK c : revoltc_json_unsafe_next(buf, c) /\ buf' = c BY <1>2 DEF NextRelation
    <3>2. PICK v : v = Element(<<"relations">>, count + 2) OBVIOUS
    <3>3. Following(buf) = v BY <1>0, <2>1, <2>4, <3>2, FollowingIs
    <3>4. max \in Nat BY <1>0, <2>2, MaxTyped
    <3>5. v = <<"relations", doc.arrays[<<"relations">>][count + 2]>>
      <4>1. PICK n : n = count + 2 OBVIOUS
      <4>2. n \in Nat /\ n > 0 /\ n <= max BY <1>0, <2>1, <3>4, <4>1
      <4>3. Element(<<"relations">>, n) =
              IF n <= max THEN <<"relations", doc.arrays[<<"relations">>][n]>> ELSE <<>>
        BY <1>0, <2>2, <4>2, ElementIs
      <4> QED BY <3>2, <4>1, <4>2, <4>3
    <3>6. PICK found : found = (v # <<>>) OBVIOUS
    <3>7. revoltc_json_child(buf, found, v, c)
      BY <2>4, <3>1, <3>3, <3>6 DEF revoltc_json_unsafe_next
    <3>8. found BY <3>5, <3>6
    <3>9. failures' < failures BY <1>0, <1>f, <2>4, <3>1, <3>7, <3>8, ChildSpends
    <3> QED BY <1>0, <3>9
  <2> QED BY <2>3, <2>4
<1>3. CASE RelationString \/ RelationStatus
  <2>1. count' = count /\ buf' = buf /\ at \in InRelations
    BY <1>3, RelationMoves, Course DEF Goes, InRelations
  <2> QED BY <1>0, <2>1 DEF RelationsRead
<1> QED BY <1>1, <1>2, <1>3, RelationMoves DEF InRelations

(* All relations have been read when they are left.                          *)
LEMMA RelationsLeft ==
  ASSUME Reads, kind = "user", at' \in AfterRelations, IsArray(<<"relations">>),
         <<"relations">> \in doc.nodes
  PROVE  AllocationFailed' \/ count' = max
<1>0. /\ PlaceInv /\ DocInv /\ WrapperInv /\ JsonType /\ failures \in 0 .. MaxFailures /\ Spends
      /\ RelationsRead /\ root = 1 /\ json[1].val = <<>>
      /\ (AllocationFailed => AllocationFailed') /\ (failures' < failures => AllocationFailed')
  <2>1. PlaceInv /\ DocInv /\ WrapperInv BY DEF Reads, Core
  <2> QED BY <2>1, ReadsOn, FailedMore
<1>1. CASE NoMoreRelations
  <2>1. count = max /\ ~UserStrings /\ ~NextRelation BY <1>1, Course DEF Goes
  <2> QED BY <2>1, ReadingFrame DEF Reads
<1>2. CASE GetRelations /\ at' = "relationship"
  <2>1. PICK a : revoltc_json_get_arr(root, <<"relations">>, a) /\ at' = IF a = NoWrapper THEN "relationship" ELSE "allocate"
    BY <1>2 DEF GetRelations, Finds
  <2>2. a = NoWrapper BY <1>2, <2>1
  <2>3. PICK key : key = <<"relations">> OBVIOUS
  <2>4. At(root, key) = key
    <3>1. "relations" \in Words BY DEF Words, Literals
    <3> QED BY <1>0, <2>3, <3>1, AtRoot
  <2>5. PICK c : revoltc_json_get_obj(root, key, c) /\ a = IF IsArray(At(root, key)) THEN c ELSE NoWrapper
    BY <2>1, <2>3 DEF revoltc_json_get_arr
  <2>6. c = NoWrapper BY <2>2, <2>3, <2>4, <2>5
  <2>7. failures \in Nat BY <1>0, MaxFailuresAssumption
  <2>8. root # NoWrapper BY <1>0 DEF NoWrapper
  <2>9. c = NoWrapper /\ root # NoWrapper /\ At(root, key) \in doc.nodes => failures' < failures
    BY <1>0, <2>5, <2>7, ObjSpends
  <2> QED BY <1>0, <2>3, <2>4, <2>6, <2>8, <2>9
<1>3. CASE at \in AfterRelations
  <2>1. ~UserStrings /\ ~NextRelation
    BY <1>3, Course DEF Goes, AfterRelations, AfterRelationship, AfterBot
  <2>2. count' = count BY <2>1, ReadingFrame DEF Reads
  <2>3. AllocationFailed \/ count = max BY <1>0, <1>3 DEF RelationsRead
  <2> QED BY <1>0, <2>2, <2>3
<1> QED BY <1>1, <1>2, <1>3, UserMoves

LEMMA RelationsFieldIs ==
  ASSUME Reads, RelationsRead
  PROVE  field'[User].relations \in Nowhere \cup {<<"user", "relations">>}
<1>0. FieldInv /\ User \in DOMAIN Parts /\ "relations" \in Parts[User] /\ Core
  BY PartsAre, KeyDomains DEF Reads, Core
<1>1. CASE UserStrings
  <2>1. GotStrings(Wiped("user", NULL), User, UserKeys) BY <1>0, <1>1, UserReads
  <2>2. PICK fields : fields = Wiped("user", NULL) OBVIOUS
  <2>3. FieldOk(fields) BY <1>0, <2>2, WipedOk DEF Nowhere
  <2>4. GotStrings(fields, User, UserKeys) BY <2>1, <2>2
  <2>5. DOMAIN fields = DOMAIN Parts /\ \A q \in DOMAIN Parts : DOMAIN fields[q] = Parts[q]
    BY <2>3 DEF FieldOk
  <2>6. "relations" \notin DOMAIN UserKeys BY KeyDomains
  <2>7. field'[User]["relations"] = fields[User]["relations"]
    BY <1>0, <2>4, <2>5, <2>6, GotElsewhere
  <2>8. User \notin Relations /\ User[1] = "user" BY DEF User, Relations, Relation
  <2>9. fields[User] = [f \in Parts[User] |-> NULL] BY <1>0, <2>2, <2>8 DEF Wiped
  <2>10. fields[User]["relations"] = NULL BY <1>0, <2>9
  <2> QED BY <2>7, <2>10 DEF Nowhere
<1>2. CASE AllocateRelations
  <2>1. \/ field' = [field EXCEPT ![User].relations = <<"user", "relations">>]
        \/ field' = field
    BY <1>2 DEF AllocateRelations
  <2>2. DOMAIN field = DOMAIN Parts /\ DOMAIN field[User] = Parts[User] BY <1>0 DEF FieldInv
  <2>3. CASE field' = [field EXCEPT ![User].relations = <<"user", "relations">>]
    <3>1. field'[User]["relations"] = <<"user", "relations">> BY <1>0, <2>2, <2>3
    <3> QED BY <3>1
  <2> QED BY <2>1, <2>3 DEF RelationsRead
<1>3. CASE ~UserStrings /\ ~AllocateRelations
  <2>1. ~Writes(User, "relations") BY <1>3, Writers
  <2>2. field'[User]["relations"] = field[User]["relations"] BY <1>0, <2>1, Kept DEF Reads
  <2> QED BY <2>2 DEF RelationsRead
<1> QED BY <1>1, <1>2, <1>3

LEMMA RelationsReadStep ==
  ASSUME Reads, kind = "user"
  PROVE  RelationsRead'
<1>0. /\ RelationsRead /\ doc' = doc /\ count \in Nat /\ DocInv /\ Core /\ Reading1 /\ at \in OpenPlaces
      /\ count' \in Nat /\ count' <= MostRelations /\ MostRelations \in Nat /\ count <= MostRelations
  <2>1. Core /\ FetchNext /\ Reading1 BY DEF Reads
  <2>2. at' # "crashed" BY DEF Reads, OpenPlaces, UserPlaces, ChannelPlaces, FilePlaces
  <2>3. DocInv' BY <2>1, <2>2, DocStep
  <2>4. DocInv BY <2>1 DEF Core
  <2>5. count \in 0 .. MostRelations /\ count' \in 0 .. MostRelations BY <2>3, <2>4 DEF DocInv
  <2> QED BY <2>1, <2>4, <2>5, ReadsOn, FetchBounds
<1>1. ASSUME NEW i \in 1 .. count' PROVE HeldThen(i) /\ ToldThen(i)
  <2>0. i \in 1 .. MostRelations /\ i \in Nat BY <1>0
  <2>1. CASE UserStrings
    <3>1. count' = 0 BY <2>1, Course
    <3> QED BY <3>1
  <2>2. CASE NextRelation
    <3>1. at = "next" /\ count' = count + 1 BY <2>2, Course DEF Goes
    <3>2. ~RelationString /\ ~RelationStatus BY <3>1, Course DEF Goes
    <3>3. RelationHeld(i) /\ StatusRead(i)
      <4>1. CASE i = count + 1 BY <1>0, <3>1, <4>1 DEF RelationsRead
      <4>2. CASE i # count + 1
        <5>1. i \in 1 .. count BY <1>0, <3>1, <4>2
        <5> QED BY <1>0, <5>1 DEF RelationsRead
      <4> QED BY <4>1, <4>2
    <3> QED BY <2>0, <3>2, <3>3, HeldStays, ToldStays
  <2>3. CASE ~UserStrings /\ ~NextRelation
    <3>1. count' = count BY <1>0, <2>3, ReadingFrame
    <3>2. i \in 1 .. count /\ i # count + 1 BY <1>0, <3>1
    <3>3. RelationHeld(i) /\ StatusRead(i) BY <1>0, <3>2 DEF RelationsRead
    <3> QED BY <2>0, <3>2, <3>3, HeldStays, ToldStays
  <2> QED BY <2>1, <2>2, <2>3
<1>2. ASSUME at' \in {"relation status", "next"} PROVE HeldThen(count' + 1)
  <2>1. CASE RelationString
    <3>1. count' = count BY <2>1, RelationMoves
    <3> QED BY <1>0, <2>1, <3>1, RelationStringRead
  <2>2. CASE RelationStatus
    <3>1. count' = count /\ at = "relation status" /\ ~RelationString
      BY <2>2, RelationMoves, Course DEF Goes
    <3>2. RelationHeld(count + 1) BY <1>0, <3>1 DEF RelationsRead
    <3>3. IsArray(<<"relations">>) /\ count < max BY <1>0, <3>1 DEF DocInv, InRelations
    <3>4. max \in Nat /\ max <= MostRelations BY <1>0, <3>3, MaxTyped
    <3>5. PICK i : i = count + 1 OBVIOUS
    <3>6. i \in 1 .. MostRelations BY <1>0, <3>3, <3>4, <3>5
    <3>7. HeldThen(i) BY <3>1, <3>2, <3>5, <3>6, HeldStays
    <3> QED BY <3>1, <3>5, <3>7
  <2> QED BY <1>2, <2>1, <2>2, RelationMoves
<1>3. ASSUME at' = "next" PROVE ToldThen(count' + 1)
  <2>1. RelationStatus /\ count' = count BY <1>3, RelationMoves
  <2> QED BY <1>0, <2>1, RelationStatusRead
<1>4. max' = max /\ (IsArray(<<"relations">>)' <=> IsArray(<<"relations">>)) BY <1>0 DEF max, IsArray
<1>5. ASSUME NEW i PROVE (HeldThen(i) => RelationHeld(i)') /\ (ToldThen(i) => StatusRead(i)')
  <2>1. RelationPath(i)' = RelationPath(i) BY <1>0 DEF RelationPath
  <2>2. PICK obj, path : obj = Relation(i) /\ path = RelationPath(i) OBVIOUS
  <2>3. FieldsHoldThen(obj, path, RelationKeys) => RelationHeld(i)'
    BY <2>1, <2>2 DEF RelationHeld, FieldsHold, FieldsHoldThen, Holds, HoldsThen
  <2>4. NameIn(doc, RelationPath(i) \o <<"status">>)' = NameIn(doc, RelationPath(i) \o <<"status">>)
    BY <1>0, <2>1 DEF NameIn
  <2>5. ToldThen(i) => StatusRead(i)' BY <2>4 DEF ToldThen, StatusRead, Means
  <2> QED BY <2>2, <2>3, <2>5 DEF HeldThen
<1>6. at' \in InRelations /\ (count < max)' /\ buf' = NoWrapper => AllocationFailed'
  BY <1>4, RelationFound
<1>7. at' \in AfterRelations /\ IsArray(<<"relations">>)' /\ <<"relations">> \in doc'.nodes =>
        AllocationFailed' \/ count' = max'
  BY <1>0, <1>4, RelationsLeft
<1>8. field'[User].relations \in Nowhere \cup {<<"user", "relations">>} BY <1>0, RelationsFieldIs
<1>9. \A i \in 1 .. count' : RelationHeld(i)' /\ StatusRead(i)' BY <1>1, <1>5
<1>10. at' \in {"relation status", "next"} => RelationHeld(count + 1)'
  <2>1. PICK i : i = count' + 1 OBVIOUS
  <2>2. at' \in {"relation status", "next"} => RelationHeld(i)' BY <1>2, <1>5, <2>1
  <2> QED BY <2>1, <2>2
<1>11. at' = "next" => StatusRead(count + 1)'
  <2>1. PICK i : i = count' + 1 OBVIOUS
  <2>2. at' = "next" => StatusRead(i)' BY <1>3, <1>5, <2>1
  <2> QED BY <2>1, <2>2
<1> QED BY <1>6, <1>7, <1>8, <1>9, <1>10, <1>11 DEF RelationsRead

(* Nothing has been read of a document that was just parsed.                 *)
LEMMA ParsedRead ==
  ASSUME Core, Deserialize, at' \in OpenPlaces
  PROVE  /\ doc' \in Documents[kind'] /\ FileRead'
         /\ kind' = "user" => UserRead' /\ RelationsRead'
         /\ kind' = "channel" => ChannelRead'
<1>0. PlaceInv /\ DocInv /\ EmptyInv /\ kind \in Kinds /\ at = "deserialize"
  BY DEF Core, UnsetInv, PlaceInv, Deserialize
<1>1. /\ kind' = kind /\ at' = kind /\ doc' = body /\ body # NoBody /\ field' = field /\ count' = count
  <2>1. at' # "cleanup" BY DEF OpenPlaces, UserPlaces, ChannelPlaces, FilePlaces
  <2> QED BY <2>1 DEF Deserialize, Ends, object_vars, revoltc_json_parse
<1>2. doc' \in Documents[kind'] BY <1>0, <1>1 DEF DocInv
<1>3. at' \in Kinds BY <1>0, <1>1
<1>4. /\ at' \notin AfterUser /\ at' \notin AfterFile /\ at' \notin AfterType /\ at' \notin AfterFileEnd
      /\ at' \notin AfterStatus /\ at' \notin AfterPresence /\ at' \notin AfterRelations
      /\ at' \notin AfterRelationship /\ at' \notin AfterBot /\ at' \notin AfterStrings
      /\ at' \notin AfterNumbers /\ at' \notin InRelations /\ at' \notin FilePlaces
      /\ at' \notin {"relation status", "next"} /\ at' # "metadata type"
  BY <1>3
  DEF Kinds, AfterUser, AfterFile, AfterType, AfterFileEnd, AfterStatus, AfterPresence, AfterRelations,
      AfterRelationship, AfterBot, AfterStrings, AfterNumbers, InRelations, FilePlaces
<1>5. FileRead' BY <1>4 DEF FileRead
<1>6. UserRead' BY <1>4 DEF UserRead
<1>7. kind' = "user" => RelationsRead'
  <2>1. SUFFICES ASSUME kind' = "user" PROVE RelationsRead' OBVIOUS
  <2>2. count' = 0 BY <1>0, <1>1, <2>1 DEF DocInv, EarlyPlaces
  <2>3. field'[User].relations \in Nowhere
    <3>1. User \in PartsOf(kind) BY <1>1, <2>1, KindParts
    <3>2. Only(User, {}) BY <1>0, <3>1 DEF EmptyInv, EarlyPlaces
    <3>3. "relations" \in Parts[User] BY PartsAre, KeyDomains
    <3> QED BY <1>1, <3>2, <3>3 DEF Only
  <2>4. \A i \in 1 .. count' : RelationHeld(i)' /\ StatusRead(i)' BY <2>2
  <2> QED BY <1>4, <2>3, <2>4 DEF RelationsRead
<1>8. kind' = "channel" => ChannelRead' BY <1>1, <1>4 DEF ChannelRead
<1> QED BY <1>2, <1>5, <1>6, <1>7, <1>8

(* Outside the deserialisation no step leads into it.                        *)
LEMMA OutsidePlaces ==
  revolt_init \/ Fetch \/ FetchReturns \/ Leave \/ RequestActions \/ DeleteActions => at' \notin OpenPlaces
BY
DEF revolt_init, Fetch, Returned, FetchReturns, Leave, RequestActions, revolt_rest_request,
    revoltc_http_request, Ends, write_callback, request_perform, DeleteActions, revolt_user_delete,
    revolt_channel_delete, revolt_cleanup, Delete, OpenPlaces, UserPlaces, ChannelPlaces, FilePlaces

(* Every step keeps what has been read.                                      *)
LEMMA ReadStep ==
  ASSUME ReadInv, FetchInv, FetchNext
  PROVE  ReadInv'
<1>1. at # "crashed"
  <2>1. at = "crashed" => ~FetchNext BY NoMore
  <2> QED BY <2>1
<1>2. Core BY <1>1 DEF FetchInv
<1>3. failures' \in 0 .. MaxFailures
  <2>1. JsonType /\ failures \in 0 .. MaxFailures BY <1>2, InPlace DEF ReadInv
  <2>2. failures \in Nat BY <2>1, MaxFailuresAssumption
  <2>3. Spends BY <2>1, <2>2, StepSpends
  <2> QED BY <2>1, <2>3, FailedMore
<1>4. ASSUME at' \in OpenPlaces, err'[kind'] = "OK"
      PROVE  /\ doc' \in Documents[kind'] /\ FileRead'
             /\ kind' = "user" => UserRead' /\ RelationsRead'
             /\ kind' = "channel" => ChannelRead'
  <2>1. CASE Reading1
    <3>1. Reads BY <1>2, <1>4, <2>1 DEF Reads
    <3>2. kind' = kind /\ doc' = doc /\ doc \in Documents[kind] BY <3>1, ReadsOn
    <3>3. FileRead' BY <3>1, FileReadStep
    <3>4. kind = "user" => UserRead' /\ RelationsRead' BY <3>1, UserReadStep, RelationsReadStep
    <3>5. kind = "channel" => ChannelRead' BY <3>1, ChannelReadStep
    <3> QED BY <3>2, <3>3, <3>4, <3>5
  <2>2. CASE Deserialize BY <1>2, <1>4, <2>2, ParsedRead
  <2>3. CASE revolt_init \/ Fetch \/ FetchReturns \/ Leave \/ RequestActions \/ DeleteActions
    <3>1. at' \notin OpenPlaces BY <2>3, OutsidePlaces
    <3> QED BY <1>4, <3>1
  <2> QED BY <2>1, <2>2, <2>3 DEF FetchNext, FileActions, Reading1, RequestActions, DeleteActions
<1> QED BY <1>3, <1>4 DEF ReadInv

LEMMA ReadStutters ==
  ASSUME ReadInv, UNCHANGED fvars
  PROVE  ReadInv'
<1>1. /\ failures' = failures /\ doc' = doc /\ json' = json /\ at' = at /\ kind' = kind /\ file' = file
      /\ buf' = buf /\ field' = field /\ value' = value /\ bits' = bits /\ count' = count /\ err' = err
  BY DEF fvars, mvars, jvars, wrapper_vars, object_vars
<1>2. /\ max' = max /\ type' = type /\ File' = File /\ FilePath' = FilePath
      /\ MetadataPath' = MetadataPath /\ FileNamePath' = FileNamePath
      /\ (HasFile' <=> HasFile) /\ (AllocationFailed' <=> AllocationFailed)
  BY <1>1 DEF max, type, File, FilePath, MetadataPath, FileNamePath, HasFile, AllocationFailed
<1>5. FileRead => FileRead'
  BY <1>1, <1>2 DEF FileRead, FieldsHold, Holds, Means, NameIn
<1>6. UserRead => UserRead' BY <1>1, <1>2 DEF UserRead, FieldsHold, Holds, Means, NameIn
<1>7. \A i : (RelationHeld(i) => RelationHeld(i)') /\ (StatusRead(i) => StatusRead(i)')
  BY <1>1, <1>2 DEF RelationHeld, StatusRead, FieldsHold, Holds, Means, NameIn, RelationPath
<1>8. RelationsRead => RelationsRead' BY <1>1, <1>2, <1>7 DEF RelationsRead, IsArray
<1>9. ChannelRead => ChannelRead'
  BY <1>1, <1>2 DEF ChannelRead, FieldsHold, Holds, TypeIn, NameIn, NumberRead
<1> QED BY <1>1, <1>5, <1>6, <1>8, <1>9 DEF ReadInv

LEMMA ReadStarts == Init => ReadInv
<1>1. Init => failures = MaxFailures /\ at = "init" BY DEF Init, HeapInit
<1>2. "init" \notin OpenPlaces BY DEF OpenPlaces, UserPlaces, ChannelPlaces, FilePlaces
<1>3. MaxFailures \in 0 .. MaxFailures BY MaxFailuresAssumption
<1> QED BY <1>1, <1>2, <1>3 DEF ReadInv

(* While no part has been found missing, every string, name and number that  *)
(* the deserialisers have come past is where it belongs, whichever copies    *)
(* could not be allocated (lib/data_models).                                 *)
THEOREM ReadInvariant == FetchSpec => []ReadInv
<1>1. Init => ReadInv BY ReadStarts
<1>2. ReadInv /\ FetchInv /\ [FetchNext]_fvars => ReadInv' BY ReadStep, ReadStutters
<1> QED BY <1>1, <1>2, FetchInvariant, PTL DEF FetchSpec

-----------------------------------------------------------------------------
(* Where the string of a field is in the document, and which fields have one.*)
KeyWords == Literals \ {"again", "relations"}
FileName == IF kind = "user" THEN "avatar" ELSE "icon"
UserPath(f) ==
  IF f \in DOMAIN UserKeys THEN UserKeys[f]
  ELSE IF f = "text" THEN <<"status", "text">> ELSE <<"bot", "owner">>
FileKey(f) == IF f \in DOMAIN FileKeys THEN FileKeys[f] ELSE FileEndKeys[f]
PathOf(p, f) ==
  IF p = User THEN UserPath(f)
  ELSE IF p = Channel THEN ChannelKeys(type)[f]
  ELSE IF p = File THEN FilePath \o FileKey(f)
  ELSE RelationPath(p[3]) \o <<"_id">>
Has(p, f) ==
  \/ kind = "user" /\ p = User /\ f \in UserFields \ {"relations"}
  \/ kind = "channel" /\ p = Channel /\ f \in DOMAIN ChannelKeys(type)
  \/ HasFile /\ p = File /\ f \in Parts[File]
  \/ kind = "user" /\ f = "user_id" /\ \E i \in 1 .. count : p = Relation(i)

LEMMA UserPaths ==
  ASSUME NEW f \in UserFields \ {"relations"}
  PROVE  /\ (\E s \in KeyWords : UserPath(f) = <<s>>) \/ UserPath(f) \in {<<"status", "text">>, <<"bot", "owner">>}
         /\ \A g \in UserFields \ {"relations"} : UserPath(f) = UserPath(g) => f = g
<1>1. f \in {"id", "username", "discriminator", "display_name", "text", "owner_id"}
  BY DEF UserFields, UserKeys
<1>2. (\E s \in KeyWords : UserPath(f) = <<s>>) \/ UserPath(f) \in {<<"status", "text">>, <<"bot", "owner">>}
  BY <1>1 DEF UserPath, UserKeys, KeyWords, Literals
<1>3. \A g \in {"id", "username", "discriminator", "display_name", "text", "owner_id"} :
        UserPath(f) = UserPath(g) => f = g
  BY <1>1 DEF UserPath, UserKeys
<1>4. UserFields \ {"relations"} \subseteq {"id", "username", "discriminator", "display_name", "text", "owner_id"}
  BY DEF UserFields, UserKeys
<1> QED BY <1>2, <1>3, <1>4

OneWord(keys) == \A f \in DOMAIN keys : \E s \in KeyWords : keys[f] = <<s>>
Distinct(keys) == \A f, g \in DOMAIN keys : keys[f] = keys[g] => f = g

LEMMA ChannelPaths == \A t : OneWord(ChannelKeys(t)) /\ Distinct(ChannelKeys(t))
<1> USE DEF OneWord, Distinct
<1>1. OneWord(SmKeys) /\ Distinct(SmKeys) BY DEF SmKeys, KeyWords, Literals
<1>2. OneWord(DmKeys) /\ Distinct(DmKeys) BY DEF DmKeys, KeyWords, Literals
<1>3. OneWord(GroupKeys) /\ Distinct(GroupKeys) BY DEF GroupKeys, KeyWords, Literals
<1>4. OneWord(TextKeys) /\ Distinct(TextKeys) BY DEF TextKeys, KeyWords, Literals
<1>5. OneWord(VoiceKeys) /\ Distinct(VoiceKeys) BY DEF VoiceKeys, KeyWords, Literals
<1>6. OneWord(<<>>) /\ Distinct(<<>>)
  <2>1. DOMAIN <<>> = {} OBVIOUS
  <2> QED BY <2>1
<1>7. \A t : ChannelKeys(t) \in {SmKeys, DmKeys, GroupKeys, TextKeys, VoiceKeys, <<>>} BY DEF ChannelKeys
<1> HIDE DEF OneWord, Distinct
<1> QED BY <1>1, <1>2, <1>3, <1>4, <1>5, <1>6, <1>7

LEMMA FilePathsAre ==
  ASSUME NEW f \in Parts[File]
  PROVE  /\ \E s \in KeyWords : FileKey(f) = <<s>> /\ FilePath \o FileKey(f) = <<FileName, s>>
         /\ \A g \in Parts[File] : FilePath \o FileKey(f) = FilePath \o FileKey(g) => f = g
<1> DEFINE F == {"id", "tag", "filename", "content_type", "message_id", "user_id", "server_id", "object_id"}
<1>1. Parts[File] = F
  <2>1. DOMAIN FileKeys \cup DOMAIN FileEndKeys = F BY DEF FileKeys, FileEndKeys
  <2> QED BY <2>1, PartsAre
<1>2. \A g \in F : \E s \in KeyWords : FileKey(g) = <<s>>
  BY DEF FileKey, FileKeys, FileEndKeys, KeyWords, Literals
<1>3. \A g, h \in F : FileKey(g) = FileKey(h) => g = h
  BY DEF FileKey, FileKeys, FileEndKeys
<1> HIDE DEF F
<1>4. ASSUME NEW s \in KeyWords PROVE FilePath \o <<s>> = <<FileName, s>>
  <2>1. FileName \in Words /\ s \in Words BY DEF FileName, Words, Literals, KeyWords
  <2>2. PICK a : a = FileName OBVIOUS
  <2>3. FilePath = <<a>> BY <2>2 DEF FilePath, FileName
  <2> QED BY <2>1, <2>2, <2>3, TwoOf
<1>5. PICK s \in KeyWords : FileKey(f) = <<s>> BY <1>1, <1>2
<1>6. ASSUME NEW g \in Parts[File], FilePath \o FileKey(f) = FilePath \o FileKey(g) PROVE f = g
  <2>1. PICK t \in KeyWords : FileKey(g) = <<t>> BY <1>1, <1>2
  <2>2. <<FileName, s>> = <<FileName, t>> BY <1>4, <1>5, <1>6, <2>1
  <2>3. s = t BY <2>2
  <2> QED BY <1>1, <1>3, <1>5, <2>1, <2>3
<1> QED BY <1>4, <1>5, <1>6

(* The relations counted are in the array.                                   *)
Counted ==
  count \in Nat /\ (kind = "user" /\ count # 0 => IsArray(<<"relations">>) /\ count <= max)
ElementName(i) == ArrayOf(<<"relations">>)[i]
LEMMA RelationPaths ==
  ASSUME DocInv, at \in OpenPlaces, IsArray(<<"relations">>), NEW i \in Nat, i > 0, i <= max,
         NEW s \in {"_id", "status"}
  PROVE  /\ ElementName(i) \in Words /\ RelationPath(i) = <<"relations", ElementName(i)>>
         /\ RelationPath(i) \o <<s>> = <<"relations", ElementName(i), s>>
<1>1. PICK r : r = ElementName(i) OBVIOUS
<1>2. ArrayOf(<<"relations">>) \in Seq(Words) BY Arrays DEF IsArray
<1>3. Len(ArrayOf(<<"relations">>)) = max BY DEF max, ArrayOf
<1>4. i \in 1 .. max
  <2>1. max \in Nat BY MaxTyped
  <2> QED BY <2>1
<1>5. r \in Words BY <1>1, <1>2, <1>3, <1>4, ElementOfSeq DEF ElementName
<1>6. "relations" \in Words /\ s \in Words BY DEF Words, Literals
<1>7. RelationPath(i) = <<"relations", r>> BY <1>1 DEF RelationPath, ElementName, ArrayOf
<1>8. <<"relations", r>> \o <<s>> = <<"relations", r, s>> BY <1>5, <1>6, ThreeOf
<1> QED BY <1>1, <1>5, <1>7, <1>8

LEMMA ElementsDiffer ==
  ASSUME DocInv, at \in OpenPlaces, IsArray(<<"relations">>), NEW i \in Nat, i > 0, i <= max,
         NEW j \in Nat, j > 0, j <= max, ElementName(i) = ElementName(j)
  PROVE  i = j
<1>1. PICK s : s = ArrayOf(<<"relations">>) OBVIOUS
<1>2. s \in Seq(Words) /\ \A m, n \in DOMAIN s : s[m] = s[n] => m = n BY <1>1, Arrays DEF IsArray
<1>3. Len(s) = max BY <1>1 DEF max, ArrayOf
<1>4. DOMAIN s = 1 .. max /\ max \in Nat BY <1>2, <1>3, LenProperties
<1> QED BY <1>1, <1>2, <1>4 DEF ElementName

(* What the paths of fields look like.                                       *)
WordPath(path) == \E s \in KeyWords : path = <<s>>
IsElement(p, path) ==
  \E i \in 1 .. count : p = Relation(i) /\ ElementName(i) \in Words /\ path = <<"relations", ElementName(i), "_id">>

LEMMA PathShape ==
  ASSUME PlaceInv, DocInv, at \in OpenPlaces, Counted, NEW p, NEW f, Has(p, f)
  PROVE  \/ p \in {User, Channel} /\ WordPath(PathOf(p, f))
         \/ p = User /\ PathOf(p, f) \in {<<"status", "text">>, <<"bot", "owner">>}
         \/ p = File /\ \E s \in KeyWords : PathOf(p, f) = <<FileName, s>>
         \/ IsElement(p, PathOf(p, f))
<1>0. User # Channel /\ File # User /\ File # Channel /\ count \in Nat BY Apart DEF Counted
<1>1. CASE kind = "user" /\ p = User /\ f \in UserFields \ {"relations"}
  <2>1. PathOf(p, f) = UserPath(f) BY <1>1 DEF PathOf
  <2> QED BY <1>1, <2>1, UserPaths DEF WordPath
<1>2. CASE kind = "channel" /\ p = Channel /\ f \in DOMAIN ChannelKeys(type)
  <2>1. PathOf(p, f) = ChannelKeys(type)[f] BY <1>0, <1>2 DEF PathOf
  <2>2. OneWord(ChannelKeys(type)) BY ChannelPaths
  <2> QED BY <1>2, <2>1, <2>2 DEF WordPath, OneWord
<1>3. CASE HasFile /\ p = File /\ f \in Parts[File]
  <2>1. PathOf(p, f) = FilePath \o FileKey(f) BY <1>0, <1>3 DEF PathOf
  <2>2. PICK s \in KeyWords : FilePath \o FileKey(f) = <<FileName, s>> BY <1>3, FilePathsAre
  <2> QED BY <1>3, <2>1, <2>2
<1>4. CASE kind = "user" /\ f = "user_id" /\ \E i \in 1 .. count : p = Relation(i)
  <2>1. PICK i \in 1 .. count : p = Relation(i) BY <1>4
  <2>2. IsArray(<<"relations">>) /\ count <= max
    <3>1. kind = "user" /\ count # 0 BY <1>0, <1>4, <2>1
    <3> QED BY <3>1 DEF Counted
  <2>3. max \in Nat BY <2>2, MaxTyped
  <2>4. i \in Nat /\ i > 0 /\ i <= max BY <1>0, <2>1, <2>2, <2>3
  <2>5. p # User /\ p # Channel /\ p # File
    BY <2>1 DEF Relation, User, Channel, File
  <2>6. p[3] = i BY <2>1 DEF Relation
  <2>7. PathOf(p, f) = RelationPath(i) \o <<"_id">> BY <2>5, <2>6 DEF PathOf
  <2>8. ElementName(i) \in Words /\ RelationPath(i) \o <<"_id">> = <<"relations", ElementName(i), "_id">>
    BY <2>2, <2>4, RelationPaths
  <2>9. IsElement(p, PathOf(p, f)) BY <2>1, <2>7, <2>8 DEF IsElement
  <2> QED BY <2>9
<1> QED BY <1>1, <1>2, <1>3, <1>4 DEF Has

(* Fields of different parts have different paths, and so have the fields of *)
(* one.                                                                      *)
LEMMA PathsDiffer ==
  ASSUME PlaceInv, DocInv, at \in OpenPlaces, Counted, NEW p, NEW f, Has(p, f), NEW q, NEW g, Has(q, g),
         PathOf(p, f) = PathOf(q, g)
  PROVE  p = q /\ f = g
<1>0. User # Channel /\ File # User /\ File # Channel /\ count \in Nat /\ kind \in Kinds
  BY Apart DEF Counted, PlaceInv
<1>1. PICK path : path = PathOf(p, f) /\ path = PathOf(q, g) OBVIOUS
<1> DEFINE A(o) == o \in {User, Channel} /\ WordPath(path)
           B(o) == o = User /\ path \in {<<"status", "text">>, <<"bot", "owner">>}
           C(o) == o = File /\ \E s \in KeyWords : path = <<FileName, s>>
           D(o) == IsElement(o, path)
<1>2. A(p) \/ B(p) \/ C(p) \/ D(p) BY <1>1, PathShape
<1>3. A(q) \/ B(q) \/ C(q) \/ D(q) BY <1>1, PathShape
<1>4. ASSUME NEW o, NEW h, Has(o, h)
      PROVE  /\ o = User => kind = "user" /\ h \in UserFields \ {"relations"}
             /\ o = Channel => kind = "channel" /\ h \in DOMAIN ChannelKeys(type)
             /\ o = File => h \in Parts[File]
             /\ (o # User /\ o # Channel /\ o # File => h = "user_id" /\ kind = "user")
  <2>1. \A i : Relation(i) # User /\ Relation(i) # Channel /\ Relation(i) # File
    BY DEF Relation, User, Channel, File
  <2> QED BY <1>0, <1>4, <2>1 DEF Has
<1>5. CASE p = User /\ q = User
  <2>1. UserPath(f) = UserPath(g) BY <1>5, <1>1 DEF PathOf
  <2> QED BY <1>4, <1>5, <2>1, UserPaths
<1>6. CASE p = Channel /\ q = Channel
  <2>1. ChannelKeys(type)[f] = ChannelKeys(type)[g] BY <1>0, <1>6, <1>1 DEF PathOf
  <2>2. Distinct(ChannelKeys(type)) BY ChannelPaths
  <2> QED BY <1>4, <1>6, <2>1, <2>2 DEF Distinct
<1>7. CASE p = File /\ q = File
  <2>1. FilePath \o FileKey(f) = FilePath \o FileKey(g) BY <1>0, <1>7, <1>1 DEF PathOf
  <2> QED BY <1>4, <1>7, <2>1, FilePathsAre
<1>8. CASE D(p) /\ D(q)
  <2>1. PICK i \in 1 .. count : p = Relation(i) /\ path = <<"relations", ElementName(i), "_id">>
    BY <1>8 DEF IsElement
  <2>2. PICK j \in 1 .. count : q = Relation(j) /\ path = <<"relations", ElementName(j), "_id">>
    BY <1>8 DEF IsElement
  <2>3. ElementName(i) = ElementName(j) BY <2>1, <2>2
  <2>a. p # User /\ p # Channel /\ p # File
    BY <2>1 DEF Relation, User, Channel, File
  <2>4. IsArray(<<"relations">>) /\ count <= max
    <3>1. kind = "user" /\ count # 0 BY <1>0, <1>4, <2>1, <2>a
    <3> QED BY <3>1 DEF Counted
  <2>5. max \in Nat BY <2>4, MaxTyped
  <2>6. i \in Nat /\ i > 0 /\ i <= max /\ j \in Nat /\ j > 0 /\ j <= max BY <1>0, <2>1, <2>2, <2>4, <2>5
  <2>7. i = j BY <2>3, <2>4, <2>6, ElementsDiffer
  <2>8. \A n : Relation(n) # User /\ Relation(n) # Channel /\ Relation(n) # File
    BY DEF Relation, User, Channel, File
  <2> QED BY <1>4, <2>1, <2>2, <2>7, <2>8
<1>10. D(p) => path \notin {<<"status", "text">>, <<"bot", "owner">>} /\ ~WordPath(path)
              /\ ~\E s \in KeyWords : path = <<FileName, s>>
  BY DEF IsElement, WordPath
<1>11. D(q) => path \notin {<<"status", "text">>, <<"bot", "owner">>} /\ ~WordPath(path)
              /\ ~\E s \in KeyWords : path = <<FileName, s>>
  BY DEF IsElement, WordPath
<1>12. WordPath(path) => /\ path \notin {<<"status", "text">>, <<"bot", "owner">>}
                         /\ ~\E s \in KeyWords : path = <<FileName, s>>
  BY DEF WordPath
<1>13. path \in {<<"status", "text">>, <<"bot", "owner">>} => ~\E s \in KeyWords : path = <<FileName, s>>
  BY DEF FileName
<1>14. p = User => q # Channel
  BY <1>0, <1>4
<1>15. p = Channel => q # User
  BY <1>0, <1>4
<1> HIDE DEF A, B, C, D
<1> QED BY <1>2, <1>3, <1>5, <1>6, <1>7, <1>8, <1>10, <1>11, <1>12, <1>13, <1>14, <1>15 DEF A, B, C, D

-----------------------------------------------------------------------------
(* Copies of strings from different paths have different names.              *)
Plain(path) == path \in Seq(Words) /\ Len(path) >= 1 /\ path[Len(path)] # "again"
Again(b) == b \o <<"again">>

LEMMA NameForms ==
  ASSUME NEW k \in Kinds, NEW path, Plain(path)
  PROVE  /\ <<k>> \o path \in Seq(Words) /\ Len(<<k>> \o path) = 1 + Len(path) /\ Len(path) \in Nat
         /\ (<<k>> \o path)[1] = k /\ (<<k>> \o path)[1 + Len(path)] # "again"
         /\ Again(<<k>> \o path) \in Seq(Words) /\ Len(Again(<<k>> \o path)) = 2 + Len(path)
         /\ Again(<<k>> \o path)[2 + Len(path)] = "again"
<1>1. PICK a : a = <<k>> OBVIOUS
<1>2. a \in Seq(Words) /\ Len(a) = 1 /\ a[1] = k
  <2>1. k \in Words BY DEF Kinds, Words, Literals
  <2> QED BY <1>1, <2>1, OneOf
<1>3. path \in Seq(Words) /\ Len(path) \in Nat /\ Len(path) >= 1 /\ path[Len(path)] # "again"
  BY LenProperties DEF Plain
<1>4. PICK b : b = a \o path OBVIOUS
<1>5. /\ b \in Seq(Words) /\ Len(b) = Len(a) + Len(path)
      /\ \A i \in 1 .. Len(a) + Len(path) : b[i] = IF i <= Len(a) THEN a[i] ELSE path[i - Len(a)]
  BY <1>2, <1>3, <1>4, ConcatProperties
<1>6. Len(b) = 1 + Len(path) /\ b[1] = k /\ b[1 + Len(path)] = path[Len(path)]
  <2>1. 1 + Len(path) \in 1 .. Len(a) + Len(path) /\ ~(1 + Len(path) <= Len(a)) /\ (1 + Len(path)) - Len(a) = Len(path)
    BY <1>2, <1>3
  <2>2. b[1 + Len(path)] = path[(1 + Len(path)) - Len(a)] BY <1>5, <2>1
  <2> QED BY <1>2, <1>3, <1>5, <2>1, <2>2
<1>7. PICK d : d = <<"again">> OBVIOUS
<1>8. d \in Seq(Words) /\ Len(d) = 1 /\ d[1] = "again"
  <2>1. "again" \in Words BY DEF Words, Literals
  <2> QED BY <1>7, <2>1, OneOf
<1>9. PICK e : e = b \o d OBVIOUS
<1>10. /\ e \in Seq(Words) /\ Len(e) = Len(b) + Len(d)
       /\ \A i \in 1 .. Len(b) + Len(d) : e[i] = IF i <= Len(b) THEN b[i] ELSE d[i - Len(b)]
  <2>1. b \in Seq(Words) /\ d \in Seq(Words) BY <1>5, <1>8
  <2> QED BY <2>1, <1>9, ConcatProperties
<1>11. Len(e) = 2 + Len(path) /\ e[2 + Len(path)] = "again"
  BY <1>3, <1>6, <1>8, <1>10
<1> QED BY <1>1, <1>3, <1>4, <1>5, <1>6, <1>7, <1>9, <1>10, <1>11 DEF Again

LEMMA CopiesApart ==
  ASSUME NEW k \in Kinds, NEW path, Plain(path), NEW other, Plain(other),
         NEW b \in CopyNames(k, path), b \in CopyNames(k, other)
  PROVE  path = other
<1>1. PICK a, d : a = <<k>> /\ d = <<"again">> OBVIOUS
<1>2. a \in Seq(Words) /\ d \in Seq(Words)
  <2>1. k \in Words /\ "again" \in Words BY DEF Kinds, Words, Literals
  <2> QED BY <1>1, <2>1, OneOf
<1>3. PICK s, t : s = a \o path /\ t = a \o other OBVIOUS
<1>4. /\ s \in Seq(Words) /\ Len(s) = 1 + Len(path) /\ Len(path) \in Nat /\ s[1 + Len(path)] # "again"
      /\ Again(s) \in Seq(Words) /\ Len(Again(s)) = 2 + Len(path) /\ Again(s)[2 + Len(path)] = "again"
  BY <1>1, <1>3, NameForms
<1>5. /\ t \in Seq(Words) /\ Len(t) = 1 + Len(other) /\ Len(other) \in Nat /\ t[1 + Len(other)] # "again"
      /\ Again(t) \in Seq(Words) /\ Len(Again(t)) = 2 + Len(other) /\ Again(t)[2 + Len(other)] = "again"
  BY <1>1, <1>3, NameForms
<1>6. b \in {s, Again(s)} /\ b \in {t, Again(t)} BY <1>1, <1>3 DEF CopyNames, Again
<1>7. s # Again(t)
  <2>1. SUFFICES ASSUME s = Again(t) PROVE FALSE OBVIOUS
  <2>2. Len(s) = 2 + Len(other) /\ s[2 + Len(other)] = "again" BY <1>5, <2>1
  <2>3. 1 + Len(path) = 2 + Len(other) BY <1>4, <2>2
  <2> QED BY <1>4, <2>2, <2>3
<1>8. t # Again(s)
  <2>1. SUFFICES ASSUME t = Again(s) PROVE FALSE OBVIOUS
  <2>2. Len(t) = 2 + Len(path) /\ t[2 + Len(path)] = "again" BY <1>4, <2>1
  <2>3. 1 + Len(other) = 2 + Len(path) BY <1>5, <2>2
  <2> QED BY <1>5, <2>2, <2>3
<1>9. Again(s) = Again(t) => s = t
  <2>1. d \in Seq(Words) /\ s \in Seq(Words) /\ t \in Seq(Words) BY <1>2, <1>4, <1>5
  <2>2. s \o d = t \o d => s = t BY <2>1, ConcatSimplifications
  <2> QED BY <1>1, <2>2 DEF Again
<1>10. s = t BY <1>6, <1>7, <1>8, <1>9
<1>11. path \in Seq(Words) /\ other \in Seq(Words) BY DEF Plain
<1>12. a \in Seq(Words) BY <1>2
<1>13. a \o path = a \o other => path = other BY <1>11, <1>12, ConcatSimplifications
<1> QED BY <1>3, <1>10, <1>13

(* A copy is no null pointer and none that was never written.                *)
LEMMA CopiesSomewhere ==
  ASSUME NEW k \in Kinds, NEW path, Plain(path), NEW b \in CopyNames(k, path)
  PROVE  b \notin Nowhere /\ Len(b) >= 2
<1>1. PICK s : s = <<k>> \o path OBVIOUS
<1>2. Len(path) >= 1 /\ Len(path) \in Nat BY LenProperties DEF Plain
<1>3. Len(s) = 1 + Len(path) /\ Len(Again(s)) = 2 + Len(path) BY <1>1, NameForms
<1>4. b = s \/ b = Again(s) BY <1>1 DEF CopyNames, Again
<1>5. Len(b) >= 2 BY <1>2, <1>3, <1>4
<1>6. Len(NULL) = 0 /\ Len(WILD) = 1 BY DEF NULL, WILD
<1>7. b # NULL BY <1>5, <1>6
<1>8. b # WILD
  <2>1. SUFFICES ASSUME b = WILD PROVE FALSE OBVIOUS
  <2>2. Len(b) = 1 BY <1>6, <2>1
  <2> QED BY <1>5, <2>2
<1> QED BY <1>5, <1>7, <1>8 DEF Nowhere

(* The paths of fields are such, and so is that of the array.                *)
LEMMA WordsPlain ==
  /\ \A s \in KeyWords : Plain(<<s>>) /\ <<s>> # <<"relations">>
  /\ \A a \in Words, s \in KeyWords : Plain(<<a, s>>) /\ <<a, s>> # <<"relations">>
  /\ \A a \in Words, s \in KeyWords : Plain(<<"relations", a, s>>) /\ <<"relations", a, s>> # <<"relations">>
  /\ Plain(<<"relations">>)
<1>1. \A s \in KeyWords : s \in Words /\ s # "again" /\ s # "relations" BY DEF KeyWords, Words
<1>2. "relations" \in Words BY DEF Words, Literals
<1>3. ASSUME NEW s \in KeyWords PROVE Plain(<<s>>) /\ <<s>> # <<"relations">>
  <2>1. <<s>> \in Seq(Words) /\ Len(<<s>>) = 1 /\ <<s>>[1] = s BY <1>1
  <2> QED BY <1>1, <2>1 DEF Plain
<1>4. ASSUME NEW a \in Words, NEW s \in KeyWords PROVE Plain(<<a, s>>) /\ <<a, s>> # <<"relations">>
  <2>1. <<a, s>> \in Seq(Words) /\ Len(<<a, s>>) = 2 /\ <<a, s>>[2] = s BY <1>1
  <2> QED BY <1>1, <2>1 DEF Plain
<1>5. ASSUME NEW a \in Words, NEW s \in KeyWords
      PROVE Plain(<<"relations", a, s>>) /\ <<"relations", a, s>> # <<"relations">>
  <2>1. <<"relations", a, s>> \in Seq(Words) /\ Len(<<"relations", a, s>>) = 3 /\ <<"relations", a, s>>[3] = s
    BY <1>1, <1>2
  <2> QED BY <1>1, <2>1 DEF Plain
<1>6. Plain(<<"relations">>)
  <2>1. <<"relations">> \in Seq(Words) /\ Len(<<"relations">>) = 1 /\ <<"relations">>[1] = "relations" BY <1>2
  <2> QED BY <2>1 DEF Plain
<1> QED BY <1>3, <1>4, <1>5, <1>6

LEMMA PathPlain ==
  ASSUME PlaceInv, DocInv, at \in OpenPlaces, Counted, NEW p, NEW f, Has(p, f)
  PROVE  Plain(PathOf(p, f)) /\ PathOf(p, f) # <<"relations">>
<1>1. PICK path : path = PathOf(p, f) OBVIOUS
<1>2. \/ WordPath(path)
      \/ path \in {<<"status", "text">>, <<"bot", "owner">>}
      \/ \E s \in KeyWords : path = <<FileName, s>>
      \/ IsElement(p, path)
  BY <1>1, PathShape
<1>3. "status" \in Words /\ "bot" \in Words /\ FileName \in Words BY DEF Words, Literals, FileName
<1>4. "text" \in KeyWords /\ "owner" \in KeyWords /\ "_id" \in KeyWords BY DEF KeyWords, Literals
<1>5. WordPath(path) => Plain(path) /\ path # <<"relations">> BY WordsPlain DEF WordPath
<1>6. path \in {<<"status", "text">>, <<"bot", "owner">>} => Plain(path) /\ path # <<"relations">>
  BY <1>3, <1>4, WordsPlain
<1>7. (\E s \in KeyWords : path = <<FileName, s>>) => Plain(path) /\ path # <<"relations">>
  <2>1. PICK a \in Words : a = FileName BY <1>3
  <2> QED BY <2>1, WordsPlain
<1>8. IsElement(p, path) => Plain(path) /\ path # <<"relations">>
  <2>1. IsElement(p, path) => \E a \in Words : path = <<"relations", a, "_id">> BY DEF IsElement
  <2> QED BY <2>1, <1>4, WordsPlain
<1> QED BY <1>1, <1>2, <1>5, <1>6, <1>7, <1>8

-----------------------------------------------------------------------------
(* What the fields of the object hold: copies from their own paths.          *)
Known == Core /\ ReadInv /\ Counted /\ at \in {"relation", "leave"} /\ err[kind] = "OK"

LEMMA KnownIs ==
  ASSUME Known
  PROVE  /\ PlaceInv /\ DocInv /\ FieldInv /\ UnsetInv /\ kind \in Kinds /\ at \in OpenPlaces
         /\ FileRead /\ doc \in Documents[kind] /\ count \in Nat
         /\ kind = "user" => UserRead /\ RelationsRead
         /\ kind = "channel" => ChannelRead /\ at = "leave"
<1>1. at \in OpenPlaces BY DEF Known, OpenPlaces, UserPlaces
<1>2. PlaceInv /\ DocInv /\ FieldInv /\ UnsetInv BY DEF Known, Core
<1>3. kind \in Kinds BY <1>2 DEF PlaceInv
<1>4. kind = "channel" => at = "leave" BY <1>2 DEF Known, PlaceInv, UserPlaces
<1> QED BY <1>1, <1>2, <1>3, <1>4 DEF Known, ReadInv, Counted

LEMMA KeyItself ==
  ASSUME NEW key \in KeySet
  PROVE  <<>> \o key = key
<1>1. key \in Seq(Words) BY KeyOf
<1> QED BY <1>1, ConcatEmptySeq

LEMMA HasHolds ==
  ASSUME Known, NEW p, NEW f, Has(p, f), at = "leave" \/ ~(p = User /\ f = "owner_id")
  PROVE  Holds(field[p][f], kind, PathOf(p, f))
<1>0. /\ kind \in Kinds /\ FileRead /\ count \in Nat
      /\ kind = "user" => UserRead /\ RelationsRead
      /\ kind = "channel" => ChannelRead /\ at = "leave"
  BY KnownIs
<1>a. User # Channel /\ File # User /\ File # Channel BY Apart
<1>h. /\ User[1] = "user" /\ Channel[1] = "channel" /\ File[1] = kind
  BY <1>0, Heads
<1>1. CASE kind = "user" /\ p = User /\ f \in UserFields \ {"relations"}
  <2>1. PathOf(p, f) = UserPath(f) BY <1>1 DEF PathOf
  <2>2. FieldsHold(User, <<>>, UserKeys) /\ FieldsHold(User, <<>>, StatusKeys)
    BY <1>0, <1>1
    DEF Known, UserRead, AfterUser, AfterFile, AfterType, AfterFileEnd, AfterStatus, AfterPresence,
        InRelations, AfterRelations, AfterRelationship, AfterBot
  <2>3. CASE f \in DOMAIN UserKeys
    <3>1. UserPath(f) = UserKeys[f] BY <2>3 DEF UserPath
    <3>2. UserKeys[f] \in KeySet BY <2>3, Tables DEF KeyTable
    <3>3. <<>> \o UserKeys[f] = UserKeys[f] BY <3>2, KeyItself
    <3>4. Holds(field[User][f], User[1], <<>> \o UserKeys[f]) BY <2>2, <2>3 DEF FieldsHold
    <3> QED BY <1>1, <1>h, <2>1, <3>1, <3>3, <3>4
  <2>4. CASE f = "text"
    <3>1. f \in DOMAIN StatusKeys /\ f \notin DOMAIN UserKeys BY <2>4, KeyDomains
    <3>2. UserPath(f) = StatusKeys[f] BY <2>4, <3>1 DEF UserPath, StatusKeys
    <3>3. StatusKeys[f] \in KeySet BY <3>1, Tables DEF KeyTable
    <3>4. <<>> \o StatusKeys[f] = StatusKeys[f] BY <3>3, KeyItself
    <3>5. Holds(field[User][f], User[1], <<>> \o StatusKeys[f]) BY <2>2, <3>1 DEF FieldsHold
    <3> QED BY <1>1, <1>h, <2>1, <3>2, <3>4, <3>5
  <2>5. CASE f = "owner_id"
    <3>1. f \in DOMAIN BotKeys /\ f \notin DOMAIN UserKeys /\ f # "text" BY <2>5, KeyDomains
    <3>2. UserPath(f) = BotKeys[f] BY <2>5, <3>1 DEF UserPath, BotKeys
    <3>3. BotKeys[f] \in KeySet BY <3>1, Tables DEF KeyTable
    <3>4. <<>> \o BotKeys[f] = BotKeys[f] BY <3>3, KeyItself
    <3>5. FieldsHold(User, <<>>, BotKeys) BY <1>0, <1>1, <2>5 DEF UserRead, AfterBot
    <3>6. Holds(field[User][f], User[1], <<>> \o BotKeys[f]) BY <3>1, <3>5 DEF FieldsHold
    <3> QED BY <1>1, <1>h, <2>1, <3>2, <3>4, <3>6
  <2> QED BY <1>1, <2>3, <2>4, <2>5 DEF UserFields
<1>2. CASE kind = "channel" /\ p = Channel /\ f \in DOMAIN ChannelKeys(type)
  <2>1. PathOf(p, f) = ChannelKeys(type)[f] BY <1>a, <1>2 DEF PathOf
  <2>2. FieldsHold(Channel, <<>>, ChannelKeys(type))
    BY <1>0, <1>2
    DEF ChannelRead, AfterStrings, AfterFile, AfterType, AfterFileEnd, AfterStatus, AfterPresence,
        AfterRelations, AfterRelationship, AfterBot
  <2>3. ChannelKeys(type)[f] \in KeySet BY <1>2, Tables DEF KeyTable
  <2>4. PICK key : key = ChannelKeys(type)[f] OBVIOUS
  <2>5. <<>> \o key = key BY <2>3, <2>4, KeyItself
  <2>6. Holds(field[Channel][f], Channel[1], <<>> \o key) BY <1>2, <2>2, <2>4 DEF FieldsHold
  <2> QED BY <1>2, <1>h, <2>1, <2>4, <2>5, <2>6
<1>3. CASE HasFile /\ p = File /\ f \in Parts[File]
  <2>1. PathOf(p, f) = FilePath \o FileKey(f) BY <1>a, <1>3 DEF PathOf
  <2>2. FieldsHold(File, FilePath, FileKeys) /\ FieldsHold(File, FilePath, FileEndKeys)
    BY <1>0, <1>3
    DEF Known, FileRead, AfterFile, AfterType, AfterFileEnd, AfterStatus, AfterPresence,
        InRelations, AfterRelations, AfterRelationship, AfterBot
  <2>3. CASE f \in DOMAIN FileKeys
    <3>1. FileKey(f) = FileKeys[f] BY <2>3 DEF FileKey
    <3>2. Holds(field[File][f], File[1], FilePath \o FileKeys[f]) BY <2>2, <2>3 DEF FieldsHold
    <3> QED BY <1>3, <1>h, <2>1, <3>1, <3>2
  <2>4. CASE f \in DOMAIN FileEndKeys
    <3>1. FileKey(f) = FileEndKeys[f] BY <2>4, KeyDomains DEF FileKey
    <3>2. Holds(field[File][f], File[1], FilePath \o FileEndKeys[f]) BY <2>2, <2>4 DEF FieldsHold
    <3> QED BY <1>3, <1>h, <2>1, <3>1, <3>2
  <2> QED BY <1>3, <2>3, <2>4, PartsAre
<1>4. CASE kind = "user" /\ f = "user_id" /\ \E i \in 1 .. count : p = Relation(i)
  <2>1. PICK i \in 1 .. count : p = Relation(i) BY <1>4
  <2>2. RelationHeld(i) BY <1>0, <1>4, <2>1 DEF RelationsRead
  <2>3. f \in DOMAIN RelationKeys /\ RelationKeys[f] = <<"_id">> BY <1>4 DEF RelationKeys
  <2>4. p # User /\ p # Channel /\ p # File BY <2>1 DEF Relation, User, Channel, File
  <2>5. p[3] = i /\ p[1] = "user" BY <2>1 DEF Relation
  <2>6. PathOf(p, f) = RelationPath(i) \o <<"_id">> BY <2>4, <2>5 DEF PathOf
  <2>7. Holds(field[p][f], p[1], RelationPath(i) \o RelationKeys[f])
    BY <2>1, <2>2, <2>3 DEF RelationHeld, FieldsHold
  <2> QED BY <1>4, <2>3, <2>5, <2>6, <2>7
<1> QED BY <1>1, <1>2, <1>3, <1>4 DEF Has

(* A field holds nothing, the array of relations or a copy from its path.    *)
TheArray(p, f) == kind = "user" /\ p = User /\ f = "relations" /\ field[p][f] = <<"user", "relations">>
LEMMA FieldNames ==
  ASSUME Known, NEW p \in PartsOf(kind), NEW f \in Parts[p]
  PROVE  \/ field[p][f] \in Nowhere
         \/ TheArray(p, f)
         \/ Has(p, f) /\ field[p][f] \in CopyNames(kind, PathOf(p, f))
<1>0. /\ kind \in Kinds /\ UnsetInv /\ at \in OpenPlaces /\ count \in Nat
      /\ kind = "user" => RelationsRead
  BY KnownIs
<1>1. CASE Has(p, f) /\ (at = "leave" \/ ~(p = User /\ f = "owner_id"))
  <2>1. Holds(field[p][f], kind, PathOf(p, f)) BY <1>1, HasHolds
  <2> QED BY <1>1, <2>1 DEF Holds, Nowhere
<1>2. CASE at # "leave" /\ p = User /\ f = "owner_id"
  <2>1. kind = "user" BY <1>0, <1>2, KnownIs DEF Kinds
  <2>2. at # "user"
    <3>1. at \in {"relation", "leave"} BY DEF Known
    <3> QED BY <1>2, <3>1
  <2>3. field[User].owner_id = NULL BY <1>0, <1>2, <2>1, <2>2 DEF UnsetInv, EmptyInv
  <2> QED BY <1>2, <2>3 DEF Nowhere
<1>3. CASE ~Has(p, f)
  <2>1. CASE kind = "user"
    <3>1. CASE p = User /\ f = "relations"
      BY <1>0, <2>1, <3>1 DEF RelationsRead, TheArray
    <3>2. CASE p = User /\ f # "relations"
      <4>1. f \notin UserFields BY <1>3, <2>1, <3>2 DEF Has
      <4> QED BY <1>0, <3>2, <4>1 DEF UnsetInv, ShapeInv, Only
    <3>3. CASE p = <<"user", "avatar">>
      <4>1. p = File /\ HasFile BY <2>1, <3>3 DEF File, HasFile
      <4> QED BY <1>3, <4>1 DEF Has
    <3>4. CASE \E i \in 1 .. MostRelations : p = Relation(i)
      <4>1. PICK i \in 1 .. MostRelations : p = Relation(i) BY <3>4
      <4>2. f = "user_id" BY <4>1, PartsAre
      <4>3. i \notin 1 .. count BY <1>3, <2>1, <4>1, <4>2 DEF Has
      <4>4. Filled = count BY DEF Known, Filled
      <4>5. i > Filled BY <1>0, <4>1, <4>3, <4>4
      <4> QED BY <1>0, <4>1, <4>5 DEF UnsetInv, EmptyInv, Empty, Nowhere
    <3> QED BY <2>1, <3>1, <3>2, <3>3, <3>4, UserParts
  <2>2. CASE kind = "channel"
    <3>1. CASE p = Channel
      <4>1. f \notin DOMAIN ChannelKeys(type) BY <1>3, <2>2, <3>1 DEF Has
      <4> QED BY <1>0, <3>1, <4>1 DEF UnsetInv, ShapeInv, Only
    <3>2. CASE p = Icon
      <4>1. p = File BY <2>2, <3>2 DEF File, Icon
      <4>2. type \notin WithIcon BY <1>3, <4>1 DEF Has, HasFile
      <4> QED BY <1>0, <3>2, <4>2 DEF UnsetInv, ShapeInv, Only
    <3> QED BY <2>2, <3>1, <3>2, UserParts
  <2> QED BY <1>0, <2>1, <2>2 DEF Kinds
<1> QED BY <1>1, <1>2, <1>3

(* So a copy from one path is held by the one field that has it.             *)
LEMMA HeldFrom ==
  ASSUME Known, NEW path, Plain(path), path # <<"relations">>,
         NEW p \in PartsOf(kind), NEW f \in Parts[p], field[p][f] \in CopyNames(kind, path)
  PROVE  Has(p, f) /\ path = PathOf(p, f)
<1>0. PlaceInv /\ DocInv /\ at \in OpenPlaces /\ kind \in Kinds /\ Counted BY KnownIs DEF Known
<1>1. PICK b : b = field[p][f] OBVIOUS
<1>2. b \in CopyNames(kind, path) BY <1>1
<1>3. b \notin Nowhere BY <1>0, <1>2, CopiesSomewhere
<1>4. ~TheArray(p, f)
  <2>1. SUFFICES ASSUME TheArray(p, f) PROVE FALSE OBVIOUS
  <2>2. b = <<"user", "relations">> /\ kind = "user" BY <1>1, <2>1 DEF TheArray
  <2>3. PICK other : other = <<"relations">> OBVIOUS
  <2>4. b \in CopyNames(kind, other)
    <3>1. "user" \in Words /\ "relations" \in Words BY DEF Words, Literals
    <3>2. <<"user">> \o <<"relations">> = <<"user", "relations">> BY <3>1, TwoOf
    <3> QED BY <2>2, <2>3, <3>2 DEF CopyNames
  <2>5. Plain(other) BY <2>3, WordsPlain
  <2>6. path = other BY <1>0, <1>2, <2>4, <2>5, CopiesApart
  <2> QED BY <2>3, <2>6
<1>5. Has(p, f) /\ b \in CopyNames(kind, PathOf(p, f)) BY <1>1, <1>3, <1>4, FieldNames
<1>6. PICK other : other = PathOf(p, f) OBVIOUS
<1>7. Plain(other) BY <1>0, <1>5, <1>6, PathPlain
<1>8. path = other BY <1>0, <1>2, <1>5, <1>6, <1>7, CopiesApart
<1> QED BY <1>5, <1>6, <1>8

-----------------------------------------------------------------------------
(* What is found is in its place: a relation holds a copy of its own id, and *)
(* a channel whose type is unknown is not read.                              *)
IdName(i) == <<"user">> \o (RelationPath(i) \o <<"_id">>)
FoundInv ==
  at \in OpenPlaces /\ err[kind] = "OK" =>
    /\ kind = "user" =>
         /\ count # 0 => IsArray(<<"relations">>) /\ count <= max
         /\ \A i \in 1 .. Filled : field[Relation(i)].user_id \in {NULL, IdName(i)}
    /\ kind = "channel" /\ at # "channel" => type # "UNKNOWN"

(* The id of the next relation has not been copied yet.                      *)
LEMMA NextIdNew ==
  ASSUME Reads, RelationString
  PROVE  /\ IdName(count + 1) \notin blocks
         /\ Plain(RelationPath(count + 1) \o <<"_id">>)
<1>0. /\ Core /\ ReadInv /\ PlaceInv /\ DocInv /\ FieldInv /\ at = "relation" /\ at \in OpenPlaces
      /\ kind = "user" /\ err[kind] = "OK" /\ IsArray(<<"relations">>) /\ count < max
  <2>1. Core /\ ReadInv BY DEF Reads
  <2>2. at = "relation" BY Course DEF Goes
  <2>3. PlaceInv /\ DocInv /\ FieldInv BY <2>1 DEF Core
  <2>4. kind = "user" BY <2>2, <2>3 DEF PlaceInv, UserPlaces
  <2>5. IsArray(<<"relations">>) BY <2>2, <2>3 DEF DocInv, InRelations
  <2>6. count < max BY Course
  <2> QED BY <2>1, <2>2, <2>3, <2>4, <2>5, <2>6, ReadsOn
<1>1. count \in Nat
  <2>1. count \in 0 .. MostRelations BY <1>0 DEF DocInv
  <2> QED BY <2>1
<1>2. max \in Nat BY <1>0, MaxTyped
<1>3. Counted /\ Known
  <2>1. count < max BY <1>0
  <2>2. count <= max BY <2>1, <1>1, <1>2
  <2> QED BY <1>0, <1>1, <2>2 DEF Counted, Known
<1>4. PICK n : n = count + 1 OBVIOUS
<1>5. n \in Nat /\ n > 0 /\ n <= max
  <2>1. count < max BY <1>0
  <2> QED BY <2>1, <1>1, <1>2, <1>4
<1>6. ElementName(n) \in Words /\ RelationPath(n) \o <<"_id">> = <<"relations", ElementName(n), "_id">>
  BY <1>0, <1>5, RelationPaths
<1>7. PICK path : path = RelationPath(n) \o <<"_id">> OBVIOUS
<1>8. Plain(path) /\ path # <<"relations">> /\ Len(path) = 3
  <2>1. PICK a \in Words : a = ElementName(n) BY <1>6
  <2>2. "_id" \in KeyWords BY DEF KeyWords, Literals
  <2>3. path = <<"relations", a, "_id">> BY <1>6, <1>7, <2>1
  <2> QED BY <2>2, <2>3, WordsPlain
<1>9. PICK b : b = <<"user">> \o path OBVIOUS
<1>10. b[1] = "user" /\ Len(b) = 4 /\ b \in CopyNames("user", path)
  <2>1. "user" \in Kinds BY DEF Kinds
  <2>2. (<<"user">> \o path)[1] = "user" /\ Len(<<"user">> \o path) = 1 + Len(path)
    BY <2>1, <1>8, NameForms
  <2> QED BY <1>8, <1>9, <2>2 DEF CopyNames
<1>11. \A k \in Kinds : b \notin Held(k)
  <2>1. SUFFICES ASSUME NEW k \in Kinds, b \in Held(k) PROVE FALSE OBVIOUS
  <2>2. k = "user" BY <1>0, <1>10, <2>1, HeldNames
  <2>a. PICK p \in PartsOf("user") : b \in {field[p][f] : f \in Parts[p]} BY <2>1, <2>2 DEF Held
  <2>3. PICK f \in Parts[p] : b = field[p][f] BY <2>a
  <2>4. Has(p, f) /\ path = PathOf(p, f) BY <1>0, <1>3, <1>8, <1>10, <2>3, HeldFrom
  <2>5. PICK q : q = PathOf(p, f) OBVIOUS
  <2>6. q = <<"relations", ElementName(n), "_id">> BY <1>6, <1>7, <2>4, <2>5
  <2>7. IsElement(p, q)
    <3>1. q \notin {<<"status", "text">>, <<"bot", "owner">>} /\ ~WordPath(q)
          /\ ~\E s \in KeyWords : q = <<FileName, s>>
      BY <2>6 DEF WordPath
    <3> QED BY <1>0, <1>3, <2>4, <2>5, <3>1, PathShape
  <2>8. PICK i \in 1 .. count : q = <<"relations", ElementName(i), "_id">> BY <2>7 DEF IsElement
  <2>9. ElementName(i) = ElementName(n) BY <2>6, <2>8
  <2>10. i \in Nat /\ i > 0 /\ i <= max /\ i # n BY <1>1, <1>2, <1>4, <1>5
  <2> QED BY <1>0, <1>5, <2>9, <2>10, ElementsDiffer
<1>12. b \notin blocks
  <2>1. SUFFICES ASSUME b \in blocks PROVE FALSE OBVIOUS
  <2>2. Given(b) \/ Lost(b) BY <1>0, <2>1 DEF Core, AccountInv
  <2>3. \A k, s : b # <<k>> /\ b # <<k, s>>
    <3>1. \A k, s : Len(<<k>>) = 1 /\ Len(<<k, s>>) = 2 OBVIOUS
    <3> QED BY <1>10, <3>1
  <2>4. b \notin ClientBlocks /\ b \notin RequestBlocks /\ b # Tree /\ \A w : b # Wrapper(w)
    BY <1>10, BlockNames
  <2>5. ~Given(b) BY <1>11, <2>3, <2>4 DEF Given
  <2>6. ~Lost(b) BY <1>0, <2>3 DEF Lost
  <2> QED BY <2>2, <2>5, <2>6
<1> QED BY <1>4, <1>7, <1>8, <1>9, <1>12 DEF IdName

LEMMA NextIdRead ==
  ASSUME Reads, RelationString
  PROVE  field'[Relation(count + 1)].user_id \in {NULL, IdName(count + 1)}
<1>0. FieldInv /\ WrapperInv /\ at = "relation" /\ at \in OpenPlaces
  <2>1. FieldInv /\ WrapperInv BY DEF Reads, Core
  <2>2. at = "relation" BY Course DEF Goes
  <2> QED BY <2>1, <2>2 DEF OpenPlaces, UserPlaces
<1>1. count + 1 \in 1 .. MostRelations BY RelationReads DEF Reads
<1>2. PICK obj : obj = Relation(count + 1) OBVIOUS
<1>3. obj \in DOMAIN field /\ DOMAIN field[obj] = Parts[obj] /\ Parts[obj] = {"user_id"} /\ Head(obj) = "user"
  BY <1>0, <1>1, <1>2, PartsAre, Heads DEF FieldInv
<1>4. PICK lost : field' = [field EXCEPT ![obj] = Copied(@, obj, buf, RelationKeys, lost)]
  BY <1>2 DEF RelationString, GetStrings
<1>5. PICK new : new = Copied(field[obj], obj, buf, RelationKeys, lost) OBVIOUS
<1>6. field'[obj] = new BY <1>3, <1>4, <1>5
<1>7. new["user_id"] \in {NULL, Copy(obj, buf, RelationKeys["user_id"])}
      /\ (new["user_id"] # NULL => "user_id" \in Copyable(buf, RelationKeys))
  BY <1>3, <1>5, KeyDomains DEF Copied
<1>8. PICK key : key = RelationKeys["user_id"] /\ key = <<"_id">> BY DEF RelationKeys
<1>9. ASSUME "user_id" \in Copyable(buf, RelationKeys) PROVE Copy(obj, buf, key) = IdName(count + 1)
  <2>1. buf # NoWrapper BY <1>9 DEF Copyable
  <2>2. json[buf].val = RelationPath(count + 1)
    BY <1>0, <2>1 DEF WrapperInv, InRelations, RelationPath
  <2>3. At(buf, key) = RelationPath(count + 1) \o <<"_id">> BY <1>8, <2>1, <2>2 DEF At
  <2>4. IdName(count + 1) \notin blocks BY NextIdNew
  <2> QED BY <1>3, <2>3, <2>4 DEF Copy, Fresh, IdName
<1>10. new["user_id"] \in {NULL, IdName(count + 1)} BY <1>7, <1>8, <1>9
<1> QED BY <1>2, <1>6, <1>10

LEMMA FilledTyped ==
  ASSUME DocInv, at \in OpenPlaces
  PROVE  count \in Nat /\ Filled \in Nat /\ Filled <= MostRelations
<1>1. count \in 0 .. MostRelations /\ MostRelations \in Nat BY FetchBounds DEF DocInv
<1>2. CASE at \in {"relation status", "next"}
  <2>1. IsArray(<<"relations">>) /\ count < max BY <1>2 DEF DocInv, InRelations
  <2>2. max \in Nat /\ max <= MostRelations BY <2>1, MaxTyped
  <2>3. Filled = count + 1 BY <1>2 DEF Filled
  <2>4. count < max BY <2>1
  <2> QED BY <1>1, <2>2, <2>3, <2>4
<1>3. CASE at \notin {"relation status", "next"}
  <2>1. Filled = count BY <1>3 DEF Filled
  <2> QED BY <1>1, <2>1
<1> QED BY <1>2, <1>3

LEMMA FoundRelations ==
  ASSUME Reads, FoundInv, kind = "user"
  PROVE  /\ count' # 0 => IsArray(<<"relations">>) /\ count' <= max
         /\ \A i \in 1 .. Filled' : field'[Relation(i)].user_id \in {NULL, IdName(i)}
<1>0. /\ Core /\ FetchNext /\ Reading1 /\ DocInv /\ at \in OpenPlaces
      /\ count # 0 => IsArray(<<"relations">>) /\ count <= max
      /\ \A i \in 1 .. Filled : field[Relation(i)].user_id \in {NULL, IdName(i)}
  <2>1. Core /\ FetchNext /\ Reading1 BY DEF Reads
  <2>2. DocInv BY <2>1 DEF Core
  <2>3. at \in OpenPlaces /\ err[kind] = "OK" BY ReadsOn
  <2> QED BY <2>1, <2>2, <2>3 DEF FoundInv
<1>1. count \in Nat /\ Filled \in Nat /\ Filled <= MostRelations /\ MostRelations \in Nat
  BY <1>0, FilledTyped, FetchBounds
<1>2. ASSUME NEW i \in 1 .. Filled, ~(RelationString /\ i = count + 1)
      PROVE  field'[Relation(i)].user_id \in {NULL, IdName(i)}
  <2>1. i \in 1 .. MostRelations BY <1>1
  <2>2. PICK p, f : p = Relation(i) /\ f = "user_id" OBVIOUS
  <2>3. p \in DOMAIN Parts /\ f \in Parts[p] BY <2>1, <2>2, PartsAre
  <2>4. ~Writes(p, f) BY <1>2, <2>1, <2>2, Writers
  <2>5. field'[p][f] = field[p][f] BY <1>0, <2>3, <2>4, Kept
  <2>6. field[p].user_id \in {NULL, IdName(i)} BY <1>0, <2>2
  <2> QED BY <2>2, <2>5, <2>6
<1>3. CASE UserStrings
  <2>1. count' = 0 /\ at' = "avatar" BY <1>3, Course DEF Goes
  <2>2. Filled' = 0 BY <2>1 DEF Filled
  <2> QED BY <2>1, <2>2
<1>4. CASE NextRelation
  <2>1. at = "next" /\ at' = "relation" /\ count' = count + 1 /\ ~RelationString BY <1>4, Course DEF Goes
  <2>2. IsArray(<<"relations">>) /\ count < max BY <1>0, <2>1 DEF DocInv, InRelations
  <2>3. max \in Nat BY <1>0, <2>2, MaxTyped
  <2>4. count < max BY <2>2
  <2>5. count' <= max BY <1>1, <2>1, <2>3, <2>4
  <2>6. Filled' = Filled BY <2>1 DEF Filled
  <2> QED BY <1>2, <2>1, <2>2, <2>5, <2>6
<1>5. CASE RelationString
  <2>1. at = "relation" /\ at' = "relation status" BY <1>5, Course DEF Goes
  <2>2. count' = count BY <1>5, RelationMoves
  <2>3. Filled' = count + 1 /\ Filled = count BY <2>1, <2>2 DEF Filled
  <2>4. ASSUME NEW i \in 1 .. Filled' PROVE field'[Relation(i)].user_id \in {NULL, IdName(i)}
    <3>1. CASE i = count + 1 BY <1>5, <3>1, NextIdRead
    <3>2. CASE i # count + 1
      <4>1. i \in 1 .. Filled BY <1>1, <2>3, <3>2
      <4> QED BY <1>2, <3>2, <4>1
    <3> QED BY <3>1, <3>2
  <2> QED BY <1>0, <2>2, <2>4
<1>6. CASE ~UserStrings /\ ~NextRelation /\ ~RelationString
  <2>1. count' = count BY <1>0, <1>6, ReadingFrame
  <2>2. (at' \in {"relation status", "next"}) <=> (at \in {"relation status", "next"})
    BY <1>0, <1>6, Course
    DEF Reading1, FileActions, revolt_user_deserialize_json_obj, revolt_channel_deserialize_json_obj, Goes
  <2>3. Filled' = Filled BY <2>1, <2>2 DEF Filled
  <2> QED BY <1>0, <1>2, <1>6, <2>1, <2>3
<1> QED BY <1>3, <1>4, <1>5, <1>6

LEMMA FoundStep ==
  ASSUME FoundInv, ReadInv, FetchInv, FetchNext
  PROVE  FoundInv'
<1>1. at # "crashed"
  <2>1. at = "crashed" => ~FetchNext BY NoMore
  <2> QED BY <2>1
<1>2. Core BY <1>1 DEF FetchInv
<1> DEFINE User1 == /\ (count # 0 => IsArray(<<"relations">>) /\ count <= max)'
                    /\ \A i \in 1 .. Filled' : field'[Relation(i)].user_id \in {NULL, IdName(i)'}
<1>3. ASSUME at' \in OpenPlaces, err'[kind'] = "OK"
      PROVE  /\ kind' = "user" => User1
             /\ kind' = "channel" /\ at' # "channel" => type' # "UNKNOWN"
  <2>1. CASE Reading1
    <3>1. Reads BY <1>2, <1>3, <2>1 DEF Reads
    <3>2. kind' = kind /\ doc' = doc /\ at \in OpenPlaces /\ err[kind] = "OK" BY <3>1, ReadsOn
    <3>3. kind = "user" => User1
      <4>1. max' = max /\ (IsArray(<<"relations">>)' <=> IsArray(<<"relations">>)) BY <3>2 DEF max, IsArray
      <4>2. \A i : IdName(i)' = IdName(i) BY <3>2 DEF IdName, RelationPath
      <4> QED BY <3>1, <4>1, <4>2, FoundRelations
    <3>4. kind = "channel" => type' # "UNKNOWN"
      <4>1. SUFFICES ASSUME kind = "channel" PROVE type' # "UNKNOWN" OBVIOUS
      <4>2. CASE ChannelType BY <3>1, <4>2, ReadCourse
      <4>3. CASE ~ChannelType
        <5>1. at # "channel" BY <3>1, <4>1, <4>3, ChannelMoves
        <5>2. type' = type BY <1>2, <4>3, ValueStep
        <5>3. type # "UNKNOWN" BY <3>2, <4>1, <5>1 DEF FoundInv
        <5> QED BY <5>2, <5>3
      <4> QED BY <4>2, <4>3
    <3> QED BY <3>2, <3>3, <3>4
  <2>2. CASE Deserialize
    <3>1. PlaceInv /\ DocInv /\ kind \in Kinds /\ at = "deserialize" BY <1>2, <2>2 DEF Core, PlaceInv, Deserialize
    <3>2. kind' = kind /\ at' = kind /\ count' = count
      <4>1. at' # "cleanup" BY <1>3 DEF OpenPlaces, UserPlaces, ChannelPlaces, FilePlaces
      <4> QED BY <2>2, <4>1 DEF Deserialize, Ends, object_vars
    <3>3. kind = "user" => User1
      <4>1. SUFFICES ASSUME kind = "user" PROVE User1 OBVIOUS
      <4>2. count' = 0 BY <3>1, <3>2, <4>1 DEF DocInv, EarlyPlaces
      <4>3. Filled' = 0 BY <3>2, <4>1, <4>2 DEF Filled
      <4> QED BY <4>2, <4>3
    <3> QED BY <3>2, <3>3
  <2>3. CASE revolt_init \/ Fetch \/ FetchReturns \/ Leave \/ RequestActions \/ DeleteActions
    <3>1. at' \notin OpenPlaces BY <2>3, OutsidePlaces
    <3> QED BY <1>3, <3>1
  <2> QED BY <2>1, <2>2, <2>3 DEF FetchNext, FileActions, Reading1, RequestActions, DeleteActions
<1> QED BY <1>3 DEF FoundInv

LEMMA FoundStutters ==
  ASSUME FoundInv, UNCHANGED fvars
  PROVE  FoundInv'
<1>1. /\ doc' = doc /\ at' = at /\ kind' = kind /\ field' = field /\ value' = value /\ count' = count /\ err' = err
  BY DEF fvars, jvars, object_vars
<1>2. /\ max' = max /\ type' = type /\ Filled' = Filled /\ (IsArray(<<"relations">>)' <=> IsArray(<<"relations">>))
      /\ \A i : IdName(i)' = IdName(i)
  BY <1>1 DEF max, type, Filled, IsArray, IdName, RelationPath
<1> QED BY <1>1, <1>2 DEF FoundInv

LEMMA FoundStarts == Init => FoundInv
<1>1. Init => at = "init" BY DEF Init
<1>2. "init" \notin OpenPlaces BY DEF OpenPlaces, UserPlaces, ChannelPlaces, FilePlaces
<1> QED BY <1>1, <1>2 DEF FoundInv

(* Every relation that has been read holds its own id, or none if there was  *)
(* no memory for it (data_models/user.c), and no channel of unknown type is  *)
(* read (data_models/channel.c).                                             *)
THEOREM FoundInvariant == FetchSpec => []FoundInv
<1>1. Init => FoundInv BY FoundStarts
<1>2. FoundInv /\ ReadInv /\ FetchInv /\ [FetchNext]_fvars => FoundInv' BY FoundStep, FoundStutters
<1> QED BY <1>1, <1>2, FetchInvariant, ReadInvariant, PTL DEF FetchSpec

-----------------------------------------------------------------------------
(* What an OK fetch has read when it returns: first the strings.             *)
Finished == Core /\ ReadInv /\ FoundInv /\ at = "leave" /\ err[kind] = "OK"

LEMMA FinishedKnown ==
  ASSUME Finished
  PROVE  Known /\ Filled = count /\ at \in OpenPlaces /\ doc.parses
<1>1. at = "leave" /\ DocInv /\ at \in OpenPlaces BY DEF Finished, Core, OpenPlaces
<1>2. count \in Nat
  <2>1. count \in 0 .. MostRelations BY <1>1 DEF DocInv
  <2> QED BY <2>1
<1>3. Counted BY <1>1, <1>2 DEF Counted, Finished, FoundInv
<1>4. Known BY <1>1, <1>3 DEF Finished, Known
<1>5. Filled = count BY <1>1 DEF Filled
<1> QED BY <1>1, <1>4, <1>5 DEF DocInv

LEMMA HasPart ==
  ASSUME Known, NEW p, NEW f, Has(p, f)
  PROVE  p \in PartsOf(kind) /\ f \in Parts[p]
<1>0. kind \in Kinds /\ DocInv BY KnownIs
<1>1. CASE kind = "user" /\ p = User /\ f \in UserFields \ {"relations"}
  <2>1. UserFields \subseteq ObjectFields BY DEF UserFields, ObjectFields, UserKeys, StatusKeys, BotKeys
  <2> QED BY <1>1, <2>1, PartsAre, KindParts
<1>2. CASE kind = "channel" /\ p = Channel /\ f \in DOMAIN ChannelKeys(type)
  BY <1>2, Tables, KindParts DEF KeyTable
<1>3. CASE HasFile /\ p = File /\ f \in Parts[File]
  BY <1>0, <1>3, KindParts
<1>4. CASE kind = "user" /\ f = "user_id" /\ \E i \in 1 .. count : p = Relation(i)
  <2>1. PICK i \in 1 .. count : p = Relation(i) BY <1>4
  <2>2. count \in 0 .. MostRelations /\ MostRelations \in Nat BY <1>0, FetchBounds DEF DocInv
  <2>3. i \in 1 .. MostRelations BY <2>1, <2>2
  <2> QED BY <1>4, <2>1, <2>3, PartsAre, KindParts
<1> QED BY <1>1, <1>2, <1>3, <1>4 DEF Has

(* A string that a field has is held by this field and no other.             *)
LEMMA HeldByOne ==
  ASSUME Finished, NEW p, NEW f, Has(p, f), NEW path, path = PathOf(p, f), path \in DOMAIN doc.strings
  PROVE  Cardinality(HeldBy(path)) = 1 \/ (AllocationFailed /\ HeldBy(path) = {})
<1>0. /\ Known /\ at = "leave" /\ PlaceInv /\ DocInv /\ at \in OpenPlaces /\ Counted /\ kind \in Kinds
  BY FinishedKnown, KnownIs DEF Known, Finished
<1>1. p \in PartsOf(kind) /\ f \in Parts[p] BY <1>0, HasPart
<1>2. Plain(path) /\ path # <<"relations">> BY <1>0, PathPlain
<1>3. ASSUME NEW h \in HeldBy(path) PROVE h = <<p, f>>
  <2>a. h \in UNION {{q} \X Parts[q] : q \in PartsOf(kind)} BY <1>3 DEF HeldBy
  <2>b. PICK q \in PartsOf(kind) : h \in {q} \X Parts[q] BY <2>a
  <2>1. PICK g \in Parts[q] : h = <<q, g>> BY <2>b
  <2>2. field[q][g] \in CopyNames(kind, path) BY <1>3, <2>1 DEF HeldBy, CopyNames
  <2>3. Has(q, g) /\ path = PathOf(q, g) BY <1>0, <1>2, <2>2, HeldFrom
  <2>4. PathOf(p, f) = PathOf(q, g) BY <2>3
  <2>5. p = q /\ f = g BY <1>0, <2>3, <2>4, PathsDiffer
  <2> QED BY <2>1, <2>5
<1>4. Holds(field[p][f], kind, path) BY <1>0, HasHolds
<1>5. CASE field[p][f] = NULL
  <2>1. AllocationFailed
    <3>1. field[p][f] \in CopyNames(kind, path) => FALSE
      BY <1>0, <1>2, <1>5, CopiesSomewhere DEF Nowhere
    <3> QED BY <1>4, <3>1 DEF Holds
  <2>2. HeldBy(path) = {}
    <3>1. SUFFICES ASSUME NEW h \in HeldBy(path) PROVE FALSE OBVIOUS
    <3>2. h = <<p, f>> BY <1>3
    <3>3. field[p][f] \in CopyNames(kind, path) BY <3>2 DEF HeldBy, CopyNames
    <3> QED BY <1>0, <1>2, <1>5, <3>3, CopiesSomewhere DEF Nowhere
  <2> QED BY <2>1, <2>2
<1>6. CASE field[p][f] # NULL
  <2>1. field[p][f] \in CopyNames(kind, path) BY <1>4, <1>6 DEF Holds
  <2>2. PICK h : h = <<p, f>> OBVIOUS
  <2>3. h \in UNION {{q} \X Parts[q] : q \in PartsOf(kind)}
    <3>1. h \in {p} \X Parts[p] BY <1>1, <2>2
    <3> QED BY <1>1, <3>1
  <2>4. h[1] = p /\ h[2] = f BY <2>2
  <2>5. h \in HeldBy(path) BY <2>1, <2>3, <2>4 DEF HeldBy, CopyNames
  <2>6. HeldBy(path) = {h} BY <1>3, <2>2, <2>5
  <2>7. Cardinality({h}) = 1 BY FS_Singleton
  <2> QED BY <2>6, <2>7
<1> QED BY <1>5, <1>6

(* The schema has strings only where a field has one, or in a relation there *)
(* was no memory for.                                                        *)
HasText(path) == \E p, f : Has(p, f) /\ path = PathOf(p, f)
Missed(path) == AllocationFailed /\ Plain(path) /\ path # <<"relations">>

LEMMA FileTextPlace ==
  ASSUME HasFile, NEW path \in FileTexts(FilePath)
  PROVE  HasText(path)
<1>0. User # Channel /\ File # User /\ File # Channel /\ Parts[File] = DOMAIN FileKeys \cup DOMAIN FileEndKeys
  BY Apart, PartsAre
<1>1. PICK f \in Parts[File] : path = FilePath \o FileKey(f)
  <2>1. CASE path \in Under(FilePath, FileKeys)
    <3>1. PICK f \in DOMAIN FileKeys : path = FilePath \o FileKeys[f] BY <2>1 DEF Under
    <3>2. FileKey(f) = FileKeys[f] BY <3>1 DEF FileKey
    <3> QED BY <1>0, <3>1, <3>2
  <2>2. CASE path \in Under(FilePath, FileEndKeys)
    <3>1. PICK f \in DOMAIN FileEndKeys : path = FilePath \o FileEndKeys[f] BY <2>2 DEF Under
    <3>2. FileKey(f) = FileEndKeys[f] BY <3>1, KeyDomains DEF FileKey
    <3> QED BY <1>0, <3>1, <3>2
  <2> QED BY <2>1, <2>2 DEF FileTexts
<1>2. Has(File, f) BY DEF Has
<1>3. path = PathOf(File, f) BY <1>0, <1>1 DEF PathOf
<1> QED BY <1>2, <1>3 DEF HasText

(* A text directly in the object.                                            *)
LEMMA TopTextPlace ==
  ASSUME NEW p, NEW keys, NEW path \in Under(<<>>, keys),
         \A f \in DOMAIN keys : keys[f] \in KeySet /\ Has(p, f) /\ PathOf(p, f) = keys[f]
  PROVE  HasText(path)
<1>1. PICK f \in DOMAIN keys : path = <<>> \o keys[f] BY DEF Under
<1>2. PICK key : key = keys[f] OBVIOUS
<1>3. <<>> \o key = key BY <1>2, KeyItself
<1>4. Has(p, f) /\ path = PathOf(p, f) BY <1>1, <1>2, <1>3
<1> QED BY <1>4 DEF HasText

LEMMA RelationTextPlace ==
  ASSUME Finished, kind = "user", DOMAIN doc.arrays \subseteq doc.nodes,
         NEW r \in Elements(doc), NEW path \in Under(<<"relations", r>>, RelationKeys)
  PROVE  HasText(path) \/ Missed(path)
<1>0. Known /\ DocInv /\ RelationsRead /\ at = "leave" /\ at \in OpenPlaces /\ count \in Nat
  BY FinishedKnown, KnownIs DEF Finished
<1>1. IsArray(<<"relations">>) /\ r \in {doc.arrays[<<"relations">>][i] : i \in DOMAIN doc.arrays[<<"relations">>]}
  BY DEF Elements, IsArray
<1>2. PICK i \in DOMAIN doc.arrays[<<"relations">>] : r = doc.arrays[<<"relations">>][i] BY <1>1
<1>3. max \in Nat BY <1>0, <1>1, MaxTyped
<1>4. r = ElementName(i) /\ i \in 1 .. max
  <2>1. ArrayOf(<<"relations">>) \in Seq(Words) BY <1>0, <1>1, Arrays DEF IsArray
  <2>2. DOMAIN ArrayOf(<<"relations">>) = 1 .. max BY <2>1, LenProperties DEF max, ArrayOf
  <2> QED BY <1>2, <2>2 DEF ArrayOf, ElementName
<1>5. i \in Nat /\ i > 0 /\ i <= max BY <1>3, <1>4
<1>6. ElementName(i) \in Words /\ RelationPath(i) = <<"relations", ElementName(i)>>
      /\ RelationPath(i) \o <<"_id">> = <<"relations", ElementName(i), "_id">>
  BY <1>0, <1>1, <1>5, RelationPaths
<1>7. path = RelationPath(i) \o <<"_id">>
  <2>1. PICK f \in DOMAIN RelationKeys : path = <<"relations", r>> \o RelationKeys[f] BY DEF Under
  <2>2. RelationKeys[f] = <<"_id">> BY <2>1 DEF RelationKeys
  <2> QED BY <1>4, <1>6, <2>1, <2>2
<1>8. CASE i <= count
  <2>1. i \in 1 .. count BY <1>0, <1>5, <1>8
  <2>2. Has(Relation(i), "user_id") BY <2>1 DEF Has
  <2>3. Relation(i) # User /\ Relation(i) # Channel /\ Relation(i) # File /\ Relation(i)[3] = i
    BY DEF Relation, User, Channel, File
  <2>4. PathOf(Relation(i), "user_id") = path BY <1>7, <2>3 DEF PathOf
  <2> QED BY <2>2, <2>4 DEF HasText
<1>9. CASE ~(i <= count)
  <2>1. <<"relations">> \in doc.nodes BY <1>1 DEF IsArray
  <2>2. AllocationFailed \/ count = max
    BY <1>0, <1>1, <2>1 DEF RelationsRead, AfterRelations, AfterRelationship, AfterBot
  <2>3. count # max BY <1>0, <1>3, <1>5, <1>9
  <2>4. PICK a \in Words : a = ElementName(i) BY <1>6
  <2>5. "_id" \in KeyWords BY DEF KeyWords, Literals
  <2>6. path = <<"relations", a, "_id">> BY <1>6, <1>7, <2>4
  <2>7. Plain(path) /\ path # <<"relations">> BY <2>5, <2>6, WordsPlain
  <2> QED BY <2>2, <2>3, <2>7 DEF Missed
<1> QED BY <1>8, <1>9

LEMMA UserTextPlace ==
  ASSUME Finished, kind = "user", UserSchema(doc), NEW path \in TextsIn(doc)
  PROVE  HasText(path) \/ Missed(path)
<1>0. User # Channel /\ File # User /\ HasFile /\ FilePath = <<"avatar">> BY Apart DEF HasFile, FilePath
<1>1. CASE path \in Under(<<>>, UserKeys)
  <2>1. ASSUME NEW f \in DOMAIN UserKeys PROVE UserKeys[f] \in KeySet /\ Has(User, f) /\ PathOf(User, f) = UserKeys[f]
    BY Tables, KeyDomains DEF KeyTable, Has, PathOf, UserPath
  <2> QED BY <1>1, <2>1, TopTextPlace
<1>2. CASE path \in Under(<<>>, StatusKeys)
  <2>1. ASSUME NEW f \in DOMAIN StatusKeys PROVE StatusKeys[f] \in KeySet /\ Has(User, f) /\ PathOf(User, f) = StatusKeys[f]
    <3>1. f = "text" /\ f \notin DOMAIN UserKeys /\ f \in UserFields \ {"relations"} BY KeyDomains DEF UserFields
    <3>2. StatusKeys[f] = <<"status", "text">> BY <3>1 DEF StatusKeys
    <3>3. StatusKeys[f] \in KeySet BY Tables DEF KeyTable
    <3> QED BY <3>1, <3>2, <3>3 DEF Has, PathOf, UserPath
  <2> QED BY <1>2, <2>1, TopTextPlace
<1>3. CASE path \in Under(<<>>, BotKeys)
  <2>1. ASSUME NEW f \in DOMAIN BotKeys PROVE BotKeys[f] \in KeySet /\ Has(User, f) /\ PathOf(User, f) = BotKeys[f]
    <3>1. f = "owner_id" /\ f \notin DOMAIN UserKeys /\ f \in UserFields \ {"relations"} BY KeyDomains DEF UserFields
    <3>2. BotKeys[f] = <<"bot", "owner">> BY <3>1 DEF BotKeys
    <3>3. BotKeys[f] \in KeySet BY Tables DEF KeyTable
    <3> QED BY <3>1, <3>2, <3>3 DEF Has, PathOf, UserPath
  <2> QED BY <1>3, <2>1, TopTextPlace
<1>4. CASE path \in FileTexts(<<"avatar">>) BY <1>0, <1>4, FileTextPlace
<1>5. CASE path \in UNION {Under(<<"relations", r>>, RelationKeys) : r \in Elements(doc)}
  <2>1. PICK r \in Elements(doc) : path \in Under(<<"relations", r>>, RelationKeys) BY <1>5
  <2>2. DOMAIN doc.arrays \subseteq doc.nodes BY DEF UserSchema
  <2> QED BY <2>1, <2>2, RelationTextPlace
<1> QED BY <1>1, <1>2, <1>3, <1>4, <1>5 DEF UserSchema

LEMMA ChannelTextPlace ==
  ASSUME Finished, kind = "channel", ChannelSchema(doc), NEW path \in TextsIn(doc)
  PROVE  HasText(path)
<1>0. Known /\ ChannelRead /\ at = "leave" /\ User # Channel BY FinishedKnown, KnownIs, Apart DEF Finished
<1>1. type = TypeIn(doc) BY <1>0 DEF ChannelRead
<1>2. CASE path \in Under(<<>>, ChannelKeys(type))
  <2>1. PICK keys : keys = ChannelKeys(type) OBVIOUS
  <2>2. ASSUME NEW f \in DOMAIN keys PROVE keys[f] \in KeySet /\ Has(Channel, f) /\ PathOf(Channel, f) = keys[f]
    BY <1>0, <2>1, Tables DEF KeyTable, Has, PathOf
  <2> QED BY <1>2, <2>1, <2>2, TopTextPlace
<1>3. CASE type \in {"GROUP", "TEXT", "VOICE"} /\ path \in FileTexts(<<"icon">>)
  <2>1. HasFile /\ FilePath = <<"icon">> BY <1>3 DEF HasFile, WithIcon, FilePath
  <2> QED BY <1>3, <2>1, FileTextPlace
<1> QED BY <1>1, <1>2, <1>3 DEF ChannelSchema

LEMMA SchemaHolds ==
  ASSUME Finished
  PROVE  (kind = "user" => UserSchema(doc)) /\ (kind = "channel" => ChannelSchema(doc))
<1>0. Known /\ doc.parses /\ doc \in Documents[kind] /\ at = "leave" /\ at \in OpenPlaces
      /\ (kind = "channel" => ChannelRead)
  BY FinishedKnown, KnownIs DEF Finished
<1>1. kind = "channel" => TypeIn(doc) # "UNKNOWN"
  <2>1. kind = "channel" => type # "UNKNOWN" BY <1>0 DEF Finished, FoundInv
  <2> QED BY <1>0, <2>1 DEF ChannelRead
<1> QED BY <1>0, <1>1, SchemaAssumption

(* Every string of the document is held by one field.                        *)
LEMMA TextsHeld ==
  ASSUME Finished, NEW path \in DOMAIN doc.strings, doc.strings[path] = "text"
  PROVE  Cardinality(HeldBy(path)) = 1 \/ (AllocationFailed /\ HeldBy(path) = {})
<1>0. Known /\ kind \in Kinds BY FinishedKnown, KnownIs
<1>1. path \in TextsIn(doc) BY DEF TextsIn
<1>2. HasText(path) \/ Missed(path)
  BY <1>0, <1>1, SchemaHolds, UserTextPlace, ChannelTextPlace DEF Kinds
<1>3. CASE HasText(path)
  <2>1. PICK p, f : Has(p, f) /\ path = PathOf(p, f) BY <1>3 DEF HasText
  <2> QED BY <2>1, HeldByOne
<1>4. CASE Missed(path) /\ ~HasText(path)
  <2>1. AllocationFailed /\ Plain(path) /\ path # <<"relations">> BY <1>4 DEF Missed
  <2>2. ASSUME NEW h \in HeldBy(path) PROVE FALSE
    <3>1. h \in UNION {{q} \X Parts[q] : q \in PartsOf(kind)} BY <2>2 DEF HeldBy
    <3>2. PICK q \in PartsOf(kind) : h \in {q} \X Parts[q] BY <3>1
    <3>3. PICK g \in Parts[q] : h = <<q, g>> BY <3>2
    <3>4. field[q][g] \in CopyNames(kind, path) BY <2>2, <3>3 DEF HeldBy, CopyNames
    <3>5. Has(q, g) /\ path = PathOf(q, g) BY <1>0, <2>1, <3>4, HeldFrom
    <3> QED BY <1>4, <3>5 DEF HasText
  <2> QED BY <2>1, <2>2
<1>5. HasText(path) \/ (Missed(path) /\ ~HasText(path)) BY <1>2
<1> QED BY <1>3, <1>4, <1>5

-----------------------------------------------------------------------------
(* Then the enumerators: the first letters tell the names that may occur.    *)
LEMMA Letters ==
  /\ Letter("Online") = "o" /\ Letter("Idle") = "i" /\ Letter("Focus") = "f" /\ Letter("Busy") = "b"
  /\ Letter("Invisible") = "i" /\ Letter("None") = "n" /\ Letter("User") = "u" /\ Letter("Friend") = "f"
  /\ Letter("Outgoing") = "o" /\ Letter("Incoming") = "i" /\ Letter("Blocked") = "b"
  /\ Letter("BlockedOther") = "b" /\ Letter("File") = "f" /\ Letter("Text") = "t"
  /\ Letter("Image") = "i" /\ Letter("Video") = "v" /\ Letter("Audio") = "a"
  /\ Letter("SavedMessages") = "s" /\ Letter("DirectMessage") = "d" /\ Letter("Group") = "g"
  /\ Letter("TextChannel") = "t" /\ Letter("VoiceChannel") = "v" /\ Letter("none") = ""
BY DEF Letter, Spelling

LEMMA MoreLetters ==
  /\ Spelling["Idle"][2] = "d" /\ Spelling["Invisible"][2] = "n"
  /\ Spelling["Blocked"][3] = 7 /\ Spelling["BlockedOther"][3] = 12
BY DEF Spelling

LEMMA PresencesMean ==
  ASSUME NEW n \in PresenceNames \cup {NoName}
  PROVE  user_presence_from_str(n) = Meaning[n]
<1>1. PICK t : t = [o |-> "ONLINE", f |-> "FOCUS", b |-> "BUSY"] OBVIOUS
<1>2. DOMAIN t = {"o", "f", "b"}
      /\ t["o"] = "ONLINE" /\ t["f"] = "FOCUS" /\ t["b"] = "BUSY"
  BY <1>1
<1>3. /\ Meaning["Online"] = "ONLINE" /\ Meaning["Focus"] = "FOCUS" /\ Meaning["Busy"] = "BUSY"
      /\ Meaning["Idle"] = "IDLE" /\ Meaning["Invisible"] = "INVISIBLE" /\ Meaning["none"] = "UNKNOWN"
  BY DEF Meaning
<1>4. ByLetter(t, n) = IF Letter(n) \in DOMAIN t THEN t[Letter(n)] ELSE "UNKNOWN" BY DEF ByLetter
<1>5. CASE n = "Online"
  <2>1. Letter(n) = "o" /\ Meaning[n] = "ONLINE" BY <1>3, <1>5, Letters
  <2> QED BY <1>1, <1>2, <1>4, <2>1 DEF user_presence_from_str
<1>6. CASE n = "Focus"
  <2>1. Letter(n) = "f" /\ Meaning[n] = "FOCUS" BY <1>3, <1>6, Letters
  <2> QED BY <1>1, <1>2, <1>4, <2>1 DEF user_presence_from_str
<1>7. CASE n = "Busy"
  <2>1. Letter(n) = "b" /\ Meaning[n] = "BUSY" BY <1>3, <1>7, Letters
  <2> QED BY <1>1, <1>2, <1>4, <2>1 DEF user_presence_from_str
<1>8. CASE n = "none"
  <2>1. Letter(n) = "" /\ Meaning[n] = "UNKNOWN" BY <1>3, <1>8, Letters
  <2> QED BY <1>1, <1>2, <1>4, <2>1 DEF user_presence_from_str
<1>9. CASE n = "Idle"
  <2>1. Letter(n) = "i" /\ Meaning[n] = "IDLE" BY <1>3, <1>9, Letters
  <2> QED BY <1>9, <2>1, MoreLetters DEF user_presence_from_str
<1>10. CASE n = "Invisible"
  <2>1. Letter(n) = "i" /\ Meaning[n] = "INVISIBLE" BY <1>3, <1>10, Letters
  <2> QED BY <1>10, <2>1, MoreLetters DEF user_presence_from_str
<1> QED BY <1>5, <1>6, <1>7, <1>8, <1>9, <1>10 DEF PresenceNames, NoName

LEMMA RelationshipsMean ==
  ASSUME NEW n \in RelationshipNames \cup {NoName}
  PROVE  user_relationship_status_from_str(n) = Meaning[n]
<1>1. PICK t : t = [n |-> "NONE", u |-> "USER", f |-> "FRIEND", i |-> "INCOMING", o |-> "OUTGOING"] OBVIOUS
<1>2. DOMAIN t = {"n", "u", "f", "i", "o"}
      /\ t["n"] = "NONE" /\ t["u"] = "USER" /\ t["f"] = "FRIEND" /\ t["i"] = "INCOMING"
      /\ t["o"] = "OUTGOING"
  BY <1>1
<1>3. /\ Meaning["None"] = "NONE" /\ Meaning["User"] = "USER" /\ Meaning["Friend"] = "FRIEND"
      /\ Meaning["Incoming"] = "INCOMING" /\ Meaning["Outgoing"] = "OUTGOING" /\ Meaning["Blocked"] = "BLOCKED"
      /\ Meaning["BlockedOther"] = "BLOCKED_OTHER" /\ Meaning["none"] = "UNKNOWN"
  BY DEF Meaning
<1>4. ByLetter(t, n) = IF Letter(n) \in DOMAIN t THEN t[Letter(n)] ELSE "UNKNOWN" BY DEF ByLetter
<1>5. CASE n = "None"
  <2>1. Letter(n) = "n" /\ Meaning[n] = "NONE" BY <1>3, <1>5, Letters
  <2> QED BY <1>1, <1>2, <1>4, <2>1 DEF user_relationship_status_from_str
<1>6. CASE n = "User"
  <2>1. Letter(n) = "u" /\ Meaning[n] = "USER" BY <1>3, <1>6, Letters
  <2> QED BY <1>1, <1>2, <1>4, <2>1 DEF user_relationship_status_from_str
<1>7. CASE n = "Friend"
  <2>1. Letter(n) = "f" /\ Meaning[n] = "FRIEND" BY <1>3, <1>7, Letters
  <2> QED BY <1>1, <1>2, <1>4, <2>1 DEF user_relationship_status_from_str
<1>8. CASE n = "Incoming"
  <2>1. Letter(n) = "i" /\ Meaning[n] = "INCOMING" BY <1>3, <1>8, Letters
  <2> QED BY <1>1, <1>2, <1>4, <2>1 DEF user_relationship_status_from_str
<1>9. CASE n = "Outgoing"
  <2>1. Letter(n) = "o" /\ Meaning[n] = "OUTGOING" BY <1>3, <1>9, Letters
  <2> QED BY <1>1, <1>2, <1>4, <2>1 DEF user_relationship_status_from_str
<1>10. CASE n = "none"
  <2>1. Letter(n) = "" /\ Meaning[n] = "UNKNOWN" BY <1>3, <1>10, Letters
  <2> QED BY <1>1, <1>2, <1>4, <2>1 DEF user_relationship_status_from_str
<1>11. CASE n = "Blocked"
  <2>1. Letter(n) = "b" /\ Meaning[n] = "BLOCKED" BY <1>3, <1>11, Letters
  <2> QED BY <1>11, <2>1, MoreLetters DEF user_relationship_status_from_str
<1>12. CASE n = "BlockedOther"
  <2>1. Letter(n) = "b" /\ Meaning[n] = "BLOCKED_OTHER" BY <1>3, <1>12, Letters
  <2> QED BY <1>12, <2>1, MoreLetters DEF user_relationship_status_from_str
<1> QED BY <1>5, <1>6, <1>7, <1>8, <1>9, <1>10, <1>11, <1>12 DEF RelationshipNames, NoName

LEMMA MetadataMeans ==
  ASSUME NEW n \in MetadataNames \cup {NoName}
  PROVE  metadata_type(n) = Meaning[n]
<1>1. PICK t : t = [f |-> "FILE", t |-> "TEXT", i |-> "IMAGE", v |-> "VIDEO", a |-> "AUDIO"] OBVIOUS
<1>2. DOMAIN t = {"f", "t", "i", "v", "a"}
      /\ t["f"] = "FILE" /\ t["t"] = "TEXT" /\ t["i"] = "IMAGE" /\ t["v"] = "VIDEO"
      /\ t["a"] = "AUDIO"
  BY <1>1
<1>3. /\ Meaning["File"] = "FILE" /\ Meaning["Text"] = "TEXT" /\ Meaning["Image"] = "IMAGE"
      /\ Meaning["Video"] = "VIDEO" /\ Meaning["Audio"] = "AUDIO" /\ Meaning["none"] = "UNKNOWN"
  BY DEF Meaning
<1>4. ByLetter(t, n) = IF Letter(n) \in DOMAIN t THEN t[Letter(n)] ELSE "UNKNOWN" BY DEF ByLetter
<1>5. CASE n = "File"
  <2>1. Letter(n) = "f" /\ Meaning[n] = "FILE" BY <1>3, <1>5, Letters
  <2> QED BY <1>1, <1>2, <1>4, <2>1 DEF metadata_type
<1>6. CASE n = "Text"
  <2>1. Letter(n) = "t" /\ Meaning[n] = "TEXT" BY <1>3, <1>6, Letters
  <2> QED BY <1>1, <1>2, <1>4, <2>1 DEF metadata_type
<1>7. CASE n = "Image"
  <2>1. Letter(n) = "i" /\ Meaning[n] = "IMAGE" BY <1>3, <1>7, Letters
  <2> QED BY <1>1, <1>2, <1>4, <2>1 DEF metadata_type
<1>8. CASE n = "Video"
  <2>1. Letter(n) = "v" /\ Meaning[n] = "VIDEO" BY <1>3, <1>8, Letters
  <2> QED BY <1>1, <1>2, <1>4, <2>1 DEF metadata_type
<1>9. CASE n = "Audio"
  <2>1. Letter(n) = "a" /\ Meaning[n] = "AUDIO" BY <1>3, <1>9, Letters
  <2> QED BY <1>1, <1>2, <1>4, <2>1 DEF metadata_type
<1>10. CASE n = "none"
  <2>1. Letter(n) = "" /\ Meaning[n] = "UNKNOWN" BY <1>3, <1>10, Letters
  <2> QED BY <1>1, <1>2, <1>4, <2>1 DEF metadata_type
<1> QED BY <1>5, <1>6, <1>7, <1>8, <1>9, <1>10 DEF MetadataNames, NoName

LEMMA ChannelTypesMean ==
  ASSUME NEW n \in ChannelNames \cup {NoName}
  PROVE  channel_type_from_str(n) = Meaning[n]
<1>1. PICK t : t = [s |-> "SM", d |-> "DM", g |-> "GROUP", t |-> "TEXT", v |-> "VOICE"] OBVIOUS
<1>2. DOMAIN t = {"s", "d", "g", "t", "v"}
      /\ t["s"] = "SM" /\ t["d"] = "DM" /\ t["g"] = "GROUP" /\ t["t"] = "TEXT"
      /\ t["v"] = "VOICE"
  BY <1>1
<1>3. /\ Meaning["SavedMessages"] = "SM" /\ Meaning["DirectMessage"] = "DM" /\ Meaning["Group"] = "GROUP"
      /\ Meaning["TextChannel"] = "TEXT" /\ Meaning["VoiceChannel"] = "VOICE" /\ Meaning["none"] = "UNKNOWN"
  BY DEF Meaning
<1>4. ByLetter(t, n) = IF Letter(n) \in DOMAIN t THEN t[Letter(n)] ELSE "UNKNOWN" BY DEF ByLetter
<1>5. CASE n = "SavedMessages"
  <2>1. Letter(n) = "s" /\ Meaning[n] = "SM" BY <1>3, <1>5, Letters
  <2> QED BY <1>1, <1>2, <1>4, <2>1 DEF channel_type_from_str
<1>6. CASE n = "DirectMessage"
  <2>1. Letter(n) = "d" /\ Meaning[n] = "DM" BY <1>3, <1>6, Letters
  <2> QED BY <1>1, <1>2, <1>4, <2>1 DEF channel_type_from_str
<1>7. CASE n = "Group"
  <2>1. Letter(n) = "g" /\ Meaning[n] = "GROUP" BY <1>3, <1>7, Letters
  <2> QED BY <1>1, <1>2, <1>4, <2>1 DEF channel_type_from_str
<1>8. CASE n = "TextChannel"
  <2>1. Letter(n) = "t" /\ Meaning[n] = "TEXT" BY <1>3, <1>8, Letters
  <2> QED BY <1>1, <1>2, <1>4, <2>1 DEF channel_type_from_str
<1>9. CASE n = "VoiceChannel"
  <2>1. Letter(n) = "v" /\ Meaning[n] = "VOICE" BY <1>3, <1>9, Letters
  <2> QED BY <1>1, <1>2, <1>4, <2>1 DEF channel_type_from_str
<1>10. CASE n = "none"
  <2>1. Letter(n) = "" /\ Meaning[n] = "UNKNOWN" BY <1>3, <1>10, Letters
  <2> QED BY <1>1, <1>2, <1>4, <2>1 DEF channel_type_from_str
<1> QED BY <1>5, <1>6, <1>7, <1>8, <1>9, <1>10 DEF ChannelNames, NoName

LEMMA Enumerated ==
  ASSUME NEW v, NEW meaning, NEW path, ~AllocationFailed, Means(v, meaning), meaning = NamedBy(path)
  PROVE  value[v] = NamedBy(path)
BY DEF Means

LEMMA UserEnumsRead ==
  ASSUME Finished, kind = "user", ~AllocationFailed
  PROVE  EveryEnumRead
<1>0. /\ Known /\ UserRead /\ RelationsRead /\ FileRead /\ at = "leave" /\ DocInv /\ at \in OpenPlaces
      /\ count \in Nat /\ UserSchema(doc)
  BY FinishedKnown, KnownIs, SchemaHolds DEF Finished
<1>1. value[<<"user", "presence">>] = NamedBy(<<"status", "presence">>)
  <2>1. Means(<<"user", "presence">>, user_presence_from_str(NameIn(doc, <<"status", "presence">>)))
    BY <1>0 DEF UserRead, AfterPresence, AfterRelations, AfterRelationship, AfterBot
  <2>2. NameIn(doc, <<"status", "presence">>) \in PresenceNames \cup {NoName} BY <1>0 DEF UserSchema, Says
  <2>3. user_presence_from_str(NameIn(doc, <<"status", "presence">>)) = NamedBy(<<"status", "presence">>)
    BY <2>2, PresencesMean DEF NamedBy
  <2> QED BY <2>1, <2>3, Enumerated
<1>2. value[<<"user", "relationship">>] = NamedBy(<<"relationship">>)
  <2>1. Means(<<"user", "relationship">>, user_relationship_status_from_str(NameIn(doc, <<"relationship">>)))
    BY <1>0 DEF UserRead, AfterRelationship, AfterBot
  <2>2. NameIn(doc, <<"relationship">>) \in RelationshipNames \cup {NoName} BY <1>0 DEF UserSchema, Says
  <2>3. user_relationship_status_from_str(NameIn(doc, <<"relationship">>)) = NamedBy(<<"relationship">>)
    BY <2>2, RelationshipsMean DEF NamedBy
  <2> QED BY <2>1, <2>3, Enumerated
<1>3. value[<<"user", "avatar">>] = NamedBy(<<"avatar", "metadata", "type">>)
  <2>1. HasFile /\ File = <<"user", "avatar">> /\ FileNamePath = <<"avatar", "metadata", "type">>
    BY DEF HasFile, File, FileNamePath
  <2>2. Means(File, metadata_type(NameIn(doc, FileNamePath)))
    BY <1>0, <2>1
    DEF FileRead, AfterType, AfterFileEnd, AfterStatus, AfterPresence, AfterRelations, AfterRelationship, AfterBot
  <2>3. NameIn(doc, FileNamePath) \in MetadataNames \cup {NoName} BY <1>0, <2>1 DEF UserSchema, Says
  <2>4. metadata_type(NameIn(doc, FileNamePath)) = NamedBy(FileNamePath) BY <2>3, MetadataMeans DEF NamedBy
  <2>5. value[File] = NamedBy(FileNamePath) BY <2>2, <2>4, Enumerated
  <2> QED BY <2>1, <2>5
<1>4. ASSUME NEW i \in 1 .. count PROVE value[Relation(i)] = NamedBy(RelationPath(i) \o <<"status">>)
  <2>1. count # 0 BY <1>0
  <2>2. IsArray(<<"relations">>) /\ count <= max BY <1>0, <2>1 DEF Finished, FoundInv
  <2>3. max \in Nat BY <1>0, <2>2, MaxTyped
  <2>4. i \in Nat /\ i > 0 /\ i <= max BY <1>0, <2>2, <2>3
  <2>5. PICK path : path = RelationPath(i) \o <<"status">> OBVIOUS
  <2>6. path = <<"relations", ElementName(i), "status">> BY <1>0, <2>2, <2>4, <2>5, RelationPaths
  <2>7. ElementName(i) \in Elements(doc)
    <3>1. ArrayOf(<<"relations">>) \in Seq(Words) BY <1>0, <2>2, Arrays DEF IsArray
    <3>2. i \in DOMAIN ArrayOf(<<"relations">>) BY <2>3, <2>4, <3>1, LenProperties DEF max, ArrayOf
    <3> QED BY <2>2, <3>2 DEF Elements, ElementName, ArrayOf, IsArray
  <2>8. NameIn(doc, path) \in RelationshipNames \cup {NoName} BY <1>0, <2>6, <2>7 DEF UserSchema, Says
  <2>9. StatusRead(i) BY <1>0 DEF RelationsRead
  <2>10. Means(Relation(i), user_relationship_status_from_str(NameIn(doc, path))) BY <2>5, <2>9 DEF StatusRead
  <2>11. user_relationship_status_from_str(NameIn(doc, path)) = NamedBy(path)
    BY <2>8, RelationshipsMean DEF NamedBy
  <2> QED BY <2>5, <2>10, <2>11, Enumerated
<1> QED BY <1>1, <1>2, <1>3, <1>4 DEF EveryEnumRead

LEMMA ChannelEnumsRead ==
  ASSUME Finished, kind = "channel", ~AllocationFailed
  PROVE  EveryEnumRead
<1>0. Known /\ ChannelRead /\ FileRead /\ at = "leave" /\ ChannelSchema(doc)
  BY FinishedKnown, KnownIs, SchemaHolds DEF Finished
<1>1. type = NamedBy(<<"channel_type">>)
  <2>1. type = channel_type_from_str(NameIn(doc, <<"channel_type">>)) BY <1>0 DEF ChannelRead, TypeIn
  <2>2. NameIn(doc, <<"channel_type">>) \in ChannelNames \cup {NoName} BY <1>0 DEF ChannelSchema, Says
  <2> QED BY <2>1, <2>2, ChannelTypesMean DEF NamedBy
<1>2. ASSUME type \in {"GROUP", "TEXT", "VOICE"}
      PROVE  value[<<"channel", "icon">>] = NamedBy(<<"icon", "metadata", "type">>)
  <2>1. HasFile /\ File = <<"channel", "icon">> /\ FileNamePath = <<"icon", "metadata", "type">>
    BY <1>2 DEF HasFile, WithIcon, File, FileNamePath
  <2>2. Means(File, metadata_type(NameIn(doc, FileNamePath)))
    BY <1>0, <2>1
    DEF FileRead, AfterType, AfterFileEnd, AfterStatus, AfterPresence, AfterRelations, AfterRelationship, AfterBot
  <2>3. NameIn(doc, FileNamePath) \in MetadataNames \cup {NoName} BY <1>0, <2>1 DEF ChannelSchema, Says
  <2>4. metadata_type(NameIn(doc, FileNamePath)) = NamedBy(FileNamePath) BY <2>3, MetadataMeans DEF NamedBy
  <2>5. value[File] = NamedBy(FileNamePath) BY <2>2, <2>4, Enumerated
  <2> QED BY <2>1, <2>5
<1> QED BY <1>1, <1>2 DEF EveryEnumRead

(* The numbers: a channel has them where its type does.                      *)
LEMMA NumbersRead ==
  ASSUME Finished, NEW path \in DOMAIN doc.numbers, doc.numbers[path] \in I64
  PROVE  bits[path[Len(path)]] = doc.numbers[path]
<1>0. /\ Known /\ at = "leave" /\ kind \in Kinds /\ (kind = "channel" => ChannelRead)
      /\ (kind = "user" => UserSchema(doc)) /\ (kind = "channel" => ChannelSchema(doc))
  BY FinishedKnown, KnownIs, SchemaHolds DEF Finished
<1>1. kind = "channel" /\ ChannelRead /\ ChannelSchema(doc)
  <2>1. kind # "user" BY <1>0 DEF UserSchema
  <2> QED BY <1>0, <2>1 DEF Kinds
<1>2. path \in PermissionsOf(type) BY <1>0, <1>1 DEF ChannelSchema, ChannelRead
<1>3. CASE type = "GROUP"
  <2>1. path = <<"permissions">> BY <1>2, <1>3 DEF PermissionsOf
  <2>2. NumberRead("permissions", path) BY <1>0, <1>1, <1>3, <2>1 DEF ChannelRead, AfterNumbers
  <2>3. path[Len(path)] = "permissions" BY <2>1
  <2> QED BY <2>2, <2>3 DEF NumberRead
<1>4. CASE type \in {"TEXT", "VOICE"}
  <2>1. path \in {<<"default_permissions", "a">>, <<"default_permissions", "d">>} BY <1>2, <1>4 DEF PermissionsOf
  <2>2. /\ NumberRead("a", <<"default_permissions", "a">>)
        /\ NumberRead("d", <<"default_permissions", "d">>)
    BY <1>0, <1>1, <1>4 DEF ChannelRead, AfterNumbers
  <2>3. CASE path = <<"default_permissions", "a">>
    <3>1. path[Len(path)] = "a" BY <2>3
    <3>2. NumberRead("a", path) BY <2>2, <2>3
    <3> QED BY <3>1, <3>2 DEF NumberRead
  <2>4. CASE path = <<"default_permissions", "d">>
    <3>1. path[Len(path)] = "d" BY <2>4
    <3>2. NumberRead("d", path) BY <2>2, <2>4
    <3> QED BY <3>1, <3>2 DEF NumberRead
  <2> QED BY <2>1, <2>3, <2>4
<1>5. type \notin {"GROUP", "TEXT", "VOICE"} => PermissionsOf(type) = {} BY DEF PermissionsOf
<1> QED BY <1>2, <1>3, <1>4, <1>5

(* Every relation is there.                                                  *)
LEMMA RelationsComplete ==
  ASSUME Finished, kind = "user", IsArray(<<"relations">>), ~AllocationFailed
  PROVE  /\ count = max
         /\ \A i \in 1 .. count :
              field[Relation(i)].user_id \in {NULL, <<"user">> \o RelationPath(i) \o <<"_id">>}
<1>0. /\ Known /\ RelationsRead /\ at = "leave" /\ DocInv /\ at \in OpenPlaces /\ Filled = count
      /\ UserSchema(doc) /\ count \in Nat
  BY FinishedKnown, KnownIs, SchemaHolds DEF Finished
<1>1. <<"relations">> \in doc.nodes BY <1>0 DEF UserSchema, IsArray
<1>2. count = max BY <1>0, <1>1 DEF RelationsRead, AfterRelations, AfterRelationship, AfterBot
<1>3. max \in Nat BY <1>0, MaxTyped
<1>4. ASSUME NEW i \in 1 .. count
      PROVE  field[Relation(i)].user_id \in {NULL, <<"user">> \o RelationPath(i) \o <<"_id">>}
  <2>1. i \in Nat /\ i > 0 /\ i <= max BY <1>2, <1>3
  <2>2. ElementName(i) \in Words /\ RelationPath(i) = <<"relations", ElementName(i)>>
    <3>1. "_id" \in {"_id", "status"} OBVIOUS
    <3> QED BY <1>0, <2>1, <3>1, RelationPaths
  <2>3. PICK a, b, c : a = <<"user">> /\ b = RelationPath(i) /\ c = <<"_id">> OBVIOUS
  <2>4. a \in Seq(Words) /\ b \in Seq(Words) /\ c \in Seq(Words)
    <3>1. "user" \in Words /\ "_id" \in Words /\ "relations" \in Words BY DEF Words, Literals
    <3>2. PICK e \in Words : e = ElementName(i) BY <2>2
    <3>3. <<"relations", e>> \in Seq(Words) BY <3>1, TwoOf
    <3> QED BY <2>2, <2>3, <3>1, <3>2, <3>3, OneOf
  <2>5. (a \o b) \o c = a \o (b \o c) BY <2>4, ConcatAssociative
  <2>6. field[Relation(i)].user_id \in {NULL, IdName(i)} BY <1>0 DEF Finished, FoundInv
  <2> QED BY <2>3, <2>5, <2>6 DEF IdName
<1> QED BY <1>2, <1>4

LEMMA FinishedReads ==
  ASSUME Finished
  PROVE  ReadsDocument
<1>1. kind \in Kinds BY FinishedKnown, KnownIs
<1>2. AllocationFailed \/ EveryEnumRead BY <1>1, UserEnumsRead, ChannelEnumsRead DEF Kinds
<1> QED BY <1>2, TextsHeld, RelationsComplete, NumbersRead DEF ReadsDocument

(* A fetch that returns OK has read the whole document, for every answer the *)
(* schema allows, whichever allocations fail (data_models/user.c, channel.c, *)
(* file.c and the JSON wrappers they read through).                          *)
THEOREM ReadsDocumentThm == FetchSpec => []ReadsDocument
<1>1. FetchInv /\ ReadInv /\ FoundInv => ReadsDocument
  <2>1. SUFFICES ASSUME FetchInv, ReadInv, FoundInv, at = "leave", err[kind] = "OK"
                 PROVE  ReadsDocument
    BY DEF ReadsDocument
  <2>2. Core BY <2>1 DEF FetchInv
  <2>3. Finished BY <2>1, <2>2 DEF Finished
  <2> QED BY <2>3, FinishedReads
<1> QED BY <1>1, FetchInvariant, ReadInvariant, FoundInvariant, PTL
=============================================================================
