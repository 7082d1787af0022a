-------------------------------- MODULE Fetch --------------------------------
(***************************************************************************)
(* The application fetches a user and a channel and deletes both           *)
(* (playground/main.c 49-75): revolt_init, fetch.c, the request in rest.c  *)
(* and http.c, the deserialisation in data_models/ and the deletion.  What *)
(* matters is who owns which memory when something fails on the way.       *)
(*                                                                         *)
(* Functions that call no other of these are one step each; a block that   *)
(* one allocates and frees itself shows only in that it may be missing.    *)
(***************************************************************************)
EXTENDS JsonTree

CONSTANTS
  Documents,      \* for each kind of object, what the server may answer
  MaxChunks,      \* bound: pieces in which curl delivers header and body
  MostRelations   \* bound: relations of a user

VARIABLES
  at,      \* where the application is
  kind,    \* what it fetches
  resp,    \* pieces received of "header" and "body"
  body,    \* the response body
  root,    \* json, of the deserialisation
  file,    \* json, of the deserialisation of a file
  buf,     \* buf, of the deserialisation
  object,  \* the objects returned
  field,   \* their pointers
  value,   \* their enumerators
  bits,    \* their permissions
  count,   \* relations_count
  err,     \* what each fetch returned through its argument
  clean    \* clean_substructs, of revolt_channel_delete

request_vars == <<resp, body>>
wrapper_vars == <<root, file, buf>>
object_vars == <<field, value, bits, count>>
fvars == <<mvars, jvars, at, kind, request_vars, wrapper_vars, object, object_vars,
           err, clean>>

Kinds == {"user", "channel"}

ASSUME FetchBounds == MaxChunks \in Nat /\ MostRelations \in Nat
ASSUME DocumentsAssumption ==    \* elements of an array have names of their own
  \A k \in Kinds : \A b \in Documents[k] : b.parses =>
    /\ \A array \in DOMAIN b.arrays :
         /\ b.arrays[array] \in Seq(STRING)
         /\ \A i, j \in DOMAIN b.arrays[array] :
              b.arrays[array][i] = b.arrays[array][j] => i = j
    /\ <<"relations">> \in DOMAIN b.arrays =>
         Len(b.arrays[<<"relations">>]) <= MostRelations

(* The fields that own a string, with the key each is read from.             *)
UserKeys == [id |-> <<"_id">>, username |-> <<"username">>,
             discriminator |-> <<"discriminator">>, display_name |-> <<"display_name">>]
StatusKeys == [text |-> <<"status", "text">>]
BotKeys == [owner_id |-> <<"bot", "owner">>]
FileKeys == [id |-> <<"_id">>, tag |-> <<"tag">>, filename |-> <<"filename">>,
             content_type |-> <<"content_type">>]
FileEndKeys == [message_id |-> <<"message_id">>, user_id |-> <<"user_id">>,
                server_id |-> <<"server_id">>, object_id |-> <<"object_id">>]
RelationKeys == [user_id |-> <<"_id">>]
SmKeys == [id |-> <<"_id">>, owner_id |-> <<"user">>]
DmKeys == [id |-> <<"_id">>, last_message_id |-> <<"last_message_id">>]
GroupKeys == [id |-> <<"_id">>, owner_id |-> <<"owner">>,
              last_message_id |-> <<"last_message_id">>,
              name |-> <<"name">>, description |-> <<"description">>]
TextKeys == [id |-> <<"_id">>, server_id |-> <<"server">>,
             last_message_id |-> <<"last_message_id">>,
             name |-> <<"name">>, description |-> <<"description">>]
VoiceKeys == [id |-> <<"_id">>, server_id |-> <<"server">>,
              name |-> <<"name">>, description |-> <<"description">>]
VoiceEndKeys == [id |-> <<"_id">>]

ChannelKeys(type) ==
  CASE type = "SM" -> SmKeys [] type = "DM" -> DmKeys [] type = "GROUP" -> GroupKeys
    [] type = "TEXT" -> TextKeys [] type = "VOICE" -> VoiceKeys [] OTHER -> <<>>

(* RevoltUser with its substructures, and RevoltChannel as one of its types. *)
Relation(i) == <<"user", "relations", i>>
Relations == {Relation(i) : i \in 1 .. MostRelations}
Files == {<<"user", "avatar">>, <<"channel", "icon">>}
ObjectFields ==
  DOMAIN UserKeys \cup DOMAIN StatusKeys \cup DOMAIN BotKeys \cup DOMAIN GroupKeys
    \cup DOMAIN TextKeys \cup {"relations"}
Parts ==
  [p \in {<<"user">>, <<"channel">>} \cup Files \cup Relations |->
    IF p \in Relations THEN DOMAIN RelationKeys
    ELSE IF p \in Files THEN DOMAIN FileKeys \cup DOMAIN FileEndKeys
    ELSE ObjectFields]
File == IF kind = "user" THEN <<"user", "avatar">> ELSE <<"channel", "icon">>
PartsOf(k) == {p \in DOMAIN Parts : p[1] = k}

(* All fields of an object at once: left as they are by malloc, or zeroed. *)
Wiped(k, with) ==
  [p \in DOMAIN Parts |->
    IF p[1] = k /\ p \notin Relations THEN [f \in Parts[p] |-> with] ELSE field[p]]

-----------------------------------------------------------------------------
(* Names in documents and the enumerators they stand for.  The code decides  *)
(* by the first letter, the second or the length.                            *)
Spelling ==
  [Online |-> <<"o", "n", 6>>, Idle |-> <<"i", "d", 4>>, Focus |-> <<"f", "o", 5>>,
   Busy |-> <<"b", "u", 4>>, Invisible |-> <<"i", "n", 9>>,
   None |-> <<"n", "o", 4>>, User |-> <<"u", "s", 4>>, Friend |-> <<"f", "r", 6>>,
   Outgoing |-> <<"o", "u", 8>>, Incoming |-> <<"i", "n", 8>>,
   Blocked |-> <<"b", "l", 7>>, BlockedOther |-> <<"b", "l", 12>>,
   File |-> <<"f", "i", 4>>, Text |-> <<"t", "e", 4>>, Image |-> <<"i", "m", 5>>,
   Video |-> <<"v", "i", 5>>, Audio |-> <<"a", "u", 5>>,
   SavedMessages |-> <<"s", "a", 13>>, DirectMessage |-> <<"d", "i", 13>>,
   Group |-> <<"g", "r", 5>>, TextChannel |-> <<"t", "e", 11>>,
   VoiceChannel |-> <<"v", "o", 12>>, Other |-> <<"x", "x", 5>>,
   none |-> <<"", "", 0>>]
Letter(name) == Spelling[name][1]

ByLetter(table, name) ==
  IF Letter(name) \in DOMAIN table THEN table[Letter(name)] ELSE "UNKNOWN"

user_presence_from_str(name) ==
  IF Letter(name) = "i" THEN IF Spelling[name][2] = "n" THEN "INVISIBLE" ELSE "IDLE"
  ELSE ByLetter([o |-> "ONLINE", f |-> "FOCUS", b |-> "BUSY"], name)

(* Faulty: the longer name is not told from the shorter one. *)
EitherBlocked(name) ==
  ByLetter([n |-> "NONE", u |-> "USER", f |-> "FRIEND", i |-> "INCOMING",
            o |-> "OUTGOING", b |-> "BLOCKED"], name)

user_relationship_status_from_str(name) ==
  IF Letter(name) = "b"
  THEN IF Spelling[name][3] > Spelling["Blocked"][3] THEN "BLOCKED_OTHER" ELSE "BLOCKED"
  ELSE ByLetter([n |-> "NONE", u |-> "USER", f |-> "FRIEND", i |-> "INCOMING",
                 o |-> "OUTGOING"], name)

metadata_type(name) ==
  ByLetter([f |-> "FILE", t |-> "TEXT", i |-> "IMAGE", v |-> "VIDEO", a |-> "AUDIO"], name)

channel_type_from_str(name) ==
  ByLetter([s |-> "SM", d |-> "DM", g |-> "GROUP", t |-> "TEXT", v |-> "VOICE"], name)

-----------------------------------------------------------------------------
Values == {<<"user", "presence">>, <<"user", "relationship">>, <<"channel", "type">>,
           <<"user", "avatar">>, <<"channel", "icon">>} \cup Relations
NoBody == [parses |-> FALSE, empty |-> TRUE]
NothingReceived == [p \in {"header", "body"} |-> 0]

Init ==
  /\ HeapInit /\ JsonInit
  /\ at = "init" /\ kind = "user"
  /\ resp = NothingReceived /\ body = NoBody
  /\ root = NoWrapper /\ file = NoWrapper /\ buf = NoWrapper
  /\ object = [k \in Kinds |-> NULL]
  /\ field = [p \in DOMAIN Parts |-> [f \in Parts[p] |-> NULL]]
  /\ value = [v \in Values |-> "UNKNOWN"]
  /\ bits = [b \in {"permissions", "a", "d"} |-> 0]
  /\ count = 0
  /\ err = [k \in Kinds |-> "NONE"]
  /\ clean = FALSE

(* revolt_init allocates these one after the other; whichever is missing, it *)
(* frees what it has, but revolt_ws_new deletes a RevoltcWS it does not have.*)
ClientBlocks ==
  {<<"client">>, <<"rest">>, <<"rest", "url">>, <<"rest", "token">>,
   <<"ws">>, <<"ws", "ws">>, <<"ws", "url">>, <<"ws", "token">>, <<"ws", "tx">>}

revolt_init ==
  /\ at = "init"
  /\ \/ Memory(ClientBlocks, {}, 0, {}) /\ at' = "fetch"
     \/ Memory({}, {}, 0, {}) /\ at' = "end"           \* there is no token
     \/ \E missing \in ClientBlocks :
          IF missing \in {<<"ws", "ws">>, <<"ws", "url">>}
          THEN Memory({}, {}, 1, {"null"}) /\ at' = "crashed"
          ELSE Memory({}, {}, 1, {}) /\ at' = "end"
  /\ UNCHANGED <<jvars, kind, request_vars, wrapper_vars, object, object_vars, err, clean>>

-----------------------------------------------------------------------------
(* revolt_fetch_rest_user and _channel.  The playground fetches one of each. *)
Returned ==
  IF kind = "user" THEN kind' = "channel" /\ at' = "fetch"
  ELSE UNCHANGED kind /\ at' = "delete user"

Fetch ==
  /\ at = "fetch"
  /\ \/ /\ Memory({<<kind>>, <<kind, "path">>}, {}, 0, {})
        /\ object' = [object EXCEPT ![kind] = <<kind>>]
        /\ field' = Wiped(kind, WILD)
        /\ at' = "request"
        /\ UNCHANGED <<kind, err>>
     \/ /\ \/ Memory({}, {}, 1, {})
           \/ Memory({<<kind>>}, {}, 1, {})      \* the object is not freed
        /\ err' = [err EXCEPT ![kind] = "NOMEM"]
        /\ Returned
        /\ UNCHANGED <<object, field>>
  /\ UNCHANGED <<jvars, request_vars, wrapper_vars, value, bits, count, clean>>

FetchReturns ==
  /\ at = "cleanup"
  /\ Memory({}, {<<kind, "path">>} \cup {<<kind, p>> : p \in {q \in DOMAIN resp : resp[q] > 0}},
            0, {})
  /\ resp' = NothingReceived /\ body' = NoBody
  /\ Returned
  /\ UNCHANGED <<jvars, wrapper_vars, object, object_vars, err, clean>>

(* The call goes to its end with the result r. *)
Ends(r) == err' = [err EXCEPT ![kind] = r] /\ at' = "cleanup"

-----------------------------------------------------------------------------
(* revolt_rest_request up to curl_easy_perform, and what follows it.         *)
RequestBlocks == {<<"url">>, <<"hdrs">>, <<"hdrs", "0">>}

revoltc_http_request ==
  \/ Memory({}, {}, 0, {}) /\ Ends("CURL_INIT")
  \/ Memory(RequestBlocks, {}, 0, {}) /\ at' = "receive" /\ UNCHANGED err

revolt_rest_request ==
  /\ at = "request"
  /\ \/ Memory({}, {}, 1, {}) /\ Ends("NOMEM")
     \/ revoltc_http_request
  /\ UNCHANGED <<jvars, kind, request_vars, wrapper_vars, object, object_vars, clean>>

(* A piece of the header or the body.  When realloc fails, what it was given *)
(* is out of reach.                                                          *)
write_callback ==
  /\ at = "receive"
  /\ \E part \in {"header", "body"} :
       /\ part = "header" => resp.body = 0
       /\ resp[part] < MaxChunks
       /\ \/ Memory({<<kind, part>>}, {}, 0, {}) /\ UNCHANGED at
             /\ resp' = [resp EXCEPT ![part] = @ + 1]
          \/ Memory({}, {}, 1, {}) /\ at' = "aborted" /\ UNCHANGED resp
  /\ UNCHANGED <<jvars, kind, body, wrapper_vars, object, object_vars, err, clean>>

request_perform ==
  /\ \/ /\ at \in {"receive", "aborted"}
        /\ resp' = NothingReceived       \* header and body are not freed
        /\ Ends("CURL") /\ UNCHANGED body
     \/ /\ at = "receive" /\ at' = "deserialize"
        /\ body' \in IF resp.body = 0 THEN {NoBody} ELSE Documents[kind]
        /\ UNCHANGED <<resp, err>>
  /\ Memory({}, RequestBlocks, 0, {})
  /\ UNCHANGED <<jvars, kind, wrapper_vars, object, object_vars, clean>>

-----------------------------------------------------------------------------
(* revolt_user_deserialize_json and revolt_channel_deserialize_json.         *)
Deserialize ==
  /\ at = "deserialize"
  /\ \/ /\ body = NoBody /\ Ends("INVAL")
        /\ Memory({}, {}, 0, {}) /\ UNCHANGED <<jvars, root>>
     \/ /\ body # NoBody
        /\ \E r \in {"OK", "NOMEM", "PARSE"}, w \in {NoWrapper, 1} :
             /\ revoltc_json_parse(body, r, w)
             /\ root' = w
             /\ err' = [err EXCEPT ![kind] = r]
             /\ at' = IF r = "OK" THEN kind ELSE "cleanup"
  /\ UNCHANGED <<kind, request_vars, file, buf, object, object_vars, clean>>

(* json is deleted on the way out, with the result r. *)
Leaves(r) == err' = [err EXCEPT ![kind] = r] /\ at' = "leave"

Leave ==
  /\ at = "leave" /\ at' = "cleanup"
  /\ revoltc_json_delete(root)
  /\ root' = NoWrapper /\ file' = NoWrapper /\ buf' = NoWrapper
  /\ UNCHANGED <<kind, request_vars, object, object_vars, err, clean>>

(* get_str for several fields of obj, the others being as in fields. *)
GetStrings(fields, obj, w, keys) ==
  /\ \E lost \in MayFail(Copyable(w, keys)) :
       /\ field' = [fields EXCEPT ![obj] = Copied(@, obj, w, keys, lost)]
       /\ Memory(Copies(obj, w, keys, lost), {}, Cardinality(lost), Through(w))
  /\ UNCHANGED <<jvars, kind, request_vars, wrapper_vars, object, bits, clean>>

(* A name that is copied, looked at and freed; it decides v. *)
Names == DOMAIN Spelling
GetName(w, key, name, v, meaning) ==
  /\ \/ name = NameAt(w, key) /\ Memory({}, {}, 0, Through(w))
     \/ name = NoName /\ NameAt(w, key) # NoName /\ Memory({}, {}, 1, Through(w))
  /\ value' = [value EXCEPT ![v] = meaning]
  /\ UNCHANGED <<jvars, kind, request_vars, wrapper_vars, object, count, clean>>

(* A wrapper is looked up and nothing else is done. *)
Finds(label) ==
  /\ at' = label
  /\ UNCHANGED <<kind, request_vars, root, object, err, clean>>

Wrappers == {NoWrapper, Len(json) + 1}

-----------------------------------------------------------------------------
(* revolt_file_deserialize_json_obj, of the avatar or the icon.              *)
GetFile ==
  /\ \E c \in Wrappers :
       revoltc_json_get_obj(root, <<at>>, c) /\ file' = c /\ UNCHANGED buf
  /\ at \in {"avatar", "icon"} /\ Finds("file")
  /\ UNCHANGED object_vars

FileStrings ==
  /\ at = "file"
  /\ \/ /\ file = NoWrapper /\ Leaves("INVAL")
        /\ Memory({}, {}, 0, {})
        /\ UNCHANGED <<jvars, kind, request_vars, wrapper_vars, object, field, bits, clean>>
     \/ /\ file # NoWrapper
        /\ GetStrings([field EXCEPT ![File] = [f \in DOMAIN @ |-> NULL]], File, file, FileKeys)
        /\ at' = "metadata" /\ UNCHANGED err
  /\ UNCHANGED <<value, count>>

GetMetadata ==
  /\ at = "metadata"
  /\ \E c \in Wrappers :
       revoltc_json_get_obj(file, <<"metadata">>, c) /\ buf' = c /\ UNCHANGED file
  /\ Finds("metadata type")
  /\ UNCHANGED object_vars

revolt_file_metadata_deserialize_json_obj ==
  /\ at = "metadata type"
  /\ \/ /\ buf = NoWrapper /\ Leaves("INVAL")
        /\ Memory({}, {}, 0, {})
        /\ UNCHANGED <<jvars, kind, request_vars, wrapper_vars, object, value, count, clean>>
     \/ /\ buf # NoWrapper
        /\ \E name \in Names : GetName(buf, <<"type">>, name, File, metadata_type(name))
        /\ at' = "file end" /\ UNCHANGED err
  /\ UNCHANGED <<field, bits>>

FileEnd ==
  /\ at = "file end"
  /\ GetStrings(field, File, file, FileEndKeys)
  /\ at' = IF kind = "user" THEN "status" ELSE "channel end"
  /\ UNCHANGED <<value, count, err>>

-----------------------------------------------------------------------------
(* revolt_user_deserialize_json_obj.                                         *)
User == <<"user">>

UserStrings ==
  /\ at = "user"
  /\ GetStrings(Wiped("user", NULL), User, root, UserKeys)
  /\ at' = "avatar" /\ count' = 0
  /\ UNCHANGED <<value, err>>

Status ==
  /\ at = "status"
  /\ GetStrings(field, User, root, StatusKeys)
  /\ at' = "presence" /\ UNCHANGED <<value, count, err>>

Presence ==
  /\ at = "presence"
  /\ \E name \in Names :
       GetName(root, <<"status", "presence">>, name,
               <<"user", "presence">>, user_presence_from_str(name))
  /\ at' = "relations" /\ UNCHANGED <<field, bits, err>>

GetRelations ==
  /\ at = "relations"
  /\ \E a \in Wrappers :
       /\ revoltc_json_get_arr(root, <<"relations">>, a)
       /\ buf' = a
       /\ Finds(IF a = NoWrapper THEN "relationship" ELSE "allocate")
  /\ UNCHANGED <<file, object_vars>>

AllocateRelations ==
  /\ at = "allocate" /\ at' = "first"
  /\ \/ /\ field' = [field EXCEPT ![User].relations = <<"user", "relations">>]
        /\ Memory({<<"user", "relations">>}, {}, 0, {})
     \/ Memory({}, {}, 1, {}) /\ UNCHANGED field
  /\ UNCHANGED <<jvars, kind, request_vars, wrapper_vars, object, value, bits, count, err, clean>>

FirstRelation ==
  /\ at = "first"
  /\ \E c \in Wrappers : revoltc_json_arr_get(buf, 1, c) /\ buf' = c
  /\ Finds("relation") /\ UNCHANGED <<file, object_vars>>

(* buf is the element number count + 1, or nothing. *)
max == Len(doc.arrays[<<"relations">>])

RelationString ==
  /\ at = "relation" /\ count < max /\ field[User].relations # NULL
  /\ GetStrings(field, Relation(count + 1), buf, RelationKeys)
  /\ at' = "relation status" /\ UNCHANGED <<value, count, err>>

RelationStatus ==
  /\ at = "relation status"
  /\ \E name \in Names :
       GetName(buf, <<"status">>, name,
               Relation(count + 1), user_relationship_status_from_str(name))
  /\ at' = "next" /\ UNCHANGED <<field, bits, err>>

NextRelation ==
  /\ at = "next" /\ count' = count + 1
  /\ \E c \in Wrappers : revoltc_json_unsafe_next(buf, c) /\ buf' = c
  /\ Finds("relation") /\ UNCHANGED <<file, field, value, bits>>

(* The array is written to without a look at what malloc returned. *)
RelationsMissing ==
  /\ at = "relation" /\ count < max /\ field[User].relations = NULL
  /\ Memory({}, {}, 0, {"null"}) /\ at' = "crashed"
  /\ UNCHANGED <<jvars, kind, request_vars, wrapper_vars, object, object_vars, err, clean>>

NoMoreRelations ==
  /\ at = "relation" /\ count = max /\ at' = "relationship"
  /\ UNCHANGED <<mvars, jvars, kind, request_vars, wrapper_vars, object, object_vars, err, clean>>

Relationship ==
  /\ at = "relationship"
  /\ \E name \in Names :
       GetName(root, <<"relationship">>, name,
               <<"user", "relationship">>, user_relationship_status_from_str(name))
  /\ at' = "bot" /\ UNCHANGED <<field, bits, err>>

Bot ==
  /\ at = "bot"
  /\ GetStrings(field, User, root, BotKeys)
  /\ at' = "leave" /\ UNCHANGED <<value, count, err>>

revolt_user_deserialize_json_obj ==
  \/ UserStrings \/ Status \/ Presence \/ GetRelations \/ AllocateRelations
  \/ FirstRelation \/ RelationString \/ RelationStatus \/ NextRelation
  \/ RelationsMissing \/ NoMoreRelations \/ Relationship \/ Bot

-----------------------------------------------------------------------------
(* revolt_channel_deserialize_json_obj and those of its types.               *)
Channel == <<"channel">>
type == value[<<"channel", "type">>]

(* Faulty: does not zero the channel before anything else. *)
TypeWithoutWipe ==
  /\ at = "channel"
  /\ \E name \in Names :
       GetName(root, <<"channel_type">>, name,
               <<"channel", "type">>, channel_type_from_str(name))
  /\ UNCHANGED <<field, bits>>
  /\ IF type' = "UNKNOWN" THEN Leaves("PARSE") ELSE at' = "strings" /\ UNCHANGED err

ChannelType ==
  /\ at = "channel"
  /\ \E name \in Names :
       GetName(root, <<"channel_type">>, name,
               <<"channel", "type">>, channel_type_from_str(name))
  /\ field' = Wiped("channel", NULL)
  /\ bits' = [b \in DOMAIN bits |-> 0]
  /\ IF type' = "UNKNOWN" THEN Leaves("PARSE") ELSE at' = "strings" /\ UNCHANGED err

ChannelStrings ==
  /\ at = "strings"
  /\ GetStrings(field, Channel, root, ChannelKeys(type))
  /\ at' = IF type \in {"SM", "DM"} THEN "leave" ELSE "icon"
  /\ UNCHANGED <<value, count, err>>

Permissions ==
  /\ at = "channel end" /\ at' = IF type = "VOICE" THEN "voice end" ELSE "leave"
  /\ LET number(b, key) ==
           IF key[1] = (IF type = "GROUP" THEN "permissions" ELSE "default_permissions")
           THEN revoltc_json_get_i64(root, key) ELSE {bits[b]}
     IN \E p \in number("permissions", <<"permissions">>),
           a \in number("a", <<"default_permissions", "a">>),
           d \in number("d", <<"default_permissions", "d">>) :
          bits' = [permissions |-> p, a |-> a, d |-> d]
  /\ Memory({}, {}, 0, Through(root))
  /\ UNCHANGED <<jvars, kind, request_vars, wrapper_vars, object, field, value, count, err, clean>>

(* The id is read once more. *)
VoiceEnd ==
  /\ at = "voice end" /\ at' = "leave"
  /\ GetStrings(field, Channel, root, VoiceEndKeys)
  /\ UNCHANGED <<value, count, err>>

revolt_channel_deserialize_json_obj ==
  ChannelType \/ ChannelStrings \/ Permissions \/ VoiceEnd

-----------------------------------------------------------------------------
(* Deletion.  What the cleanup functions free, if there is something.        *)
Owned(p, fs) == {field[p][f] : f \in fs} \ {NULL}

revolt_file_cleanup(p) ==
  Owned(p, {"id", "tag", "filename", "content_type",
            "message_id", "user_id", "server_id", "object_id"})

(* Faulty: the loop over the relations ends one too early. *)
CleanupKeepsFirst ==
  Owned(User, {"id", "username", "discriminator", "display_name"})
  \cup revolt_file_cleanup(<<"user", "avatar">>)
  \cup Owned(User, {"text"})
  \cup (UNION {Owned(Relation(i), {"user_id"}) : i \in 2 .. count})
  \cup Owned(User, {"relations", "owner_id"})

revolt_user_cleanup ==
  Owned(User, {"id", "username", "discriminator", "display_name"})
  \cup revolt_file_cleanup(<<"user", "avatar">>)
  \cup Owned(User, {"text"})
  \cup (UNION {Owned(Relation(i), {"user_id"}) : i \in 1 .. count})
  \cup Owned(User, {"relations", "owner_id"})

(* Recipients are never filled in. *)
revolt_channel_cleanup(clean_substructs) ==
  CASE type = "SM" -> Owned(Channel, {"id", "owner_id"})
    [] type = "DM" -> Owned(Channel, {"id", "last_message_id"})
    [] type = "GROUP" ->
         Owned(Channel, {"id", "owner_id", "last_message_id", "name", "description"})
         \cup (IF clean_substructs THEN revolt_file_cleanup(<<"channel", "icon">>) ELSE {})
    [] type = "TEXT" ->
         Owned(Channel, {"id", "server_id", "last_message_id", "name", "description"})
         \cup (IF clean_substructs THEN revolt_file_cleanup(<<"channel", "icon">>) ELSE {})
    [] type = "VOICE" ->
         Owned(Channel, {"id", "server_id", "name", "description"})
         \cup (IF clean_substructs THEN revolt_file_cleanup(<<"channel", "icon">>) ELSE {})
    [] OTHER -> {}

Written(k) == \A p \in PartsOf(k) : \A f \in DOMAIN field[p] : field[p][f] # WILD

(* The playground deletes what it got, whatever the fetch returned.          *)
Delete(k, owned, next) ==
  IF object[k] = NULL THEN Memory({}, {}, 0, {}) /\ at' = next
  ELSE IF Written(k) THEN Memory({}, owned \cup {object[k]}, 0, {}) /\ at' = next
  ELSE Memory({}, {}, 0, {"wild"}) /\ at' = "crashed"

revolt_user_delete ==
  /\ at = "delete user"
  /\ Delete("user", revolt_user_cleanup, "delete channel")
  /\ UNCHANGED <<jvars, kind, request_vars, wrapper_vars, object, object_vars, err, clean>>

revolt_channel_delete ==
  /\ at = "delete channel"
  /\ clean' \in BOOLEAN
  /\ Delete("channel", revolt_channel_cleanup(clean'), "exit")
  /\ UNCHANGED <<jvars, kind, request_vars, wrapper_vars, object, object_vars, err>>

revolt_cleanup ==
  /\ at = "exit" /\ at' = "end"
  /\ Memory({}, ClientBlocks, 0, {})
  /\ UNCHANGED <<jvars, kind, request_vars, wrapper_vars, object, object_vars, err, clean>>

FetchNext ==
  \/ revolt_init \/ Fetch \/ FetchReturns
  \/ revolt_rest_request \/ write_callback \/ request_perform
  \/ Deserialize \/ Leave
  \/ GetFile \/ FileStrings \/ GetMetadata
  \/ revolt_file_metadata_deserialize_json_obj \/ FileEnd
  \/ revolt_user_deserialize_json_obj \/ revolt_channel_deserialize_json_obj
  \/ revolt_user_delete \/ revolt_channel_delete \/ revolt_cleanup

FetchSpec == Init /\ [][FetchNext]_fvars
=============================================================================
