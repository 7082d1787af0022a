----------------------------- MODULE FetchProps -----------------------------
(* What fetching and deleting objects does to memory and to the document.    *)
EXTENDS Fetch

(* No block is freed twice and no wrapper is looked into after its deletion, *)
(* whichever allocations fail and wherever deserialisation stops: wrappers   *)
(* are deleted behind the caller's back by the next look into their parent   *)
(* (lib/core/json_cjson.c 68-76), objects are deleted half filled.           *)
NothingDangles == misuse \cap {"freed twice", "used after free"} = {}

(* An object is left unwritten, and its deletion is undefined, only if its   *)
(* document was never parsed; one that was filled in part can be deleted.    *)
(* The playground deletes unwritten ones, too (main.c 71-74).                *)
UnwrittenOnlyUnparsed ==
  /\ root # NoWrapper /\ at # kind => Written(kind)
  /\ \A k \in Kinds : object[k] # NULL /\ err[k] = "OK" /\ at # k => Written(k)
  /\ "wild" \in misuse => \E k \in Kinds : err[k] # "OK" /\ ~Written(k)

(* When the application ends, every block is freed but those the code is     *)
(* known to forget: an object whose path could not be allocated (fetch.c 26- *)
(* 30, 68-72), header and body of a request that failed (http.c 65-66), the  *)
(* first copy of a voice channel's id (channel.c 214, 229) and the icon of a *)
(* channel that was deleted without its substructures.                       *)
Forgotten ==
  {<<k>> : k \in {j \in Kinds : err[j] = "NOMEM" /\ object[j] = NULL}}
  \cup (UNION {{<<k, "header">>, <<k, "body">>} : k \in {j \in Kinds : err[j] = "CURL"}})
  \cup (IF type = "VOICE" THEN {<<"channel", "_id">>} ELSE {})
  \cup (IF clean THEN {} ELSE Owned(<<"channel", "icon">>, Parts[<<"channel", "icon">>]))
NothingElseLeaks == at = "end" => blocks \subseteq Forgotten

(* What the names in a document mean. *)
Meaning ==
  [Online |-> "ONLINE", Idle |-> "IDLE", Focus |-> "FOCUS", Busy |-> "BUSY",
   Invisible |-> "INVISIBLE", None |-> "NONE", User |-> "USER", Friend |-> "FRIEND",
   Outgoing |-> "OUTGOING", Incoming |-> "INCOMING", Blocked |-> "BLOCKED",
   BlockedOther |-> "BLOCKED_OTHER", File |-> "FILE", Text |-> "TEXT",
   Image |-> "IMAGE", Video |-> "VIDEO", Audio |-> "AUDIO",
   SavedMessages |-> "SM", DirectMessage |-> "DM", Group |-> "GROUP",
   TextChannel |-> "TEXT", VoiceChannel |-> "VOICE", Other |-> "UNKNOWN",
   none |-> "UNKNOWN"]
NameIn(b, path) == IF path \in DOMAIN b.strings THEN b.strings[path] ELSE NoName
NamedBy(path) == Meaning[NameIn(doc, path)]
RelationPath(i) == <<"relations", doc.arrays[<<"relations">>][i]>>

(* What the server promises: texts, names and numbers only where the schema  *)
(* has them, each name one of its enumeration.  Of a channel whose type is   *)
(* unknown nothing is asked, since the code refuses it.                      *)
PresenceNames == {"Online", "Idle", "Focus", "Busy", "Invisible"}
RelationshipNames ==
  {"None", "User", "Friend", "Outgoing", "Incoming", "Blocked", "BlockedOther"}
MetadataNames == {"File", "Text", "Image", "Video", "Audio"}
ChannelNames == {"SavedMessages", "DirectMessage", "Group", "TextChannel", "VoiceChannel"}
Says(b, path, names) == NameIn(b, path) \in names \cup {NoName}
TextsIn(b) == {path \in DOMAIN b.strings : b.strings[path] = "text"}

Under(path, keys) == {path \o keys[f] : f \in DOMAIN keys}
FileTexts(path) == Under(path, FileKeys) \cup Under(path, FileEndKeys)
Elements(b) ==
  IF <<"relations">> \in DOMAIN b.arrays
  THEN {b.arrays[<<"relations">>][i] : i \in DOMAIN b.arrays[<<"relations">>]} ELSE {}
UserSchema(b) ==
  /\ TextsIn(b) \subseteq
       Under(<<>>, UserKeys) \cup Under(<<>>, StatusKeys) \cup Under(<<>>, BotKeys)
         \cup FileTexts(<<"avatar">>)
         \cup UNION {Under(<<"relations", r>>, RelationKeys) : r \in Elements(b)}
  /\ DOMAIN b.arrays \subseteq b.nodes
  /\ DOMAIN b.numbers = {}
  /\ Says(b, <<"status", "presence">>, PresenceNames)
  /\ Says(b, <<"relationship">>, RelationshipNames)
  /\ Says(b, <<"avatar", "metadata", "type">>, MetadataNames)
  /\ \A r \in Elements(b) : Says(b, <<"relations", r, "status">>, RelationshipNames)

TypeIn(b) == channel_type_from_str(NameIn(b, <<"channel_type">>))
PermissionsOf(t) ==
  CASE t = "GROUP" -> {<<"permissions">>}
    [] t \in {"TEXT", "VOICE"} -> {<<"default_permissions", "a">>, <<"default_permissions", "d">>}
    [] OTHER -> {}
ChannelSchema(b) ==
  /\ TextsIn(b) \subseteq
       Under(<<>>, ChannelKeys(TypeIn(b)))
         \cup (IF TypeIn(b) \in {"GROUP", "TEXT", "VOICE"} THEN FileTexts(<<"icon">>) ELSE {})
  /\ DOMAIN b.numbers \subseteq PermissionsOf(TypeIn(b))
  /\ Says(b, <<"channel_type">>, ChannelNames)
  /\ Says(b, <<"icon", "metadata", "type">>, MetadataNames)

ASSUME SchemaAssumption ==
  /\ \A b \in Documents["user"] : b.parses => UserSchema(b)
  /\ \A b \in Documents["channel"] : b.parses /\ TypeIn(b) # "UNKNOWN" => ChannelSchema(b)

HeldBy(path) ==
  {h \in UNION {{p} \X Parts[p] : p \in PartsOf(kind)} :
    field[h[1]][h[2]] \in {<<kind>> \o path, (<<kind>> \o path) \o <<"again">>}}

EveryEnumRead ==
  IF kind = "user"
  THEN /\ value[<<"user", "presence">>] = NamedBy(<<"status", "presence">>)
       /\ value[<<"user", "relationship">>] = NamedBy(<<"relationship">>)
       /\ value[<<"user", "avatar">>] = NamedBy(<<"avatar", "metadata", "type">>)
       /\ \A i \in 1 .. count : value[Relation(i)] = NamedBy(RelationPath(i) \o <<"status">>)
  ELSE /\ type = NamedBy(<<"channel_type">>)
       /\ type \in {"GROUP", "TEXT", "VOICE"} =>
            value[<<"channel", "icon">>] = NamedBy(<<"icon", "metadata", "type">>)

(* A fetch that returns OK has read the whole document: every string is held *)
(* by one field, every relation is there in its place, every name has its    *)
(* enumerator and every number in range its value; only what there was no    *)
(* memory for is missing.  INT64_MAX + 1, which get_i64 lets through (json_- *)
(* cjson.c 141), is excepted.                                                *)
ReadsDocument ==
  at = "leave" /\ err[kind] = "OK" =>
    /\ \A path \in DOMAIN doc.strings : doc.strings[path] = "text" =>
         Cardinality(HeldBy(path)) = 1 \/ (AllocationFailed /\ HeldBy(path) = {})
    /\ kind = "user" /\ IsArray(<<"relations">>) /\ ~AllocationFailed =>
         /\ count = max
         /\ \A i \in 1 .. count :
              field[Relation(i)].user_id \in
                {NULL, <<"user">> \o RelationPath(i) \o <<"_id">>}
    /\ AllocationFailed \/ EveryEnumRead
    /\ \A path \in DOMAIN doc.numbers :
         doc.numbers[path] \in I64 => bits[path[Len(path)]] = doc.numbers[path]

(* Whatever the deserialisers look into, and whichever wrapper cannot be     *)
(* allocated, they read the document as Cursor says.                         *)
Line(w) ==
  LET from[v \in 0 .. Len(json)] ==
        IF v = NoWrapper THEN <<>> ELSE <<json[v].val>> \o from[json[v].child]
  IN from[w]
Reading == INSTANCE Cursor WITH line <- IF root = NoWrapper THEN <<>> ELSE Line(root)
ImplementsCursor == Reading!Spec
=============================================================================
