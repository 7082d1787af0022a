------------------------------ MODULE MCFetch ------------------------------
(* Fetch on documents that are complete, that lack each of the parts the     *)
(* code asks for, or that are something else.  A string whose text no code   *)
(* looks at is "text".                                                       *)
EXTENDS FetchProps, TLC

Text(paths) == [p \in paths |-> "text"]
Prefixes(paths) == UNION {{SubSeq(p, 1, n) : n \in 0 .. Len(p)} : p \in paths}
Document(strings, parts, arrays, numbers) ==
  [parses |-> TRUE, strings |-> strings, arrays |-> arrays, numbers |-> numbers,
   nodes |-> Prefixes(DOMAIN strings \cup parts \cup DOMAIN arrays \cup DOMAIN numbers)]
Nothing == [p \in {} |-> p]
File1(p) == Text({Append(p, k) : k \in {"_id", "tag", "filename", "object_id"}})
Metadata(p, name) == (p \o <<"metadata", "type">>) :> name
Typed(k) == Text({<<"_id">>}) @@ (<<"channel_type">> :> k)

Me == Text({<<"_id">>, <<"username">>, <<"status", "text">>})
Avatar == File1(<<"avatar">>)
Friends == Text({<<"relations", "r", "_id">>, <<"relations", "s", "_id">>})
           @@ <<"relations", "r", "status">> :> "Friend"
           @@ <<"relations", "s", "status">> :> "BlockedOther"

Users == {
  Document(Me @@ Avatar @@ Metadata(<<"avatar">>, "Image") @@ Friends
           @@ <<"status", "presence">> :> "Invisible" @@ <<"relationship">> :> "User"
           @@ Text({<<"bot", "owner">>, <<"discriminator">>}),
           {}, <<"relations">> :> <<"r", "s">>, Nothing),
  Document(Me @@ Metadata(<<"avatar">>, "Video") @@ <<"relationship">> :> "Blocked"
           @@ <<"status", "presence">> :> "Idle" @@ <<"relations">> :> "Other",
           {}, Nothing, Nothing),
  Document(Text({<<"_id">>}) @@ Metadata(<<"avatar">>, "File"), {},
           <<"relations">> :> <<>>, Nothing),
  Document(Me @@ Avatar, {}, Nothing, Nothing),
  Document(Me, {}, Nothing, Nothing),
  Garbage }

Icons == Text({<<"icon", "_id">>, <<"icon", "server_id">>})
Named == Text({<<"name">>, <<"description">>})
Channels == {
  Document(Typed("SavedMessages") @@ Text({<<"user">>}), {}, Nothing, Nothing),
  Document(Typed("DirectMessage") @@ Text({<<"last_message_id">>}), {}, Nothing, Nothing),
  Document(Typed("Group") @@ Named @@ Text({<<"owner">>}) @@ Icons
           @@ Metadata(<<"icon">>, "Text"), {}, Nothing, <<"permissions">> :> 8),
  Document(Typed("Group") @@ Named, {}, Nothing, <<"permissions">> :> -8),
  Document(Typed("TextChannel") @@ Named @@ Text({<<"server">>}) @@ Icons
           @@ Metadata(<<"icon">>, "Audio"), {}, Nothing,
           <<"default_permissions", "a">> :> 7 @@ <<"default_permissions", "d">> :> 9),
  Document(Typed("VoiceChannel") @@ Named @@ Icons @@ Metadata(<<"icon">>, "none"),
           {}, Nothing, <<"default_permissions", "d">> :> -8),
  Document(Typed("Other"), {}, Nothing, Nothing),
  Garbage }

MCDocuments == [user |-> Users, channel |-> Channels]
=============================================================================
