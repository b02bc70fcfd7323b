--------------------------- MODULE SessionPayload ---------------------------
(***************************************************************************)
(* The value kept in Redis under session:<sha256(token)>, and the three    *)
(* functions of src/session/payload.ts that write, read and upgrade it.    *)
(*                                                                         *)
(* A stored string is abstracted to what the code tells apart: a text that *)
(* is not a JSON object (a v0 value, the bare user id), or a JSON object   *)
(* with the fields the validator looks at, each of which may be Invalid    *)
(* (absent or of the wrong type).  issuedAt only matters as a number that  *)
(* is there or not, so it shares its validity with rotationCount.          *)
(***************************************************************************)
EXTENDS Integers

CONSTANTS
  UserIds,      \* user ids a client may present in x-user-id
  Scopes,       \* permission scopes a session may carry
  Tokens,       \* session tokens; a token also stands for its blinded hash
  NoParent,     \* rotatedFrom is absent
  Invalid,      \* a field that is absent or of the wrong type
  DocText       \* the text of a JSON document, taken for a user id

ASSUME InvalidAssumption == Invalid \notin Int

CurrentVersion == 1

(***************************************************************************)
(* Texts and documents.  Text(u) is also the string a request presents as  *)
(* its user id, which is how the server compares the two.                  *)
(***************************************************************************)
Text(u) == [form |-> "text", text |-> u]

Documents ==
  [form          : {"json"},
   v             : Int \cup {Invalid},
   userId        : UserIds \cup {DocText, Invalid},
   scopes        : (SUBSET Scopes) \cup {Invalid},
   rotatedFrom   : Tokens \cup {NoParent},
   rotationCount : Nat \cup {Invalid}]

Texts == {Text(u) : u \in UserIds}

RawValues == Texts \cup Documents

(* interface SessionPayload *)
Payloads ==
  [v             : Int,
   userId        : UserIds \cup {DocText},
   scopes        : SUBSET Scopes,
   rotatedFrom   : Tokens \cup {NoParent},
   rotationCount : Nat]

(* Mutant: a field forgotten in the fixed order.                           *)
SerializeWithoutLineage(p) ==
  [form |-> "json", v |-> p.v, userId |-> p.userId, scopes |-> p.scopes,
   rotatedFrom |-> NoParent, rotationCount |-> p.rotationCount]

(* serializePayload: the fields in a fixed order, rotatedFrom dropped when *)
(* it is undefined.                                                        *)
Serialize(p) ==
  [form          |-> "json",
   v             |-> p.v,
   userId        |-> p.userId,
   scopes        |-> p.scopes,
   rotatedFrom   |-> p.rotatedFrom,
   rotationCount |-> p.rotationCount]

(* The throws of deserializePayload, in the order the code tests them.     *)
IsVersioned(raw)   == raw.form = "json" /\ raw.v # Invalid
IsLegacy(raw)      == ~IsVersioned(raw)
IsUnsupported(raw) == /\ IsVersioned(raw)
                      /\ \/ raw.v > CurrentVersion
                         \/ raw.userId = Invalid
                         \/ raw.scopes = Invalid
                         \/ raw.rotationCount = Invalid
IsPayload(raw)     == IsVersioned(raw) /\ ~IsUnsupported(raw)

(* What deserializePayload returns when it does not throw.                 *)
Deserialize(raw) ==
  [v             |-> raw.v,
   userId        |-> raw.userId,
   scopes        |-> raw.scopes,
   rotatedFrom   |-> raw.rotatedFrom,
   rotationCount |-> raw.rotationCount]

(* migrateLegacySession: the whole raw text becomes the user id.           *)
MigrateLegacy(raw) ==
  [v             |-> CurrentVersion,
   userId        |-> IF raw.form = "text" THEN raw.text ELSE DocText,
   scopes        |-> {},
   rotatedFrom   |-> NoParent,
   rotationCount |-> 0]

(* The payload readSession hands to its caller, when it hands one.         *)
Interpret(raw) == IF IsLegacy(raw) THEN MigrateLegacy(raw) ELSE Deserialize(raw)

(* The payload of a fresh session, and of the session a rotation creates.  *)
FirstPayload(u, scopes) ==
  [v |-> CurrentVersion, userId |-> u, scopes |-> scopes,
   rotatedFrom |-> NoParent, rotationCount |-> 0]

(* Mutant: the count is carried over as it is.                             *)
UncountedPayload(p, oldToken) ==
  [v |-> CurrentVersion, userId |-> p.userId, scopes |-> p.scopes,
   rotatedFrom |-> oldToken, rotationCount |-> p.rotationCount]

RotatedPayload(p, oldToken) ==
  [v |-> CurrentVersion, userId |-> p.userId, scopes |-> p.scopes,
   rotatedFrom |-> oldToken, rotationCount |-> p.rotationCount + 1]
=============================================================================
