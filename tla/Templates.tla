------------------------------ MODULE Templates ------------------------------
(* resolveParams of src/src/engine/runtime/orchestrator.ts: what the parameters of a
   step become before its handler gets them.  A text is a sequence of tokens, "${" one
   of them; a value is a text, or Undefined. *)
EXTENDS Integers, Sequences, SequencesExt

CONSTANTS
  Tokens,      \* what texts are made of
  MaxLength,   \* bound: tokens of a text
  Types,       \* "state", "config", "params", "item": what a reference starts with
  Known,       \* the contents of a reference that lead to a value, and the value
  BlockedKeys, \* isValidStateKey refuses them
  Keys,        \* the keys of an object of parameters
  Samples,     \* the texts such an object holds
  MaxKeys,     \* bound: its size
  Undefined

VARIABLES
  given,  \* what resolveParams was called with: [text |-> ...] or [object |-> ...]
  answer  \* what it returned

vars == <<given, answer>>

(* The first place of token from k on, 0 when there is none: indexOf. *)
IndexOf(text, token, k) ==
  LET At == {i \in k..Len(text) : text[i] = token}
  IN IF At = {} THEN 0 ELSE CHOOSE i \in At : \A j \in At : i <= j

(* The content of a reference up to its first dot. *)
TypeOf(content) ==
  LET dot == IndexOf(content, ".", 1)
  IN IF dot = 0 THEN content ELSE SubSeq(content, 1, dot - 1)

Supported(content) == \E type \in Types : TypeOf(content) = <<type>>

(* resolvePath: a key that is not allowed ends the walk, as does a value without it. *)
ResolvePath(content) ==
  IF (\E i \in DOMAIN content : content[i] \in BlockedKeys) \/ content \notin DOMAIN Known
  THEN Undefined
  ELSE Known[content]

AsText(value) == IF value = Undefined THEN <<>> ELSE value

(* Mutant: the scan goes on inside what was put in. *)
RescanInterpolate(text) ==
  LET Scan[rounds \in 0..2, rest \in Seq(Tokens)] ==
        LET s == IndexOf(rest, "${", 1)
            e == IndexOf(rest, "}", s + 1)
        IN IF s = 0 \/ e = 0 \/ rounds = 0 THEN rest
           ELSE IF Supported(SubSeq(rest, s + 1, e - 1))
           THEN Scan[rounds - 1, SubSeq(rest, 1, s - 1)
                       \o AsText(ResolvePath(SubSeq(rest, s + 1, e - 1)))
                       \o SubSeq(rest, e + 1, Len(rest))]
           ELSE rest
  IN Scan[2, text]

(* One round of the loop over a text: what stands before a reference is kept, the reference
   is replaced, and a "${" of no known type is stepped over. *)
Round(text, x) ==
  LET startIdx == IndexOf(text, "${", x.next)
      endIdx   == IndexOf(text, "}", startIdx + 1)
      content  == SubSeq(text, startIdx + 1, endIdx - 1)
  IN IF startIdx = 0 \/ endIdx = 0 THEN x
     ELSE IF Supported(content)
     THEN [result |-> (x.result \o SubSeq(text, x.last, startIdx - 1)) \o AsText(ResolvePath(content)),
           last |-> endIdx + 1, next |-> endIdx + 1]
     ELSE [x EXCEPT !.next = startIdx + 1]

(* Every round but the last takes a "${" further on, so there are no more than tokens. *)
Interpolate(text) ==
  LET loop[i \in 0..Len(text)] ==
        IF i = 0 THEN [result |-> <<>>, last |-> 1, next |-> 1] ELSE Round(text, loop[i - 1])
      end == loop[Len(text)]
  IN end.result \o SubSeq(text, end.last, Len(text))

(* A text that starts and ends like a reference is taken for one. *)
ResolveText(text) ==
  LET content == SubSeq(text, 2, Len(text) - 1)
  IN IF text # <<>> /\ text[1] = "${" /\ Last(text) = "}" /\ Supported(content)
     THEN ResolvePath(content)
     ELSE Interpolate(text)

(* The pairs under keys that isValidStateKey lets pass. *)
Valid(params) ==
  LET kept[i \in 0..Len(params)] ==
        IF i = 0 THEN <<>>
        ELSE IF params[i].key \in BlockedKeys THEN kept[i - 1]
        ELSE Append(kept[i - 1], params[i])
  IN kept[Len(params)]

Resolved(params) == [i \in DOMAIN params |-> [params[i] EXCEPT !.text = ResolveText(@)]]

Changes(params) ==
  {i \in DOMAIN params : params[i].key \in BlockedKeys \/ ResolveText(params[i].text) # params[i].text}

(* Mutant: the keys before the first change are left out of the copy. *)
ResolveTail(params) ==
  LET first == CHOOSE i \in Changes(params) : \A j \in Changes(params) : i <= j
  IN IF Changes(params) = {} THEN params
     ELSE Resolved(Valid(SubSeq(params, first, Len(params))))

(* Objects and arrays are copied from their first change on: what stands before it is
   taken over as it is, the rest is resolved, and keys that are not allowed fall out. *)
ResolveObject(params) ==
  LET first == CHOOSE i \in Changes(params) : \A j \in Changes(params) : i <= j
  IN IF Changes(params) = {} THEN params
     ELSE SubSeq(params, 1, first - 1) \o Resolved(Valid(SubSeq(params, first, Len(params))))

-----------------------------------------------------------------------------
Texts == UNION {[1..n -> Tokens] : n \in 1..MaxLength}
Objects ==
  {o \in UNION {[1..n -> [key : Keys, text : Samples]] : n \in 1..MaxKeys} :
     \A i, j \in DOMAIN o : o[i].key = o[j].key => i = j}

Init == given = Undefined /\ answer = Undefined

(* One call each, from the start. *)
CallText ==
  /\ given = Undefined
  /\ given' \in [text : Texts]
  /\ answer' = [text |-> ResolveText(given'.text)]

CallObject ==
  /\ given = Undefined
  /\ given' \in [object : Objects]
  /\ answer' = [object |-> ResolveObject(given'.object)]

Next == CallText \/ CallObject
Spec == Init /\ [][Next]_vars

-----------------------------------------------------------------------------
(* The references of a text: from a "${" of a known type to the first brace after it,
   and of those that end together the first. *)
Ref(text, s, e) ==
  text[s] = "${" /\ e = IndexOf(text, "}", s) /\ Supported(SubSeq(text, s + 1, e - 1))

References(text) ==
  {r \in (DOMAIN text) \X (DOMAIN text) :
     Ref(text, r[1], r[2]) /\ \A s \in 1..r[1] - 1 : ~Ref(text, s, r[2])}

(* What becomes of the i-th token: a reference is replaced by its value. *)
Piece(text, i) ==
  IF \E r \in References(text) : r[1] = i
  THEN LET r == CHOOSE r \in References(text) : r[1] = i
       IN AsText(ResolvePath(SubSeq(text, r[1] + 1, r[2] - 1)))
  ELSE IF \E r \in References(text) : r[1] < i /\ i <= r[2] THEN <<>>
  ELSE <<text[i]>>

Substituted(text) == FlattenSeq([i \in DOMAIN text |-> Piece(text, i)])

(* One pass, orchestrator.ts:187-189: the references of the text are replaced by their values
   and what they bring in is not looked at again.  A text that is one reference is its
   value; one that starts with a reference and ends with another is lost: it has none. *)
SinglePass ==
  given # Undefined /\ "text" \in DOMAIN given =>
    LET text == given.text
    IN answer.text = IF <<1, Len(text)>> \in References(text)
                     THEN ResolvePath(SubSeq(text, 2, Len(text) - 1))
                     ELSE IF text[1] = "${" /\ Last(text) = "}" /\ Supported(Tail(text))
                     THEN Undefined
                     ELSE Substituted(text)

(* The copy that starts at the first change is the same as resolving every value and
   leaving the refused keys out. *)
CopyIsWhole ==
  given # Undefined /\ "object" \in DOMAIN given =>
    answer.object = Resolved(Valid(given.object))
=============================================================================
