------------------------------ MODULE CipherTube ------------------------------
(* The cipher tube assembly, src/src/cta.ts, behind POST /mcp/encrypt, /mcp/decrypt and
   /mcp/packet of src/src/server.ts.  Cryptography is symbolic: a hash is what was hashed, a
   layer opens with the seed and the salt it was closed with and no others.  A client
   keeps every tube it was given and sends them back as it likes.  A request has passed
   the session's middlewares, which SessionServer models. *)
EXTENDS Integers, Sequences, SequencesExt

CONSTANTS
  Locks, Layers, \* NUM_INTEGRITY_TUBES, NUM_ENCRYPTION_LAYERS
  MaxTubes,      \* 100: the tubes a request may carry
  Seeds,         \* master seeds of 64 hex digits
  Messages,      \* message -> [text: as UTF-8 keeps it, size: bytes]
  BodyLimit,     \* 10 kB, express.json
  TubeSize, LayerSize, \* bytes of a tube in a body, and 28 bytes a layer adds
  MaxBuilds,     \* bound: messages encrypted
  Missing        \* a field that is not there, a tube that is not there

VARIABLES
  built,   \* history: what was encrypted, [message, seed]
  asked,   \* the last request to decrypt, [of, seed, tubes]
  status,  \* and its answer, 0 before the first
  plain    \* the text it answered

vars == <<built, asked, status, plain>>

Init ==
  /\ built = <<>>
  /\ asked = Missing
  /\ status = 0
  /\ plain = Missing

Hash(text) == text

(* buildCipherTube: every lock is the same hash of the plaintext, every layer has a salt
   of its own; a layer wraps the one before it. *)
TubesOf(b) ==
  [i \in 1..Locks + Layers |->
     [layer |-> i - 1,
      field |-> IF i <= Locks THEN Hash(Messages[built[b].message].text) ELSE <<b, i - 1>>]]

CipherOf(b) == [j \in Locks..Locks + Layers - 1 |-> [seed |-> built[b].seed, salt |-> <<b, j>>]]

(* POST /mcp/encrypt: 413 from the body parser, 400 for no message or no seed. *)
Encrypt(m, s) ==
  /\ Len(built) < MaxBuilds
  /\ Messages[m].size <= BodyLimit
  /\ built' = Append(built, [message |-> m, seed |-> s])
  /\ UNCHANGED <<asked, status, plain>>

-----------------------------------------------------------------------------
(* Mutant: the first tube of a layer is taken. *)
FirstPooled(tubes, layer) ==
  LET Of == {i \in DOMAIN tubes : tubes[i].layer = layer}
  IN IF Of = {} THEN Missing ELSE tubes[CHOOSE i \in Of : \A j \in Of : i <= j].field

(* The pool: of the tubes with one layer the last counts; nobody looks at its type, nor
   at the iv and the tag it names, which are read from the ciphertext. *)
Pooled(tubes, layer) ==
  LET Of == {i \in DOMAIN tubes : tubes[i].layer = layer}
  IN IF Of = {} THEN Missing ELSE tubes[CHOOSE i \in Of : \A j \in Of : j <= i].field

(* The layers are opened from the outside in.  A missing tube, a missing field and a
   failed tag all end it. *)
Opened(cipher, seed, tubes) ==
  \A j \in DOMAIN cipher :
    /\ Pooled(tubes, j) # Missing
    /\ cipher[j] = [seed |-> seed, salt |-> Pooled(tubes, j)]

(* Mutant: the loop ends before lock 0. *)
VerifiedButOne(text, tubes) ==
  \A i \in 1..Locks - 1 : Pooled(tubes, i) = Hash(text)

(* The locks are verified from the last to the first; one that says the same as the one
   verified before it is not computed again. *)
Verified(text, tubes) ==
  LET Lock[i \in 0..Locks] ==
        \/ i = Locks
        \/ /\ Lock[i + 1]
           /\ Pooled(tubes, i) # Missing
           /\ \/ i + 1 < Locks /\ Pooled(tubes, i) = Pooled(tubes, i + 1)
              \/ Pooled(tubes, i) = Hash(text)
  IN Lock[0]

(* What the client sends, in hex: two bytes of it a byte. *)
BodySize(b, tubes) ==
  2 * (Messages[built[b].message].size + Layers * LayerSize) + Len(tubes) * TubeSize

(* POST /mcp/decrypt.  The errors of decryptCipherTube are told apart by their words:
   "Invalid tubes metadata" is not among the client's errors. *)
StatusOf(b, seed, tubes) ==
  IF BodySize(b, tubes) > BodyLimit THEN 413
  ELSE IF Len(tubes) > MaxTubes THEN 500
  ELSE IF Opened(CipherOf(b), seed, tubes) /\ Verified(Messages[built[b].message].text, tubes)
  THEN 200
  ELSE 400

Decrypt(b, seed, tubes) ==
  /\ asked' = [of |-> b, seed |-> seed, tubes |-> tubes]
  /\ status' = StatusOf(b, seed, tubes)
  /\ plain' = IF status' = 200 THEN Messages[built[b].message].text ELSE Missing
  /\ UNCHANGED built

-----------------------------------------------------------------------------
(* The requests of a client: the tubes of one message in any order, one of them left
   out, replaced by any other it holds or one it damaged, or one more in front or at the end. *)
Issued == UNION {ToSet(TubesOf(b)) : b \in DOMAIN built}
Held == Issued \cup {[t EXCEPT !.field = Missing] : t \in Issued}

Shuffled(b) ==
  {[i \in 1..Locks + Layers |-> TubesOf(b)[p[i]]] :
     p \in {q \in [1..Locks + Layers -> 1..Locks + Layers] : \A i, j \in DOMAIN q : q[i] = q[j] => i = j}}

Edited(s) ==
  {s} \cup {RemoveAt(s, i) : i \in DOMAIN s} \cup {ReplaceAt(s, i, t) : i \in DOMAIN s, t \in Held}
    \cup {Append(s, t) : t \in Held} \cup {Cons(t, s) : t \in Held}
    \cup {[i \in 1..MaxTubes + 1 |-> s[1]]}

Requests(b) == UNION {Edited(s) : s \in Shuffled(b)}

(* The endpoints keep nothing: one request after the messages shows them all. *)
Next ==
  /\ asked = Missing
  /\ \/ \E m \in DOMAIN Messages, s \in Seeds : Encrypt(m, s)
     \/ \E b \in DOMAIN built, seed \in Seeds : \E tubes \in Requests(b) : Decrypt(b, seed, tubes)

Spec == Init /\ [][Next]_vars

-----------------------------------------------------------------------------
TypeOK ==
  /\ built \in Seq([message : DOMAIN Messages, seed : Seeds])
  /\ status \in {0, 200, 400, 413, 500}

(* A ciphertext opens with the seed it was made with and, for every layer, a tube that
   was issued with it, in any order and among others, and with nothing else; what comes
   out is the text that went in.  The locks may be those of another message that says
   the same. *)
DecryptsExactly ==
  asked # Missing /\ status \in {200, 400} =>
    LET b == asked.of
        LastOf(layer) == SelectLastInSeq(asked.tubes, LAMBDA t : t.layer = layer)
        Fits(layer) == LastOf(layer) # 0 /\ \E c \in DOMAIN built :
                         /\ asked.tubes[LastOf(layer)] = TubesOf(c)[layer + 1]
                         /\ IF layer < Locks
                            THEN Messages[built[c].message].text = Messages[built[b].message].text
                            ELSE b = c
    IN /\ status = 200 <=> asked.seed = built[b].seed /\ \A l \in 0..Locks + Layers - 1 : Fits(l)
       /\ status = 200 => plain = Messages[built[b].message].text
=============================================================================
