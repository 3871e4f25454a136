----------------------------- MODULE FieldCrypto -----------------------------
(* The encrypted field of a model (src/crypto/fields.ts as src/orm/query.ts   *)
(* uses it): one key per process, resolved once, rows written and read        *)
(* through the model, and rows copied raw.  A cipher is the value and the     *)
(* keys around it; AES-256-GCM opens with the key it was closed with or       *)
(* throws.  What starts with "k1." passes for a cipher, whoever wrote it.     *)
EXTENDS Integers, Sequences, FiniteSets

CONSTANTS Key,     \* keys; secrets are taken to derive distinct ones
          Row,     \* rows of the collection
          Value,   \* values of the encrypted field
          Tagged,  \* the values that start with "k1."
          MaxCall  \* a bound on the calls under way

ASSUME CryptoAssumption == Tagged \subseteq Value /\ MaxCall \in Nat

None == "none"
ASSUME NoneIsNoKey == None \notin Key

VARIABLES
    env,      \* process.env.KINARA_KEY
    active,   \* activeKey, which all apps of the process share
    rows,     \* rows[r]: what is stored, or Absent
    written,  \* history: the value a program last put into row r
    fresh,    \* history: the rows encrypted since the key was last set
    calls     \* calls on models under way, a set of Call

cryptoVars == <<env, active, rows, written, fresh, calls>>

Stored == [keys : Seq(Key), value : Value]   \* keys: outermost first
Absent == [keys |-> <<None>>]
Clear(v) == [keys |-> <<>>, value |-> v]

\* A save that awaits its collection, which a reset may throw away meanwhile, or
\* whose document is on its way to the server; a document on its way to a read.
\* value: what the document stands for; fresh: as of a row.
Call == [row : Row, stage : {"asked", "lost", "sent", "read"},
         form : Stored, value : Value, fresh : BOOLEAN]

CryptoTypeOK ==
    /\ env \in Key \cup {None} /\ active \in Key \cup {None}
    /\ \A r \in Row : rows[r] = Absent \/ (rows[r] \in Stored /\ Len(rows[r].keys) <= 1)
    /\ written \in [Row -> Value \cup {None}]
    /\ fresh \subseteq Row /\ calls \subseteq Call

CryptoInit ==
    /\ env \in Key \cup {None} /\ active = None
    /\ rows = [r \in Row |-> Absent] /\ written = [r \in Row |-> None]
    /\ fresh = {} /\ calls = {}

-----------------------------------------------------------------------------
\* The key.

\* The history of a call, as of a row, is up to the key being set.
Aged == {[m EXCEPT !.fresh = FALSE] : m \in calls}

\* setEncryptionKey.
SetKey(k) == active' = k /\ fresh' = {} /\ calls' = Aged /\ UNCHANGED <<env, rows, written>>

\* The program or a test changes the environment.
SetEnv(k) == env' = k /\ UNCHANGED <<active, rows, written, fresh, calls>>

\* Faulty: the environment is asked every time.
EnvFirst == IF env # None THEN env ELSE active

\* getEncryptionKey: the key in use, else the environment's, which is kept.
CurrentKey == IF active # None THEN active ELSE env

-----------------------------------------------------------------------------
\* Rows.

isEncrypted(s) == s.keys # <<>> \/ s.value \in Tagged

\* Faulty: what is encrypted already is encrypted again.
EncodeAgain(s) ==
    IF CurrentKey = None THEN {} ELSE {[s EXCEPT !.keys = <<CurrentKey>> \o s.keys]}

\* Faulty: without a key the field stays as it is.
EncodeIfKey(s) ==
    IF isEncrypted(s) \/ CurrentKey = None THEN {s} ELSE {[s EXCEPT !.keys = <<CurrentKey>>]}

\* encryptDocument: the forms a field may be stored in; none, it throws, when a
\* key is needed and there is none.
Encode(s) ==
    IF isEncrypted(s) THEN {s}
    ELSE IF CurrentKey = None THEN {}
    ELSE {[s EXCEPT !.keys = <<CurrentKey>>]}

\* decryptDocument: what a field is read as; nothing, it throws, for want of the
\* key or of a cipher under the prefix.
Decode(s) ==
    IF ~isEncrypted(s) THEN {s}
    ELSE IF CurrentKey = None \/ s.keys = <<>> \/ Head(s.keys) # CurrentKey THEN {}
    ELSE {[s EXCEPT !.keys = Tail(s.keys)]}

\* getEncryptionKey has been called, or not.
Keep(needed) == active' = IF needed THEN CurrentKey ELSE active

\* Query.insert, insertMany, Model.create and Query.update call collection(),
\* which looks the collection up, and await it.
Asks(r, s, v, f) ==
    /\ Cardinality(calls) < MaxCall
    /\ calls' = calls \cup {[row |-> r, stage |-> "asked", form |-> s, value |-> v, fresh |-> f]}
    /\ UNCHANGED <<env, active, rows, written, fresh>>

Save(r, v) == Asks(r, Clear(v), v, FALSE)

\* A row read past the model, its field still a cipher, is saved as another.
Copy(q, r) ==
    /\ q # r /\ rows[q] # Absent
    /\ Asks(r, rows[q], written[q], q \in fresh)

Writes(m) ==
    /\ rows' = [rows EXCEPT ![m.row] = m.form]
    /\ written' = [written EXCEPT ![m.row] = m.value]
    /\ fresh' = IF m.fresh THEN fresh \cup {m.row} ELSE fresh \ {m.row}

\* With its collection the save encodes, under the key of this moment; it throws,
\* or hands the document over: to the memory, which writes it at once, to the
\* server, or to nobody, when the collection refuses or no row matches.
Encodes(m, to) ==
    /\ m \in calls /\ m.stage \in {"asked", "lost"}
    /\ Keep(~isEncrypted(m.form))
    /\ LET encoded == {[m EXCEPT !.form = s, !.stage = "sent", !.fresh = @ \/ ~isEncrypted(m.form)] :
                           s \in Encode(m.form)}
       IN /\ calls' = (calls \ {m}) \cup (IF to = "server" THEN encoded ELSE {})
          /\ IF to = "memory" /\ encoded # {}
               THEN \E e \in encoded : Writes(e)
               ELSE UNCHANGED <<rows, written, fresh>>
    /\ UNCHANGED env

\* The server writes it.
Lands(m) ==
    /\ m \in calls /\ m.stage = "sent"
    /\ Writes(m)
    /\ calls' = calls \ {m}
    /\ UNCHANGED <<env, active>>

\* A read is given the document ...
Read(r) ==
    /\ rows[r] # Absent /\ Cardinality(calls) < MaxCall
    /\ calls' = calls \cup {[row |-> r, stage |-> "read", form |-> rows[r],
                             value |-> written[r], fresh |-> FALSE]}
    /\ UNCHANGED <<env, active, rows, written, fresh>>

\* ... and decodes it under the key of a later moment, or throws for the lack of
\* it or for another's cipher; the key it has found is kept either way.
Decodes(m) ==
    /\ m \in calls /\ m.stage = "read"
    /\ Keep(isEncrypted(m.form))
    /\ calls' = calls \ {m}
    /\ UNCHANGED <<env, rows, written, fresh>>

Destroy(r) ==
    /\ rows[r] # Absent
    /\ rows' = [rows EXCEPT ![r] = Absent]
    /\ written' = [written EXCEPT ![r] = None] /\ fresh' = fresh \ {r}
    /\ UNCHANGED <<env, active, calls>>

-----------------------------------------------------------------------------
\* What a read gives is the value that was saved, in the clear, whichever keys
\* came and went, before it began or since its document was read, and however
\* often its cipher was copied: or the read throws.
ReadsWhatWasSaved ==
    /\ \A r \in Row : rows[r] # Absent => Decode(rows[r]) \subseteq {Clear(written[r])}
    /\ \A m \in calls : m.stage = "read" => Decode(m.form) \subseteq {Clear(m.value)}

\* For want of a key a save fails; it never leaves the field in the clear,
\* neither in a row nor in a document on its way to one.
NeverClearAtRest ==
    /\ \A r \in Row : (rows[r] # Absent /\ rows[r].value \notin Tagged) => rows[r].keys # <<>>
    /\ \A m \in calls : (m.stage = "sent" /\ m.value \notin Tagged) => m.form.keys # <<>>

\* A row encrypted since the key was last set can be read, whatever becomes of
\* the environment meanwhile and whenever its document came to be written: the
\* key the save used is kept.
FreshRowsReadable ==
    \A r \in fresh : rows[r].value \notin Tagged => Decode(rows[r]) # {}
=============================================================================
