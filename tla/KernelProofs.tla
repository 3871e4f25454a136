---------------------------- MODULE KernelProofs ----------------------------
(* What holds of the process apps are created in for any apps, keys, rows,    *)
(* values and providers, whatever walks of createApp overlap.                 *)
EXTENDS Kernel, FiniteSetTheorems, TLAPS

-----------------------------------------------------------------------------
(* The encrypted field                                                       *)

Cipher(k, v) == [keys |-> <<k>>, value |-> v]

\* What a row may hold when v was saved: one key around it, or, when v passes
\* for a cipher itself, v.
Holding(s, v) ==
    /\ v \in Value
    /\ \/ s = Clear(v) /\ v \in Tagged
       \/ \E k \in Key : s = Cipher(k, v)

Keys == env \in Key \cup {None} /\ active \in Key \cup {None}

RowsHold ==
    /\ rows \in [Row -> Stored \cup {Absent}] /\ written \in [Row -> Value \cup {None}]
    /\ \A r \in Row : rows[r] = Absent \/ Holding(rows[r], written[r])

\* A row saved since the key was set holds the key in use.
FreshHold ==
    /\ fresh \subseteq Row
    /\ \A r \in fresh :
          /\ rows[r] # Absent
          /\ written[r] \notin Tagged => active # None /\ rows[r] = Cipher(active, written[r])

\* A document on its way holds what a row may; one that is to be encoded may be
\* in the clear.
CallHolds(m) ==
    /\ Holding(m.form, m.value) \/ (m.stage \in {"asked", "lost"} /\ m.form = Clear(m.value))
    /\ m.fresh /\ m.value \notin Tagged => active # None /\ m.form = Cipher(active, m.value)

CallsHold == calls \subseteq Call /\ \A m \in calls : CallHolds(m)

CryptoInv == Keys /\ RowsHold /\ FreshHold /\ CallsHold

LEMMA CipherShape ==
    ASSUME NEW k \in Key, NEW v \in Value
    PROVE  /\ Cipher(k, v) \in Stored /\ Cipher(k, v) # Absent
           /\ Cipher(k, v).keys = <<k>> /\ Cipher(k, v).value = v
           /\ isEncrypted(Cipher(k, v)) /\ Encode(Cipher(k, v)) = {Cipher(k, v)}
  <1>1. Cipher(k, v).keys = <<k>> /\ Cipher(k, v).value = v
    BY DEF Cipher
  <1>2. <<k>> \in Seq(Key) /\ <<k>> # <<>>
    OBVIOUS
  <1>3. Cipher(k, v) \in Stored
    BY <1>2 DEF Cipher, Stored
  <1>4. Cipher(k, v) # Absent
    <2>1. <<k>> # <<None>>
      BY NoneIsNoKey
    <2>2. Absent.keys = <<None>>
      BY DEF Absent
    <2>3. QED
      BY <1>1, <2>1, <2>2
  <1>5. isEncrypted(Cipher(k, v))
    BY <1>1, <1>2 DEF isEncrypted
  <1>6. QED
    BY <1>1, <1>3, <1>4, <1>5 DEF Encode

LEMMA ClearShape ==
    ASSUME NEW v \in Value
    PROVE  /\ Clear(v) \in Stored /\ Clear(v) # Absent
           /\ Clear(v).keys = <<>> /\ Clear(v).value = v
           /\ isEncrypted(Clear(v)) <=> v \in Tagged
  <1>1. Clear(v).keys = <<>> /\ Clear(v).value = v
    BY DEF Clear
  <1>2. Clear(v) \in Stored
    BY DEF Clear, Stored
  <1>3. Clear(v) # Absent
    <2>1. <<>> # <<None>>
      OBVIOUS
    <2>2. Absent.keys = <<None>>
      BY DEF Absent
    <2>3. QED
      BY <1>1, <2>1, <2>2
  <1>4. isEncrypted(Clear(v)) <=> v \in Tagged
    BY <1>1 DEF isEncrypted
  <1>5. QED
    BY <1>1, <1>2, <1>3, <1>4

\* What a row holds is stored as it is when it is saved again.
LEMMA HoldingShape ==
    ASSUME NEW s, NEW v, Holding(s, v)
    PROVE  /\ s \in Stored /\ s # Absent /\ s.value = v /\ isEncrypted(s) /\ Encode(s) = {s}
           /\ v \notin Tagged => \E k \in Key : s = Cipher(k, v)
  <1>1. v \in Value
    BY DEF Holding
  <1>2. CASE s = Clear(v) /\ v \in Tagged
    BY <1>1, <1>2, ClearShape DEF Encode
  <1>3. CASE \E k \in Key : s = Cipher(k, v)
    BY <1>1, <1>3, CipherShape
  <1>4. QED
    BY <1>2, <1>3 DEF Holding

\* What saving a value in the clear stores.
LEMMA Encoded ==
    ASSUME Keys, NEW v \in Value, NEW s \in Encode(Clear(v))
    PROVE  /\ Holding(s, v) /\ CurrentKey \in Key \cup {None}
           /\ v \notin Tagged => CurrentKey # None /\ s = Cipher(CurrentKey, v)
  <1>1. CurrentKey \in Key \cup {None}
    BY DEF Keys, CurrentKey
  <1>2. CASE v \in Tagged
    BY <1>1, <1>2, ClearShape DEF Encode, Holding
  <1>3. CASE v \notin Tagged
    <2>1. CurrentKey # None /\ s = [Clear(v) EXCEPT !.keys = <<CurrentKey>>]
      BY <1>3, ClearShape DEF Encode
    <2>2. s = Cipher(CurrentKey, v)
      BY <2>1 DEF Clear, Cipher
    <2>3. QED
      BY <1>1, <1>3, <2>1, <2>2 DEF Holding
  <1>4. QED
    BY <1>2, <1>3

\* A document that has been encoded is written, under a key that is kept.
LEMMA Written ==
    ASSUME Keys, RowsHold, FreshHold, active' \in {active, CurrentKey}, UNCHANGED env,
           NEW m \in Call, Holding(m.form, m.value), Writes(m),
           m.fresh /\ m.value \notin Tagged => active' # None /\ m.form = Cipher(active', m.value)
    PROVE  RowsHold' /\ FreshHold'
  <1> DEFINE r == m.row
             s == m.form
             v == m.value
  <1>1. active # None => active' = active
    BY DEF Keys, CurrentKey
  <1>2. v \in Value /\ s \in Stored /\ s # Absent
    BY HoldingShape DEF Holding
  <1>3. /\ rows' = [rows EXCEPT ![r] = s] /\ written' = [written EXCEPT ![r] = v]
        /\ fresh' \subseteq fresh \cup {r} /\ (r \in fresh' => m.fresh) /\ r \in Row
    BY DEF Writes, Call
  <1> HIDE DEF r, s, v
  <1>4. RowsHold'
    <2>1. rows' \in [Row -> Stored \cup {Absent}] /\ written' \in [Row -> Value \cup {None}]
      BY <1>2, <1>3 DEF RowsHold
    <2>2. ASSUME NEW q \in Row PROVE rows'[q] = Absent \/ Holding(rows'[q], written'[q])
      <3>1. CASE q = r
        <4>1. rows'[q] = s /\ written'[q] = v
          BY <1>3, <3>1 DEF RowsHold
        <4>2. Holding(s, v)
          BY DEF s, v
        <4>3. QED
          BY <4>1, <4>2
      <3>2. CASE q # r
        BY <1>3, <3>2 DEF RowsHold
      <3>3. QED
        BY <3>1, <3>2
    <2>3. QED
      BY <2>1, <2>2 DEF RowsHold, Holding
  <1>5. FreshHold'
    <2>1. fresh' \subseteq Row
      BY <1>3 DEF FreshHold
    <2>2. ASSUME NEW q \in fresh'
          PROVE  /\ rows'[q] # Absent
                 /\ written'[q] \notin Tagged => active' # None /\ rows'[q] = Cipher(active', written'[q])
      <3>1. CASE q = r
        <4>1. rows'[q] = s /\ written'[q] = v
          BY <1>3, <3>1 DEF RowsHold
        <4>2. v \notin Tagged => active' # None /\ s = Cipher(active', v)
          BY <1>3, <2>2, <3>1 DEF s, v
        <4>3. QED
          BY <1>2, <4>1, <4>2
      <3>2. CASE q # r
        BY <1>1, <1>3, <2>2, <3>2 DEF RowsHold, FreshHold
      <3>3. QED
        BY <3>1, <3>2
    <2>3. QED
      BY <2>1, <2>2 DEF FreshHold, Cipher
  <1>6. QED
    BY <1>4, <1>5

\* Calls stay as they are while the key does, or is found for the first time.
LEMMA CallsStay ==
    ASSUME Keys, CallsHold, active' \in {active, CurrentKey}, NEW m \in calls
    PROVE  CallHolds(m)'
  <1>1. active # None => active' = active
    BY DEF Keys, CurrentKey
  <1>2. CallHolds(m)
    BY DEF CallsHold
  <1>3. QED
    BY <1>1, <1>2 DEF CallHolds, Cipher, Holding, Clear

\* A save begins with the value in the clear, or with a document that is encrypted.
LEMMA AsksKeeps ==
    ASSUME CryptoInv, NEW r \in Row, NEW s, NEW v \in Value, NEW f \in BOOLEAN, Asks(r, s, v, f),
           Holding(s, v) \/ s = Clear(v),
           f /\ v \notin Tagged => active # None /\ s = Cipher(active, v)
    PROVE  CryptoInv'
  <1> DEFINE m == [row |-> r, stage |-> "asked", form |-> s, value |-> v, fresh |-> f]
  <1>1. calls' = calls \cup {m} /\ UNCHANGED <<env, active, rows, written, fresh>>
    BY DEF Asks
  <1>2. Keys' /\ RowsHold' /\ FreshHold'
    BY <1>1 DEF CryptoInv, Keys, RowsHold, FreshHold
  <1>3. s \in Stored
    BY HoldingShape, ClearShape
  <1>4. m \in Call /\ CallHolds(m)
    BY <1>3 DEF Call, CallHolds
  <1>5. \A n \in calls : n \in Call /\ CallHolds(n)
    BY DEF CryptoInv, CallsHold
  <1> HIDE DEF m
  <1>6. CallsHold'
    BY <1>1, <1>4, <1>5 DEF CallsHold, CallHolds, Cipher, Holding, Clear
  <1>7. QED
    BY <1>2, <1>6 DEF CryptoInv

LEMMA SavesKeep ==
    ASSUME CryptoInv, NEW r \in Row,
           (\E v \in Value : Save(r, v)) \/ (\E q \in Row : Copy(q, r))
    PROVE  CryptoInv'
  <1>1. ASSUME NEW v \in Value, Save(r, v) PROVE CryptoInv'
    BY <1>1, AsksKeeps DEF Save
  <1>2. ASSUME NEW q \in Row, Copy(q, r) PROVE CryptoInv'
    <2>1. rows[q] # Absent /\ Asks(r, rows[q], written[q], q \in fresh)
      BY <1>2 DEF Copy
    <2>2. Holding(rows[q], written[q])
      BY <2>1 DEF CryptoInv, RowsHold
    <2>3. q \in fresh /\ written[q] \notin Tagged => active # None /\ rows[q] = Cipher(active, written[q])
      BY DEF CryptoInv, FreshHold
    <2>4. written[q] \in Value /\ (q \in fresh) \in BOOLEAN
      BY <2>2 DEF Holding
    <2>5. QED
      BY <2>1, <2>2, <2>3, <2>4, AsksKeeps
  <1>3. QED
    BY <1>1, <1>2

\* What a save that has its collection makes of the document is what it stands for,
\* and, if it was in the clear, under the key that is kept from now on.
LEMMA EncodesKeeps ==
    ASSUME CryptoInv, NEW m \in calls, NEW to, Encodes(m, to)
    PROVE  CryptoInv'
  <1> DEFINE sent(s) == [m EXCEPT !.form = s, !.stage = "sent", !.fresh = @ \/ ~isEncrypted(m.form)]
  <1>1. m \in Call /\ CallHolds(m) /\ m.stage \in {"asked", "lost"}
    BY DEF CryptoInv, CallsHold, Encodes
  <1>2. Keys' /\ active' \in {active, CurrentKey} /\ UNCHANGED env
    BY DEF Encodes, Keep, CryptoInv, Keys, CurrentKey
  <1>3. ASSUME NEW s \in Encode(m.form)
        PROVE  /\ sent(s) \in Call /\ Holding(sent(s).form, sent(s).value)
               /\ (sent(s).fresh /\ sent(s).value \notin Tagged =>
                      active' # None /\ sent(s).form = Cipher(active', sent(s).value))
    <2> DEFINE v == m.value
    <2>0. v \in Value
      BY <1>1 DEF Call
    <2>1. CASE Holding(m.form, v)
      <3>1. isEncrypted(m.form) /\ s = m.form /\ m.form \in Stored
        BY <2>1, HoldingShape
      <3>2. active' = active
        BY <3>1 DEF Encodes, Keep
      <3>3. /\ sent(s).row = m.row /\ sent(s).stage = "sent" /\ sent(s).form = m.form
            /\ sent(s).value = v /\ (sent(s).fresh <=> m.fresh) /\ sent(s) \in Call
        BY <1>1, <3>1 DEF Call
      <3> HIDE DEF sent
      <3>4. QED
        BY <1>1, <2>1, <3>2, <3>3 DEF CallHolds
    <2>2. CASE m.form = Clear(v) /\ v \notin Tagged
      <3>1. ~isEncrypted(m.form)
        BY <2>0, <2>2, ClearShape
      <3>2. Holding(s, v) /\ CurrentKey # None /\ s = Cipher(CurrentKey, v)
        BY <2>0, <2>2, Encoded DEF CryptoInv
      <3>3. active' = CurrentKey /\ s \in Stored
        BY <3>1, <3>2, HoldingShape DEF Encodes, Keep
      <3>4. sent(s).form = s /\ sent(s).value = v /\ sent(s) \in Call
        BY <1>1, <3>1, <3>3 DEF Call
      <3> HIDE DEF sent
      <3>5. QED
        BY <3>2, <3>3, <3>4 DEF Cipher
    <2>3. CASE m.form = Clear(v) /\ v \in Tagged
      BY <2>0, <2>1, <2>3 DEF Holding
    <2>4. QED
      BY <1>1, <2>1, <2>2, <2>3 DEF CallHolds
  <1>4. RowsHold' /\ FreshHold'
    <2>1. CASE UNCHANGED <<rows, written, fresh>>
      BY <1>2, <2>1 DEF CryptoInv, Keys, CurrentKey, RowsHold, FreshHold
    <2>2. ASSUME NEW s \in Encode(m.form), Writes(sent(s)) PROVE RowsHold' /\ FreshHold'
      <3>1. /\ sent(s) \in Call /\ Holding(sent(s).form, sent(s).value)
            /\ (sent(s).fresh /\ sent(s).value \notin Tagged =>
                   active' # None /\ sent(s).form = Cipher(active', sent(s).value))
        BY <1>3
      <3> HIDE DEF sent
      <3>2. QED
        BY <1>2, <2>2, <3>1, Written DEF CryptoInv
    <2>3. QED
      BY <2>1, <2>2 DEF Encodes
  <1>5. CallsHold'
    <2>1. \A c \in calls' : c \in calls \/ \E s \in Encode(m.form) : c = sent(s)
      BY DEF Encodes
    <2>2. ASSUME NEW c \in calls PROVE c \in Call /\ CallHolds(c)'
      BY <1>2, CallsStay DEF CryptoInv, CallsHold
    <2>3. ASSUME NEW s \in Encode(m.form) PROVE sent(s) \in Call /\ CallHolds(sent(s))'
      <3>1. /\ sent(s) \in Call /\ Holding(sent(s).form, sent(s).value)
            /\ (sent(s).fresh /\ sent(s).value \notin Tagged =>
                   active' # None /\ sent(s).form = Cipher(active', sent(s).value))
        BY <1>3
      <3> DEFINE c == sent(s)
      <3> HIDE DEF c
      <3>2. c \in Call /\ CallHolds(c)'
        BY <3>1 DEF c, CallHolds, Holding, Clear, Cipher
      <3>3. QED
        BY <3>2 DEF c
    <2> HIDE DEF sent
    <2>4. QED
      BY <2>1, <2>2, <2>3 DEF CallsHold
  <1>6. QED
    BY <1>2, <1>4, <1>5 DEF CryptoInv

LEMMA CallStepKeeps ==
    ASSUME CryptoInv, NEW m \in calls, (\E to \in Taken(m) : Encodes(m, to)) \/ Lands(m) \/ Decodes(m)
    PROVE  CryptoInv'
  <1>1. m \in Call /\ CallHolds(m)
    BY DEF CryptoInv, CallsHold
  <1>2. CASE Lands(m)
    <2>1. UNCHANGED <<env, active>> /\ calls' \subseteq calls /\ Writes(m) /\ m.stage = "sent"
      BY <1>2 DEF Lands
    <2>2. RowsHold' /\ FreshHold'
      BY <1>1, <2>1, Written DEF CallHolds, CryptoInv
    <2>3. \A c \in calls' : c \in Call /\ CallHolds(c)'
      BY <2>1, CallsStay DEF CryptoInv, CallsHold
    <2>4. QED
      BY <2>1, <2>2, <2>3 DEF CryptoInv, Keys, CallsHold
  <1>3. CASE Decodes(m)
    <2>1. active' \in {active, CurrentKey} /\ calls' \subseteq calls /\ UNCHANGED <<env, rows, written, fresh>>
      BY <1>3 DEF Decodes, Keep
    <2>2. Keys' /\ RowsHold' /\ FreshHold'
      BY <2>1 DEF CryptoInv, Keys, CurrentKey, RowsHold, FreshHold
    <2>3. \A c \in calls' : c \in Call /\ CallHolds(c)'
      BY <2>1, CallsStay DEF CryptoInv, CallsHold
    <2>4. QED
      BY <2>2, <2>3 DEF CryptoInv, CallsHold
  <1>4. QED
    BY <1>2, <1>3, EncodesKeeps

LEMMA RowStepKeeps ==
    ASSUME CryptoInv, NEW r \in Row, Read(r) \/ Destroy(r)
    PROVE  CryptoInv'
  <1>1. CASE Read(r)
    <2> DEFINE m == [row |-> r, stage |-> "read", form |-> rows[r], value |-> written[r], fresh |-> FALSE]
    <2>1. calls' = calls \cup {m} /\ UNCHANGED <<env, active, rows, written, fresh>> /\ rows[r] # Absent
      BY <1>1 DEF Read
    <2>2. Keys' /\ RowsHold' /\ FreshHold'
      BY <2>1 DEF CryptoInv, Keys, RowsHold, FreshHold
    <2>3. Holding(rows[r], written[r]) /\ rows[r] \in Stored /\ written[r] \in Value
      BY <2>1, HoldingShape DEF CryptoInv, RowsHold, Holding
    <2>4. m \in Call /\ CallHolds(m)
      BY <2>3 DEF Call, CallHolds
    <2>5. \A n \in calls : n \in Call /\ CallHolds(n)
      BY DEF CryptoInv, CallsHold
    <2> HIDE DEF m
    <2>6. CallsHold'
      BY <2>1, <2>4, <2>5 DEF CallsHold, CallHolds, Cipher, Holding, Clear
    <2>7. QED
      BY <2>2, <2>6 DEF CryptoInv
  <1>2. CASE Destroy(r)
    <2>1. Keys'
      BY <1>2 DEF Destroy, CryptoInv, Keys
    <2>2. RowsHold'
      BY <1>2 DEF Destroy, CryptoInv, RowsHold
    <2>3. FreshHold'
      BY <1>2 DEF Destroy, CryptoInv, RowsHold, FreshHold
    <2>4. CallsHold'
      BY <1>2 DEF Destroy, CryptoInv, CallsHold, CallHolds
    <2>5. QED
      BY <2>1, <2>2, <2>3, <2>4 DEF CryptoInv
  <1>3. QED
    BY <1>1, <1>2

\* What is no longer counted as fresh holds under any key.
LEMMA AgedHold ==
    ASSUME CryptoInv, NEW n \in Aged
    PROVE  /\ n \in Call /\ ~n.fresh
           /\ Holding(n.form, n.value) \/ (n.stage \in {"asked", "lost"} /\ n.form = Clear(n.value))
  <1>1. PICK m \in calls : n = [m EXCEPT !.fresh = FALSE]
    BY DEF Aged
  <1>2. m \in Call /\ CallHolds(m)
    BY DEF CryptoInv, CallsHold
  <1>3. /\ n.form = m.form /\ n.value = m.value /\ n.stage = m.stage /\ ~n.fresh
        /\ n \in Call
    BY <1>1, <1>2 DEF Call
  <1>4. QED
    BY <1>2, <1>3 DEF CallHolds

\* The key or the environment is set, by whomever.
LEMMA KeyStepKeeps ==
    ASSUME CryptoInv, NEW k \in Key \cup {None}, SetKey(k) \/ SetEnv(k)
    PROVE  CryptoInv'
  <1>1. Keys' /\ RowsHold' /\ FreshHold'
    BY DEF SetKey, SetEnv, CryptoInv, Keys, RowsHold, FreshHold
  <1>2. CASE SetKey(k)
    <2>1. \A n \in calls' : n \in Call /\ CallHolds(n)'
      BY <1>2, AgedHold DEF SetKey, CallHolds, Holding, Clear, Cipher
    <2>2. QED
      BY <1>1, <2>1 DEF CryptoInv, CallsHold
  <1>3. CASE SetEnv(k)
    <2>1. CallsHold'
      BY <1>3 DEF SetEnv, CryptoInv, CallsHold, CallHolds
    <2>2. QED
      BY <1>1, <2>1 DEF CryptoInv
  <1>4. QED
    BY <1>2, <1>3

LEMMA CryptoSame ==
    ASSUME CryptoInv, UNCHANGED cryptoVars
    PROVE  CryptoInv'
  BY DEF cryptoVars, CryptoInv, Keys, RowsHold, FreshHold, CallsHold, CallHolds

LEMMA CryptoInitially == CryptoInit => CryptoInv
  BY DEF CryptoInit, CryptoInv, Keys, RowsHold, FreshHold, CallsHold

\* What a document holds is read as the value it stands for, or not at all.
LEMMA HoldingDecoded ==
    ASSUME Keys, NEW s, NEW v, Holding(s, v)
    PROVE  /\ Decode(s) \subseteq {Clear(v)} /\ s.value = v
           /\ v \notin Tagged => s.keys # <<>>
           /\ active # None /\ s = Cipher(active, v) => Decode(s) # {}
  <1>1. v \in Value /\ s.value = v /\ isEncrypted(s)
    BY HoldingShape DEF Holding
  <1>2. CASE s = Clear(v) /\ v \in Tagged
    <2>1. s.keys = <<>> /\ Decode(s) = {}
      BY <1>1, <1>2, ClearShape DEF Decode
    <2>2. active # None => s # Cipher(active, v)
      BY <2>1 DEF Cipher
    <2>3. QED
      BY <1>1, <1>2, <2>1, <2>2
  <1>3. ASSUME NEW k \in Key, s = Cipher(k, v)
        PROVE  /\ Decode(s) \subseteq {Clear(v)} /\ s.keys # <<>>
               /\ active # None /\ s = Cipher(active, v) => Decode(s) # {}
    <2>1. s.keys = <<k>> /\ <<k>> # <<>> /\ Head(<<k>>) = k /\ Tail(<<k>>) = <<>>
      BY <1>1, <1>3, CipherShape
    <2>2. [s EXCEPT !.keys = <<>>] = Clear(v)
      BY <1>3 DEF Cipher, Clear
    <2>3. k # None
      BY NoneIsNoKey
    <2>4. s = Cipher(active, v) => active = k
      <3>1. Cipher(active, v).keys = <<active>> /\ Head(<<active>>) = active
        BY DEF Cipher
      <3>2. QED
        BY <2>1, <3>1
    <2>5. QED
      BY <1>1, <2>1, <2>2, <2>3, <2>4 DEF Decode, CurrentKey
  <1>4. QED
    BY <1>1, <1>2, <1>3 DEF Holding

LEMMA CryptoHolds ==
    ASSUME CryptoInv
    PROVE  ReadsWhatWasSaved /\ NeverClearAtRest /\ FreshRowsReadable
  <1>1. ASSUME NEW r \in Row, rows[r] # Absent
        PROVE  /\ Decode(rows[r]) \subseteq {Clear(written[r])}
               /\ rows[r].value \notin Tagged => rows[r].keys # <<>>
               /\ r \in fresh => (rows[r].value \notin Tagged => Decode(rows[r]) # {})
    <2>1. Holding(rows[r], written[r])
      BY <1>1 DEF CryptoInv, RowsHold
    <2>2. r \in fresh /\ written[r] \notin Tagged => active # None /\ rows[r] = Cipher(active, written[r])
      BY DEF CryptoInv, FreshHold
    <2>3. /\ Decode(rows[r]) \subseteq {Clear(written[r])} /\ rows[r].value = written[r]
          /\ written[r] \notin Tagged => rows[r].keys # <<>>
          /\ active # None /\ rows[r] = Cipher(active, written[r]) => Decode(rows[r]) # {}
      BY <2>1, HoldingDecoded DEF CryptoInv
    <2>4. QED
      BY <2>2, <2>3
  <1>2. ASSUME NEW m \in calls, m.stage \in {"sent", "read"}
        PROVE  /\ Decode(m.form) \subseteq {Clear(m.value)}
               /\ m.value \notin Tagged => m.form.keys # <<>>
    <2>1. Holding(m.form, m.value)
      BY <1>2 DEF CryptoInv, CallsHold, CallHolds
    <2>2. QED
      BY <2>1, HoldingDecoded DEF CryptoInv
  <1>3. \A r \in fresh : r \in Row /\ rows[r] # Absent
    BY DEF CryptoInv, FreshHold
  <1>4. QED
    BY <1>1, <1>2, <1>3 DEF ReadsWhatWasSaved, NeverClearAtRest, FreshRowsReadable

-----------------------------------------------------------------------------
(* The container                                                             *)

\* One object at most is cached, made as the last registration says or kept by it
\* on purpose; make() has given out no other; a resolver that is still to be
\* called is that of the last registration.
ContainerInv ==
    /\ binding \in Nat /\ last \in [number : Nat, kept : BOOLEAN, gone : BOOLEAN]
    /\ \A o, p \in instance : o = p
    /\ handed \subseteq instance
    /\ \A o \in instance : o.from = last.number \/ last.kept
    /\ instance = {} /\ binding # 0 => binding = last.number

LEMMA ContainerInitially == ContainerInit => ContainerInv
  BY DEF ContainerInit, ContainerInv

LEMMA ContainerSame ==
    ASSUME ContainerInv, UNCHANGED containerVars
    PROVE  ContainerInv'
  BY DEF ContainerInv, containerVars

\* A registration of any kind binds the key.
LEMMA RegistersKeep ==
    ASSUME ContainerInv, Registers
    PROVE  ContainerInv' /\ bound'
  <1>1. CASE Bind
    BY <1>1 DEF Bind, Register, ContainerInv, bound
  <1>2. CASE Singleton
    <2>1. /\ last' = [number |-> last.number + 1, kept |-> instance # {}, gone |-> FALSE]
          /\ binding' = last.number + 1 /\ instance' = instance /\ handed' = {}
      BY <1>2 DEF Singleton, Register
    <2>2. last' \in [number : Nat, kept : BOOLEAN, gone : BOOLEAN]
      BY <2>1 DEF ContainerInv
    <2>3. last'.number = last.number + 1 /\ (last'.kept <=> instance # {})
      BY <2>1
    <2>4. last.number \in Nat
      BY DEF ContainerInv
    <2>5. QED
      BY <2>1, <2>2, <2>3, <2>4 DEF ContainerInv, bound
  <1>3. CASE Instance
    <2> DEFINE o == [from |-> last.number + 1, nth |-> 0]
    <2>1. o.from = last.number + 1
      OBVIOUS
    <2>2. last' = [number |-> last.number + 1, kept |-> FALSE, gone |-> FALSE] /\ last.number \in Nat
      BY <1>3 DEF Instance, Register, ContainerInv
    <2>3. last' \in [number : Nat, kept : BOOLEAN, gone : BOOLEAN] /\ last'.number = last.number + 1
      BY <2>2
    <2>4. instance' = {o} /\ handed' = {} /\ binding' = binding
      BY <1>3 DEF Instance, Register
    <2> HIDE DEF o
    <2>5. QED
      BY <2>1, <2>3, <2>4 DEF ContainerInv, bound
  <1>4. QED
    BY <1>1, <1>2, <1>3 DEF Registers

\* What is bound stays so until it is forgotten.
LEMMA ServiceStepKeeps ==
    ASSUME ContainerInv, ServiceStep
    PROVE  ContainerInv' /\ ((bound \/ last.gone) => (bound \/ last.gone)')
  <1>1. CASE Registers
    BY <1>1, RegistersKeep
  <1>2. CASE Make
    <2>1. CASE instance # {}
      BY <1>2, <2>1 DEF Make, ContainerInv, bound
    <2>2. CASE instance = {}
      <3>1. binding # 0 /\ binding = last.number
        BY <1>2, <2>2 DEF Make, bound, ContainerInv
      <3> DEFINE o == [from |-> binding, nth |-> objects + 1]
      <3>2. instance' = {o} /\ handed' = handed \cup {o} /\ o.from = binding
        BY <1>2, <2>2 DEF Make, Kept
      <3> HIDE DEF o
      <3>3. handed' \subseteq instance'
        BY <2>2, <3>2 DEF ContainerInv
      <3>4. UNCHANGED <<binding, last>>
        BY <1>2 DEF Make
      <3>5. QED
        BY <3>1, <3>2, <3>3, <3>4 DEF ContainerInv, bound
    <2>3. QED
      BY <2>1, <2>2
  <1>3. CASE Forget
    BY <1>3 DEF Forget, ContainerInv
  <1>4. QED
    BY <1>1, <1>2, <1>3 DEF ServiceStep

LEMMA ContainerHolds == ContainerInv => MadeAsRegistered
  <1> SUFFICES ASSUME ContainerInv PROVE MadeAsRegistered
    OBVIOUS
  <1>1. handed = {} \/ \E o : handed = {o}
    <2>1. ASSUME NEW o \in handed PROVE handed = {o}
      BY DEF ContainerInv
    <2>2. QED
      BY <2>1
  <1>2. Cardinality(handed) <= 1
    BY <1>1, FS_EmptySet, FS_Singleton
  <1>3. QED
    BY <1>2 DEF ContainerInv, MadeAsRegistered

-----------------------------------------------------------------------------
(* The walks of createApp                                                    *)

Early == {"config", "mongo"}
Late == {"wiring", "register", "files", "boot", "ready"}

\* An app that has begun since the last reset is counted among those sharing the
\* process, and while no walk was under way at the reset nobody else is.
Shared ==
    /\ at \in [App -> [phase : Phase, i : Nat]] /\ sharing \subseteq App
    /\ secret \in [App -> Key \cup {None}]
    /\ \A a \in sharing : at[a].phase # "new"
    /\ ~disturbed => \A a \in App : UnderWay(a) => a \in sharing

\* What one that is alone has set so far.
Alone ==
    /\ ~disturbed /\ sharing = {} => resolver = None
    /\ \A a \in App : sharing = {a} => current = a
    /\ \A a \in App : sharing = {a} /\ ~disturbed =>
           /\ at[a].phase = "mongo" => Config[a].mongo
           /\ at[a].phase \in Early => resolver = None
           /\ at[a].phase \in Late => resolver = IF Config[a].mongo THEN a ELSE None
           /\ (at[a].phase \in Late \cup {"mongo"} /\ secret[a] # None) => active = secret[a]

\* The provider that registers the key has done so, or its turn is to come.
Registering ==
    LET s == at[Watched] IN
    \/ bound \/ last.gone
    \/ s.phase \in {"new", "config", "mongo", "wiring", "ready", "failed"}
    \/ s.phase = "register" /\ s.i \in Nat /\ \A j \in Registrar : s.i <= j
    \/ Registrar = {}

IInv == CryptoInv /\ ContainerInv /\ Shared /\ Alone /\ Registering

LEMMA Initially == Init => IInv
  <1> SUFFICES ASSUME Init PROVE IInv
    OBVIOUS
  <1>1. CryptoInv /\ ContainerInv
    BY CryptoInitially, ContainerInitially DEF Init
  <1>2. Shared
    BY DEF Init, Shared, Stop, Phase, UnderWay
  <1>3. Alone /\ Registering
    BY KernelAssumption DEF Init, Alone, Registering, Stop
  <1>4. QED
    BY <1>1, <1>2, <1>3 DEF IInv

LEMMA CreateKeeps ==
    ASSUME IInv, NEW a \in App, Create(a)
    PROVE  IInv'
  <1> USE DEF IInv
  <1>1. CryptoInv'
    BY KernelAssumption DEF Create, DotEnv, CryptoInv, Keys, RowsHold, FreshHold, CallsHold, CallHolds
  <1>2. ContainerInv'
    BY ContainerSame DEF Create
  <1>3. at' = [at EXCEPT ![a] = Stop("config")] /\ Stop("config") \in [phase : Phase, i : Nat]
        /\ at[a].phase = "new" /\ Stop("config").phase = "config"
    BY DEF Create, Stop, Phase
  <1>4. Shared'
    BY <1>3 DEF Create, Shared, UnderWay
  <1>5. Alone'
    BY <1>3 DEF Create, Shared, Alone, Early, Late
  <1>6. Registering'
    BY <1>3, KernelAssumption DEF Create, Shared, Registering, containerVars, bound
  <1>7. QED
    BY <1>1, <1>2, <1>4, <1>5, <1>6

LEMMA ConfiguredKeeps ==
    ASSUME IInv, NEW a \in App, Configured(a)
    PROVE  IInv'
  <1> USE DEF IInv
  <1> DEFINE k == IF Config[a].key # None THEN Config[a].key ELSE env
             s == Stop(IF Config[a].mongo THEN "mongo" ELSE "wiring")
  <1>1. k \in Key \cup {None} /\ Config[a].mongo \in BOOLEAN
    BY KernelAssumption DEF CryptoInv, Keys
  <1>2. /\ secret' = [secret EXCEPT ![a] = k] /\ at' = [at EXCEPT ![a] = s]
        /\ IF k # None THEN SetKey(k) ELSE UNCHANGED cryptoVars
        /\ at[a].phase = "config" /\ UNCHANGED <<containerVars, current, resolver, closed, sharing, disturbed>>
    BY DEF Configured
  <1>3. /\ s \in [phase : Phase, i : Nat]
        /\ s.phase = IF Config[a].mongo THEN "mongo" ELSE "wiring"
    BY <1>1 DEF Stop, Phase
  <1>4. k # None => active' = k
    BY <1>2 DEF SetKey
  <1> HIDE DEF k, s
  <1>5. CryptoInv'
    BY <1>1, <1>2, KeyStepKeeps, CryptoSame
  <1>6. ContainerInv'
    BY <1>2, ContainerSame
  <1>7. Shared'
    BY <1>1, <1>2, <1>3 DEF Shared, UnderWay
  <1>8. Alone'
    <2>1. \A b \in App : sharing = {b} /\ ~disturbed => b = a
      BY <1>2 DEF Shared, UnderWay
    <2>2. secret'[a] = k /\ at'[a] = s
      BY <1>2 DEF Shared
    <2>3. at[a].phase \in Early
      BY <1>2 DEF Early
    <2>4. QED
      BY <1>1, <1>2, <1>3, <1>4, <2>1, <2>2, <2>3 DEF Alone, Early, Late
  <1>9. Registering'
    BY <1>2, <1>3 DEF Shared, Registering, containerVars, bound
  <1>10. QED
    BY <1>5, <1>6, <1>7, <1>8, <1>9

LEMMA ConnectedKeeps ==
    ASSUME IInv, NEW a \in App, Connected(a)
    PROVE  IInv'
  <1> USE DEF IInv
  <1>1. CryptoInv' /\ ContainerInv'
    BY CryptoSame, ContainerSame DEF Connected
  <1>2. /\ at' = [at EXCEPT ![a] = Stop("wiring")] /\ at[a].phase = "mongo"
        /\ Stop("wiring") \in [phase : Phase, i : Nat] /\ Stop("wiring").phase = "wiring"
    BY DEF Connected, Stop, Phase
  <1>3. Shared'
    BY <1>2 DEF Connected, Shared, UnderWay
  <1>4. Alone'
    <2>1. \A b \in App : sharing = {b} /\ ~disturbed => b = a
      BY <1>2 DEF Shared, UnderWay
    <2>2. ~disturbed => sharing # {}
      BY <1>2 DEF Shared, UnderWay
    <2>3. sharing = {a} /\ ~disturbed =>
             current = a /\ Config[a].mongo /\ (secret[a] # None => active = secret[a])
      BY <1>2 DEF Alone
    <2>4. /\ at'[a].phase = "wiring" /\ resolver' = a
          /\ UNCHANGED <<active, current, secret, sharing, disturbed>>
      BY <1>2 DEF Connected, Binds, cryptoVars, Shared
    <2>5. \A b \in App : sharing = {b} => current = b
      BY DEF Alone
    <2>6. QED
      BY <2>1, <2>2, <2>3, <2>4, <2>5 DEF Alone, Early, Late
  <1>5. Registering'
    BY <1>2 DEF Connected, Shared, Registering, containerVars, bound
  <1>6. QED
    BY <1>1, <1>3, <1>4, <1>5

LEMMA GoesKeeps ==
    ASSUME IInv, NEW a \in App, Goes(a)
    PROVE  IInv'
  <1> USE DEF IInv
  <1> DEFINE s == After(at[a])
  <1>1. /\ at[a] \in [phase : Phase, i : Nat] /\ at[a].phase \in {"wiring", "register", "files", "boot"}
        /\ at' = [at EXCEPT ![a] = s]
    BY DEF Goes, Shared
  <1>2. /\ s \in [phase : Phase, i : Nat] /\ s.phase \in Late \ {"wiring"}
        /\ s.phase = "register" => \/ at[a].phase = "wiring" /\ s.i = 1
                                   \/ at[a].phase = "register" /\ s.i = at[a].i + 1
        /\ s.phase # "register" => s.phase = "ready" \/ at[a].phase \in {"files", "boot"}
                                   \/ (at[a].phase = "register" /\ at[a].i >= Providers)
    <2>1. CASE at[a].phase = "wiring"
      <3>1. s = [phase |-> "register", i |-> 1]
        BY <2>1 DEF After
      <3>2. s.phase = "register" /\ s.i = 1
        BY <3>1
      <3>3. s \in [phase : Phase, i : Nat]
        BY <3>1 DEF Phase
      <3> HIDE DEF s
      <3>4. s.phase \in Late \ {"wiring"}
        BY <3>2 DEF Late
      <3>5. QED
        BY <2>1, <3>2, <3>3, <3>4
    <2>2. CASE at[a].phase = "register" /\ at[a].i < Providers
      <3>1. s = [at[a] EXCEPT !.i = at[a].i + 1]
        BY <2>2 DEF After
      <3>2. s.phase = "register" /\ s.i = at[a].i + 1 /\ s \in [phase : Phase, i : Nat]
        BY <1>1, <2>2, <3>1
      <3>3. QED
        BY <2>2, <3>2 DEF Late
    <2>3. CASE at[a].phase = "register" /\ ~(at[a].i < Providers)
      BY <1>1, <2>3, KernelAssumption DEF After, Late, Phase, Stop
    <2>4. CASE at[a].phase = "files"
      BY <1>1, <2>4 DEF After, Late, Phase
    <2>5. CASE at[a].phase = "boot"
      BY <1>1, <2>5 DEF After, Late, Phase, Stop
    <2>6. QED
      BY <1>1, <2>1, <2>2, <2>3, <2>4, <2>5
  <1> HIDE DEF s
  <1>3. CryptoInv'
    BY CryptoSame DEF Goes
  <1>4. ContainerInv' /\ ((bound \/ last.gone) => (bound \/ last.gone)')
    <2>1. CASE Registers
      BY <2>1, ServiceStepKeeps DEF ServiceStep
    <2>2. CASE UNCHANGED containerVars
      BY <2>2, ContainerSame DEF containerVars, bound
    <2>3. QED
      BY <2>1, <2>2 DEF Goes
  <1>5. Shared'
    BY <1>1, <1>2 DEF Goes, Shared, UnderWay, Late
  <1>6. Alone'
    BY <1>1, <1>2 DEF Goes, cryptoVars, Shared, Alone, Early, Late
  <1>7. Registering'
    <2>1. CASE bound \/ last.gone \/ Registrar = {}
      BY <1>4, <2>1 DEF Registering
    <2>2. CASE a # Watched /\ ~(bound \/ last.gone)
      <3>1. at'[Watched] = at[Watched]
        BY <1>1, <2>2 DEF Shared
      <3>2. UNCHANGED containerVars
        BY <2>2 DEF Goes
      <3>3. QED
        BY <3>1, <3>2 DEF Registering, containerVars, bound
    <2>3. CASE a = Watched /\ ~(bound \/ last.gone) /\ Registrar # {}
      <3>1. at'[Watched] = s
        BY <1>1, <2>3 DEF Shared
      <3>2. CASE at[a].phase = "register" /\ at[a].i \in Registrar
        BY <2>3, <3>2, RegistersKeep DEF Goes, Registering
      <3>3. CASE at[a].phase = "register" /\ at[a].i \notin Registrar
        <4>1. \A j \in Registrar : j \in 1..Providers /\ at[a].i <= j /\ at[a].i # j
          BY <2>3, <3>3, KernelAssumption DEF Registering
        <4>2. \A j \in Registrar : at[a].i + 1 <= j /\ ~(at[a].i >= Providers)
          BY <1>1, <4>1, KernelAssumption
        <4>3. QED
          BY <1>2, <2>3, <3>1, <3>3, <4>2 DEF Registering
      <3>4. CASE at[a].phase = "wiring"
        BY <1>2, <3>1, <3>4, KernelAssumption DEF Registering
      <3>5. CASE at[a].phase \in {"files", "boot"}
        BY <2>3, <3>5 DEF Registering
      <3>6. QED
        BY <1>1, <3>2, <3>3, <3>4, <3>5
    <2>4. QED
      BY <2>1, <2>2, <2>3
  <1>8. QED
    BY <1>3, <1>4, <1>5, <1>6, <1>7

\* What a walk that fails has set stays, and it holds nothing to be found.
LEMMA CreateFailsKeeps ==
    ASSUME IInv, NEW a \in App, CreateFails(a)
    PROVE  IInv'
  <1> USE DEF IInv
  <1>1. CryptoInv' /\ ContainerInv'
    BY CryptoSame, ContainerSame DEF CreateFails
  <1>2. /\ at' = [at EXCEPT ![a] = Stop("failed")]
        /\ Stop("failed") \in [phase : Phase, i : Nat] /\ Stop("failed").phase = "failed"
    BY DEF CreateFails, Stop, Phase
  <1>3. Shared'
    BY <1>2 DEF CreateFails, Shared, UnderWay
  <1>4. Alone'
    BY <1>2 DEF CreateFails, cryptoVars, Shared, Alone, Early, Late
  <1>5. Registering'
    BY <1>2 DEF CreateFails, Shared, Registering, containerVars, bound
  <1>6. QED
    BY <1>1, <1>3, <1>4, <1>5

LEMMA ResetKeeps == IInv /\ Reset => IInv'
  <1> SUFFICES ASSUME IInv, Reset PROVE IInv'
    OBVIOUS
  <1> USE DEF IInv
  <1>1. CryptoInv'
    <2>1. Keys' /\ RowsHold' /\ FreshHold'
      BY DEF Reset, CryptoInv, Keys, RowsHold, FreshHold
    <2>2. ASSUME NEW n \in Aged PROVE Astray(n) \in Call /\ CallHolds(Astray(n))'
      <3>1. /\ n \in Call /\ ~n.fresh
            /\ Holding(n.form, n.value) \/ (n.stage \in {"asked", "lost"} /\ n.form = Clear(n.value))
        BY AgedHold
      <3>2. CASE Astray(n) = n
        BY <3>1, <3>2 DEF CallHolds, Holding, Clear, Cipher
      <3>3. CASE n.stage = "asked" /\ Astray(n) = [n EXCEPT !.stage = "lost"]
        <4> DEFINE c == Astray(n)
        <4>1. /\ c \in Call /\ ~c.fresh /\ c.stage = "lost" /\ c.form = n.form /\ c.value = n.value
          BY <3>1, <3>3 DEF Call
        <4> HIDE DEF c
        <4>2. c \in Call /\ CallHolds(c)'
          BY <3>1, <4>1 DEF CallHolds, Holding, Clear, Cipher
        <4>3. QED
          BY <4>2 DEF c
      <3>4. QED
        BY <3>2, <3>3 DEF Astray
    <2>3. \A c \in calls' : \E n \in Aged : c = Astray(n)
      BY DEF Reset
    <2>4. CallsHold'
      BY <2>2, <2>3 DEF CallsHold
    <2>5. QED
      BY <2>1, <2>4 DEF CryptoInv
  <1>2. ContainerInv'
    BY ContainerSame DEF Reset
  <1>3. Shared'
    BY DEF Reset, Shared, UnderWay
  <1>4. Alone'
    BY DEF Reset, Unbind, Alone
  <1>5. Registering'
    BY DEF Reset, Registering, containerVars, bound
  <1>6. QED
    BY <1>1, <1>2, <1>3, <1>4, <1>5

LEMMA SetsKeyKeeps == IInv /\ SetsKey => IInv'
  <1> SUFFICES ASSUME IInv, SetsKey PROVE IInv'
    OBVIOUS
  <1> USE DEF IInv
  <1>1. CryptoInv'
    BY KeyStepKeeps DEF SetsKey
  <1>2. ContainerInv'
    BY ContainerSame DEF SetsKey
  <1>3. disturbed' \/ (disturbed' = disturbed /\ active' = active)
    BY DEF SetsKey, SetEnv
  <1>4. UNCHANGED <<containerVars, at, current, resolver, secret, sharing>>
        /\ (disturbed => disturbed')
    BY DEF SetsKey
  <1>5. Shared' /\ Registering'
    BY <1>4 DEF Shared, UnderWay, Registering, containerVars, bound
  <1>6. Alone'
    BY <1>3, <1>4 DEF Alone
  <1>7. QED
    BY <1>1, <1>2, <1>5, <1>6

LEMMA UsesModelKeeps == IInv /\ UsesModel => IInv'
  <1> SUFFICES ASSUME IInv, UsesModel PROVE IInv'
    OBVIOUS
  <1> USE DEF IInv
  <1>1. CryptoInv' /\ (active # None => active' = active)
    <2>1. ASSUME NEW r \in Row, (\E v \in Value : Save(r, v)) \/ (\E q \in Row : Copy(q, r))
          PROVE  CryptoInv' /\ active' = active
      BY <2>1, SavesKeep DEF Save, Copy, Asks
    <2>2. ASSUME NEW m \in calls, (\E to \in Taken(m) : Encodes(m, to)) \/ Lands(m) \/ Decodes(m)
          PROVE  CryptoInv' /\ (active # None => active' = active)
      BY <2>2, CallStepKeeps DEF Encodes, Lands, Decodes, Keep, CurrentKey
    <2>3. ASSUME NEW r \in Row, Read(r) \/ Destroy(r)
          PROVE  CryptoInv' /\ active' = active
      BY <2>3, RowStepKeeps DEF Read, Destroy
    <2>4. QED
      BY <2>1, <2>2, <2>3 DEF UsesModel
  <1>2. UNCHANGED <<containerVars, kernelVars>>
    BY DEF UsesModel
  <1>3. ContainerInv'
    BY <1>2, ContainerSame
  <1>4. Shared' /\ Registering'
    BY <1>2 DEF Shared, UnderWay, Registering, containerVars, kernelVars, bound
  <1>5. Alone'
    BY <1>1, <1>2 DEF Alone, Early, Late, kernelVars
  <1>6. QED
    BY <1>1, <1>3, <1>4, <1>5

LEMMA UsesContainerKeeps == IInv /\ UsesContainer => IInv'
  <1> SUFFICES ASSUME IInv, UsesContainer PROVE IInv'
    OBVIOUS
  <1> USE DEF IInv
  <1>1. ContainerInv' /\ ((bound \/ last.gone) => (bound \/ last.gone)')
    BY ServiceStepKeeps DEF UsesContainer
  <1>2. UNCHANGED <<cryptoVars, kernelVars>>
    BY DEF UsesContainer
  <1>3. CryptoInv'
    BY <1>2, CryptoSame
  <1>4. Shared'
    BY <1>2 DEF Shared, UnderWay, kernelVars
  <1>5. Alone'
    BY <1>2 DEF Alone, Early, Late, kernelVars, cryptoVars
  <1>6. Registering'
    BY <1>1, <1>2 DEF Registering, kernelVars
  <1>7. QED
    BY <1>1, <1>3, <1>4, <1>5, <1>6

LEMMA UnchangedKeeps ==
    ASSUME IInv, UNCHANGED <<cryptoVars, containerVars>>,
           UNCHANGED <<at, current, resolver, secret, sharing, disturbed>>
    PROVE  IInv'
  <1> USE DEF IInv
  <1>1. CryptoInv' /\ ContainerInv'
    BY CryptoSame, ContainerSame
  <1>2. Shared' /\ Registering'
    BY DEF Shared, UnderWay, Registering, containerVars, bound
  <1>3. Alone'
    BY DEF Alone, cryptoVars
  <1>4. QED
    BY <1>1, <1>2, <1>3

LEMMA StepKeeps == IInv /\ [Next]_vars => IInv'
  <1> SUFFICES ASSUME IInv, [Next]_vars PROVE IInv'
    OBVIOUS
  <1>1. CASE UNCHANGED vars
    BY <1>1, UnchangedKeeps DEF vars, kernelVars
  <1>2. ASSUME NEW a \in App, Create(a) \/ Configured(a) \/ Connected(a) PROVE IInv'
    BY <1>2, CreateKeeps, ConfiguredKeeps, ConnectedKeeps
  <1>3. ASSUME NEW a \in App, Goes(a) \/ CreateFails(a) PROVE IInv'
    BY <1>3, GoesKeeps, CreateFailsKeeps
  <1>4. ASSUME NEW a \in App, Close(a) PROVE IInv'
    BY <1>4, UnchangedKeeps DEF Close
  <1>5. QED
    BY <1>1, <1>2, <1>3, <1>4, ResetKeeps, SetsKeyKeeps, UsesModelKeeps, UsesContainerKeeps DEF Next

LEMMA Invariance == Spec => []IInv
  BY Initially, StepKeeps, PTL DEF Spec

-----------------------------------------------------------------------------
\* A read gives what was saved, whatever keys and apps came and went, or throws
\* (encryptDocument, decryptDocument).
THEOREM ReadsAreTrue == Spec => []ReadsWhatWasSaved
  BY Invariance, CryptoHolds, PTL DEF IInv

\* No save leaves a field in the clear for want of a key (encryptDocument).
THEOREM NothingInTheClear == Spec => []NeverClearAtRest
  BY Invariance, CryptoHolds, PTL DEF IInv

\* What was saved since the key was set can be read (getEncryptionKey).
THEOREM FreshIsReadable == Spec => []FreshRowsReadable
  BY Invariance, CryptoHolds, PTL DEF IInv

\* make() gives everyone the object of the last registration (src/container.ts).
THEOREM OneObjectPerRegistration == Spec => []MadeAsRegistered
  BY Invariance, ContainerHolds, PTL DEF IInv

\* An app alone in the process finds itself, its Mongo and its key (createApp,
\* resetCurrentApp, src/orm/store.ts).
THEOREM AloneMeansOwn == Spec => []LoneAppHasOwn
  <1>1. IInv => LoneAppHasOwn
    <2> SUFFICES ASSUME IInv, NEW a \in App, sharing = {a}, ~disturbed,
                        at[a].phase \in {"register", "files", "boot", "ready"}
                 PROVE  /\ current = a
                        /\ Resolved = IF Config[a].mongo THEN a ELSE Memory
                        /\ secret[a] # None => active = secret[a]
      BY DEF LoneAppHasOwn
    <2>1. a # None
      BY KernelAssumption
    <2>2. QED
      BY <2>1 DEF IInv, Alone, Late, Resolved
  <1>2. QED
    BY <1>1, Invariance, PTL

\* What any provider registers, all of them find when they boot (createApp).
THEOREM RegisteredBeforeBoot == Spec => []BootFindsServices
  <1>1. IInv => BootFindsServices
    BY DEF IInv, Registering, BootFindsServices
  <1>2. QED
    BY <1>1, Invariance, PTL

-----------------------------------------------------------------------------
(* Types                                                                     *)

\* What the invariant leaves open of the types: the bounds, and who may be current.
ContainerBounds ==
    /\ binding \in Registration /\ last.number \in Registration
    /\ instance \subseteq Object /\ objects \in 0..MaxObject

KernelBounds ==
    /\ at \in [App -> Stage]
    /\ current \in App \cup {None} /\ resolver \in App \cup {None}
    /\ closed \subseteq App /\ disturbed \in BOOLEAN

\* Registrations and objects stay within their bounds.
LEMMA ServiceStepBounds ==
    ASSUME ContainerInv, ContainerBounds, ServiceStep
    PROVE  ContainerBounds'
  <1> USE ContainerAssumption DEF ContainerBounds, Registration, Object
  <1>1. ASSUME NEW kept \in BOOLEAN, Register(kept)
        PROVE  /\ last.number + 1 \in Registration /\ last'.number = last.number + 1
    BY <1>1 DEF Register
  <1>2. CASE Bind
    BY <1>1, <1>2 DEF Bind
  <1>3. CASE Singleton
    <2>1. (instance # {}) \in BOOLEAN
      OBVIOUS
    <2>2. last.number + 1 \in Registration /\ last'.number = last.number + 1
      BY <1>1, <1>3, <2>1 DEF Singleton
    <2>3. QED
      BY <1>3, <2>2 DEF Singleton
  <1>4. CASE Instance
    <2>1. last.number + 1 \in Registration /\ last'.number = last.number + 1
      BY <1>1, <1>4 DEF Instance
    <2>2. [from |-> last.number + 1, nth |-> 0] \in Object
      BY <2>1
    <2>3. QED
      BY <1>4, <2>1, <2>2 DEF Instance
  <1>5. CASE Make
    <2>1. objects < MaxObject =>
              [from |-> binding, nth |-> objects + 1] \in Object /\ objects + 1 \in 0..MaxObject
      OBVIOUS
    <2>2. QED
      BY <1>5, <2>1 DEF Make, Kept
  <1>6. CASE Forget
    <2>1. last' = [last EXCEPT !.kept = FALSE, !.gone = TRUE]
      BY <1>6 DEF Forget
    <2>2. last'.number = last.number
      BY <2>1 DEF ContainerInv
    <2>3. QED
      BY <1>6, <2>2 DEF Forget
  <1>7. QED
    BY <1>2, <1>3, <1>4, <1>5, <1>6 DEF ServiceStep, Registers

\* The walk of createApp never comes to a provider there is not.
LEMMA WalkBounds ==
    ASSUME NEW s \in Stage, s.phase \in {"wiring", "register", "files", "boot"}
    PROVE  After(s) \in Stage
  <1> USE KernelAssumption
  <1>1. s.i \in 0..Providers /\ s.phase \in Phase
    BY DEF Stage
  <1>2. [phase |-> "register", i |-> 1] \in Stage /\ [phase |-> "boot", i |-> 1] \in Stage
    BY DEF Stage, Phase
  <1>3. Stop("files") \in Stage /\ Stop("ready") \in Stage
    BY DEF Stage, Phase, Stop
  <1>4. ASSUME s.i < Providers PROVE [s EXCEPT !.i = @ + 1] \in Stage
    <2>1. s.i + 1 \in 0..Providers
      BY <1>1, <1>4
    <2>2. QED
      BY <2>1 DEF Stage
  <1>5. QED
    BY <1>2, <1>3, <1>4 DEF After

LEMMA BoundsKept ==
    ASSUME IInv, ContainerBounds, KernelBounds, [Next]_vars
    PROVE  ContainerBounds' /\ KernelBounds'
  <1> USE KernelAssumption
  <1>1. ASSUME UNCHANGED containerVars PROVE ContainerBounds'
    BY <1>1 DEF ContainerBounds, containerVars
  <1>2. \A p \in Phase : Stop(p) \in Stage
    BY DEF Stop, Stage
  <1>3. ASSUME NEW a \in App, NEW s \in Stage, at' = [at EXCEPT ![a] = s]
        PROVE  at' \in [App -> Stage]
    BY <1>3 DEF KernelBounds
  <1>4. ASSUME NEW a \in App, Create(a) PROVE ContainerBounds' /\ KernelBounds'
    <2>1. Stop("config") \in Stage
      BY <1>2 DEF Phase
    <2>2. QED
      BY <1>1, <1>3, <1>4, <2>1 DEF Create, KernelBounds
  <1>5. ASSUME NEW a \in App, Configured(a) PROVE ContainerBounds' /\ KernelBounds'
    <2>1. Stop(IF Config[a].mongo THEN "mongo" ELSE "wiring") \in Stage
      BY <1>2 DEF Phase
    <2>2. QED
      BY <1>1, <1>3, <1>5, <2>1 DEF Configured, KernelBounds
  <1>6. ASSUME NEW a \in App, Connected(a) PROVE ContainerBounds' /\ KernelBounds'
    <2>1. Stop("wiring") \in Stage
      BY <1>2 DEF Phase
    <2>2. QED
      BY <1>1, <1>3, <1>6, <2>1 DEF Connected, Binds, KernelBounds
  <1>7. ASSUME NEW a \in App, Goes(a) PROVE ContainerBounds' /\ KernelBounds'
    <2>1. at[a] \in Stage /\ at' = [at EXCEPT ![a] = After(at[a])]
      BY <1>7 DEF Goes, KernelBounds
    <2>2. After(at[a]) \in Stage
      BY <1>7, <2>1, WalkBounds DEF Goes
    <2>3. KernelBounds'
      BY <1>3, <1>7, <2>1, <2>2 DEF Goes, KernelBounds
    <2>4. ContainerBounds'
      BY <1>1, <1>7, ServiceStepBounds DEF Goes, ServiceStep, IInv
    <2>5. QED
      BY <2>3, <2>4
  <1>8. ASSUME NEW a \in App, CreateFails(a) \/ Close(a)
        PROVE  ContainerBounds' /\ KernelBounds'
    <2>1. Stop("failed") \in Stage
      BY <1>2 DEF Phase
    <2>2. QED
      BY <1>1, <1>3, <1>8, <2>1 DEF CreateFails, Close, KernelBounds
  <1>9. CASE Reset
    BY <1>1, <1>9 DEF Reset, Unbind, KernelBounds
  <1>10. CASE SetsKey \/ UsesModel \/ UNCHANGED vars
    BY <1>1, <1>10 DEF SetsKey, UsesModel, vars, kernelVars, KernelBounds
  <1>11. CASE UsesContainer
    <2>1. KernelBounds'
      BY <1>11 DEF UsesContainer, kernelVars, KernelBounds
    <2>2. ContainerBounds'
      BY <1>11, ServiceStepBounds DEF UsesContainer, IInv
    <2>3. QED
      BY <2>1, <2>2
  <1>12. QED
    BY <1>4, <1>5, <1>6, <1>7, <1>8, <1>9, <1>10, <1>11 DEF Next

\* Every reachable state of the process has its type: rows under one key at most, one
\* cached object, walks within their providers.
THEOREM KernelTypes == Spec => []TypeOK
  <1>1. Init => ContainerBounds /\ KernelBounds
    <2> USE KernelAssumption, ContainerAssumption
    <2>1. Stop("new") \in Stage
      BY DEF Stop, Stage, Phase
    <2>2. Init => KernelBounds
      BY <2>1 DEF Init, KernelBounds
    <2>3. Init => ContainerBounds
      BY DEF Init, ContainerInit, ContainerBounds, Registration, Object
    <2>4. QED
      BY <2>2, <2>3
  <1>2. ASSUME IInv, ContainerBounds, KernelBounds PROVE TypeOK
    <2>1. CryptoTypeOK
      <3>1. ASSUME NEW r \in Row, rows[r] # Absent
            PROVE  rows[r] \in Stored /\ Len(rows[r].keys) <= 1
        <4>1. Holding(rows[r], written[r]) /\ rows[r] \in Stored
          BY <1>2, <3>1 DEF IInv, CryptoInv, RowsHold
        <4>2. CASE rows[r] = Clear(written[r])
          BY <4>1, <4>2 DEF Clear
        <4>3. ASSUME NEW k \in Key, rows[r] = Cipher(k, written[r])
              PROVE  Len(rows[r].keys) <= 1
          BY <4>3 DEF Cipher
        <4>4. QED
          BY <4>1, <4>2, <4>3 DEF Holding, Clear
      <3>2. QED
        BY <1>2, <3>1 DEF IInv, CryptoInv, Keys, RowsHold, FreshHold, CallsHold, CryptoTypeOK
    <2>2. ContainerTypeOK
      <3>1. instance = {} \/ \E o : instance = {o}
        <4>1. ASSUME NEW o \in instance PROVE instance = {o}
          BY <1>2 DEF IInv, ContainerInv
        <4>2. QED
          BY <4>1
      <3>2. Cardinality(instance) <= 1
        BY <3>1, FS_EmptySet, FS_Singleton
      <3>3. last \in [number : Registration, kept : BOOLEAN, gone : BOOLEAN]
        BY <1>2 DEF IInv, ContainerInv, ContainerBounds
      <3>4. QED
        BY <1>2, <3>2, <3>3 DEF IInv, ContainerInv, ContainerBounds, ContainerTypeOK
    <2>3. QED
      BY <1>2, <2>1, <2>2 DEF IInv, Shared, KernelBounds, TypeOK
  <1>3. QED
    BY <1>1, <1>2, BoundsKept, Initially, StepKeeps, PTL DEF Spec
=============================================================================
