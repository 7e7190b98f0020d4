------------------------ MODULE MobilePairingProofs ------------------------
(***************************************************************************)
(* For any number of tokens, phones, requests, pairings and restarts: one  *)
(* pairing per phone stays, a revocation sticks, no pairing outlives its   *)
(* extension, and the newest pairing of a phone works.                     *)
(*                                                                         *)
(* The invariants lean on what the requests in flight have read and are    *)
(* about to write: a replay that has read an old row crosses whoever       *)
(* changes that row meanwhile, and the phones of both are in "crossed".    *)
(***************************************************************************)
EXTENDS MobilePairing, FiniteSetTheorems, TLAPS

\* An idle request holds nothing; the others know their phone and their row.
Busy ==
  \A r \in Requests :
    /\ pc[r] # "revoking" => todo[r] = {} /\ marked[r] = {}
    /\ pc[r] # "idle" => asks[r].phone \in Phones /\ asks[r].id \in Ids
    /\ pc[r] = "replaying" => saw[r] \in Rows

\* The admin's request has the database to itself until it commits, unless it repeats a
\* revocation; in any case the rows it is about stay.
AdminHolds ==
  /\ admin \in {"revoking", "deleting"} => writer = Admin
  /\ admin = "deleting" => Present \subseteq concerns
  /\ admin \in {"revoking", "repeating"} => concerns \subseteq Present

BannedPresent == banned \subseteq Present

\* The rows are numbered from 1 without a gap, each with a token of its own.
Dense ==
  /\ \E n \in Nat : Present = 1 .. n
  /\ \A i, j \in Present : rows[i].jti = rows[j].jti => i = j
  /\ ~alive => Present = {}

\* OnePairing, with the phone the request acts for.
OnePairingBy ==
  \A i, j \in Present :
    i # j /\ rows[i].phone = rows[j].phone /\ rows[i].phone \notin unrevoked
    /\ rows[i].active /\ rows[j].active =>
      \E r \in Requests : /\ asks[r].phone = rows[i].phone
                          /\ {i, j} \cap (todo[r] \cup marked[r]) # {}

\* A replay whose row has changed since it was read has crossed another request.
ReplayCrossed(r) ==
  LET row == rows[asks[r].id] IN
  \/ {row.phone, asks[r].phone} \subseteq crossed
  \/ /\ saw[r].phone = row.phone
     /\ asks[r].id \in banned => ~row.active /\ saw[r].active
     /\ row.active => saw[r].active
ReplayKnows == \A r \in Requests : pc[r] = "replaying" /\ asks[r].id \in Present => ReplayCrossed(r)

\* Nobody is about to revoke the newest pairing of a phone.
NewestKept ==
  \A p \in Phones \ crossed : newest[p] # 0 =>
    \E i \in Present : /\ rows[i].active /\ rows[i].secret = newest[p] /\ rows[i].phone = p
                       /\ \A r \in Requests : i \notin todo[r] \cup marked[r]

IInv == /\ TypeOK /\ Busy /\ AdminHolds /\ BannedPresent /\ Dense
        /\ OnePairingBy /\ ReplayKnows /\ RevokeSticks /\ DevicesGoWithExtension /\ NewestKept

-----------------------------------------------------------------------------
(* Rows and requests.                                                      *)

LEMMA RowFacts ==
  ASSUME TypeOK
  PROVE  \A i \in Present : i \in Ids /\ rows[i] \in Rows
BY DEF TypeOK, Present

\* The number of a new row is one.
LEMMA NewNumber ==
  ASSUME TypeOK, Dense, NEW t \in Tokens, \A i \in Present : rows[i].jti # t
  PROVE  /\ NextId \in Ids /\ NextId \notin Present
         /\ \E n \in Nat : Present \cup {NextId} = 1 .. n
<1>1. PICK n \in Nat : Present = 1 .. n
  BY DEF Dense
<1>2. NextId = n + 1
  <2>1. CASE n = 0
    BY <1>1, <2>1 DEF NextId
  <2>2. CASE n # 0
    <3>1. n \in Present /\ \A y \in Present : n >= y
      BY <1>1, <2>2
    <3>2. Max(Present) \in Present /\ \A y \in Present : Max(Present) >= y
      BY <3>1 DEF Max
    <3>3. Max(Present) = n
      BY <1>1, <3>1, <3>2
    <3>4. QED
      BY <1>1, <3>1, <3>3 DEF NextId
  <2>3. QED
    BY <2>1, <2>2
<1>3. Cardinality(Tokens) \in Nat
  BY TokensAssumption, FS_CardinalityType
<1>4. n + 1 <= Cardinality(Tokens)
  <2>. DEFINE S == 1 .. n + 1
              f == [i \in S |-> IF i \in Present THEN rows[i].jti ELSE t]
  <2>1. IsFiniteSet(S) /\ Cardinality(S) = n + 1
    BY FS_Interval
  <2>2. f \in [S -> Tokens]
    BY RowFacts DEF Rows
  <2>3. \A x, y \in S : x # y => f[x] # f[y]
    <3>1. \A x \in S : x \in Present \/ x = n + 1
      BY <1>1
    <3>2. n + 1 \notin Present
      BY <1>1
    <3>3. QED
      BY <3>1, <3>2 DEF Dense
  <2>. HIDE DEF f, S
  <2>4. ~(Cardinality(Tokens) < Cardinality(S))
    BY <2>1, <2>2, <2>3, TokensAssumption, FS_PigeonHole
  <2>5. QED
    BY <1>3, <2>1, <2>4
<1>5. QED
  BY <1>1, <1>2, <1>3, <1>4 DEF Ids

\* What a replay writes is a row with the token, and of the extension, it had.
\* A row that a request waits to revoke, or replays, belongs to a busy request.
LEMMA CrossedPhones ==
  ASSUME Busy, NEW r \in Requests, NEW p \in Phones, NEW id
  PROVE  {asks[q].phone : q \in Crossed(r, p, id)} \subseteq Phones
<1>1. \A q \in Crossed(r, p, id) : q \in Requests /\ pc[q] # "idle"
  BY DEF Crossed, Busy
<1>2. QED
  BY <1>1 DEF Busy

-----------------------------------------------------------------------------
(* A pairing.                                                              *)

\* The row that a pairing writes, new or replayed, keeps the invariant.
LEMMA PairedKeeps ==
  ASSUME IInv, NEW r \in Requests, NEW p \in Phones, NEW id \in Ids, NEW row \in Rows,
         Paired(r, p, id, row), pc[r] # "revoking",
         alive, row.era = era, row.secret = pairings + 1,
         \E n \in Nat : Present \cup {id} = 1 .. n,
         \A i \in Present : i # id => rows[i].jti # row.jti,
         row.phone # p => {row.phone, p} \subseteq crossed,
         id \in banned /\ row.active => row.phone \in crossed
  PROVE  IInv'
<1>. USE DEF IInv
<1>1. todo[r] = {} /\ marked[r] = {} /\ admin \notin {"revoking", "deleting"}
  BY WritersAssumption DEF Busy, AdminHolds, Paired, MayWrite
<1>2. /\ rows' = [rows EXCEPT ![id] = row] /\ rows \in [Ids -> Rows \cup {NoRow}]
      /\ row # NoRow
  BY NoRowAssumption DEF Paired, TypeOK
<1>3. Present' = Present \cup {id}
  BY <1>2 DEF Present
<1>4. rows'[id] = row /\ \A i \in Present : i # id => rows'[i] = rows[i]
  BY <1>2 DEF Present
<1>5. /\ todo' = [todo EXCEPT ![r] = Others(p, id)] /\ marked' = marked
      /\ Others(p, id) \subseteq Present /\ id \notin Others(p, id)
      /\ \A i \in Others(p, id) : rows[i].phone = p
  BY DEF Paired, Others
<1>6. /\ \A q \in Requests : q # r => /\ pc'[q] = pc[q] /\ asks'[q] = asks[q]
                                     /\ saw'[q] = saw[q] /\ todo'[q] = todo[q]
      /\ todo'[r] = Others(p, id) /\ saw'[r] = NoRow
      /\ Others(p, id) = {} => pc'[r] = "idle"
      /\ Others(p, id) # {} => pc'[r] = "revoking" /\ asks'[r] = [phone |-> p, id |-> id]
  BY DEF Paired, TypeOK
<1>7. /\ crossed \subseteq crossed' /\ crossed' \subseteq Phones
      /\ \A q \in Crossed(r, p, id) : {p, asks[q].phone} \subseteq crossed'
  <2>1. {asks[q].phone : q \in Crossed(r, p, id)} \subseteq Phones
    BY CrossedPhones
  <2>2. CASE Crossed(r, p, id) = {}
    BY <2>2 DEF Paired, TypeOK
  <2>3. CASE Crossed(r, p, id) # {}
    <3>1. crossed' = crossed \cup {p} \cup {asks[q].phone : q \in Crossed(r, p, id)}
      BY <2>3 DEF Paired
    <3>2. QED
      BY <2>1, <3>1 DEF TypeOK
  <2>4. QED
    BY <2>2, <2>3
<1>8. pairings' = pairings + 1 /\ pairings' \in Secrets /\ pairings' \in 0 .. MaxPairings
  BY BoundsAssumption DEF Paired, TypeOK, Secrets
<1>9. /\ newest' \in [Phones -> Secrets \cup {0}]
      /\ newest'[p] = IF row.active THEN pairings' ELSE 0
      /\ \A q \in Phones : q # p /\ newest'[q] # 0 =>
           newest'[q] = newest[q] /\ (id \in Present => rows[id].secret # newest[q])
  BY <1>8 DEF Paired, TypeOK, Present
<1>10. TypeOK'
  <2>1. rows' \in [Ids -> Rows \cup {NoRow}]
    BY <1>2
  <2>2. asks' \in [Requests -> [phone : Phones \cup {Nobody}, id : Ids \cup {0}]]
    BY DEF Paired, TypeOK, Nothing
  <2>3. pc' \in [Requests -> {"idle", "replaying", "revoking"}]
    BY DEF Paired, TypeOK
  <2>4. saw' \in [Requests -> Rows \cup {NoRow}]
    BY DEF Paired, TypeOK
  <2>5. todo' \in [Requests -> SUBSET Ids] /\ marked' \in [Requests -> SUBSET Ids]
    BY <1>5 DEF TypeOK, Present
  <2>6. unrevoked' \in SUBSET Phones
    BY DEF Paired, TypeOK, Rows
  <2>7. QED
    BY <2>1, <2>2, <2>3, <2>4, <2>5, <2>6, <1>7, <1>8, <1>9
    DEF Paired, TypeOK, extVars, adminVars
<1>11. Busy'
  BY <1>1, <1>5, <1>6 DEF Busy
<1>12. AdminHolds'
  BY <1>1, <1>3 DEF AdminHolds, Paired, adminVars
<1>13. BannedPresent'
  BY <1>3 DEF BannedPresent, Paired
<1>14. Dense'
  <2>1. \A i, j \in Present' : rows'[i].jti = rows'[j].jti => i = j
    BY <1>3, <1>4 DEF Dense
  <2>2. QED
    BY <1>3, <2>1 DEF Dense, Paired, extVars
<1>15. OnePairingBy'
  <2>. SUFFICES ASSUME NEW i \in Present', NEW j \in Present', i # j,
                       rows'[i].phone = rows'[j].phone, rows'[i].phone \notin unrevoked',
                       rows'[i].active, rows'[j].active
                PROVE  \E q \in Requests : /\ asks'[q].phone = rows'[i].phone
                                           /\ {i, j} \cap (todo'[q] \cup marked'[q]) # {}
    BY DEF OnePairingBy
  <2>1. CASE i # id /\ j # id
    <3>1. unrevoked \subseteq unrevoked'
      BY DEF Paired
    <3>2. PICK q \in Requests : /\ asks[q].phone = rows[i].phone
                               /\ {i, j} \cap (todo[q] \cup marked[q]) # {}
      BY <1>3, <1>4, <2>1, <3>1 DEF OnePairingBy
    <3>3. q # r
      BY <1>1, <3>2
    <3>4. QED
      BY <1>3, <1>4, <1>5, <1>6, <2>1, <3>2, <3>3
  <2>2. ASSUME NEW o \in Present, o # id, row.phone = rows[o].phone, rows[o].active,
               row.phone \notin unrevoked'
        PROVE  o \in todo'[r] /\ asks'[r].phone = row.phone
    <3>1. row.phone = p
      BY <2>2 DEF Paired
    <3>2. o \in Others(p, id)
      BY <2>2, <3>1 DEF Others
    <3>3. QED
      BY <1>6, <3>1, <3>2
  <2>3. QED
    BY <1>3, <1>4, <2>1, <2>2
<1>16. ReplayKnows'
  <2>. SUFFICES ASSUME NEW q \in Requests, pc'[q] = "replaying", asks'[q].id \in Present'
                PROVE  ReplayCrossed(q)'
    BY DEF ReplayKnows
  <2>1. q # r /\ pc[q] = "replaying" /\ asks'[q] = asks[q] /\ saw'[q] = saw[q]
    BY <1>6
  <2>2. CASE asks[q].id = id
    <3>1. {p, asks[q].phone} \subseteq crossed'
      BY <1>7, <2>1, <2>2 DEF Crossed
    <3>2. row.phone \in crossed'
      BY <1>7, <3>1
    <3>3. QED
      BY <1>4, <2>1, <2>2, <3>1, <3>2 DEF ReplayCrossed
  <2>3. CASE asks[q].id # id
    <3>1. ReplayCrossed(q)
      BY <1>3, <2>1, <2>3 DEF ReplayKnows
    <3>2. rows'[asks'[q].id] = rows[asks[q].id] /\ banned' = banned
      BY <1>3, <1>4, <2>1, <2>3 DEF Paired
    <3>3. QED
      BY <1>7, <2>1, <3>1, <3>2 DEF ReplayCrossed
  <2>4. QED
    BY <2>2, <2>3
<1>17. RevokeSticks'
  <2>1. banned' = banned /\ banned \subseteq Present
    BY DEF Paired, BannedPresent
  <2>2. QED
    BY <1>4, <1>7, <2>1 DEF RevokeSticks
<1>18. DevicesGoWithExtension'
  BY <1>3, <1>4 DEF DevicesGoWithExtension, Paired, extVars
<1>19. NewestKept'
  <2>. SUFFICES ASSUME NEW q \in Phones, q \notin crossed', newest'[q] # 0
                PROVE  \E i \in Present' :
                         /\ rows'[i].active /\ rows'[i].secret = newest'[q] /\ rows'[i].phone = q
                         /\ \A s \in Requests : i \notin todo'[s] \cup marked'[s]
    BY DEF NewestKept
  <2>1. CASE q = p
    <3>1. row.phone = p /\ row.active
      BY <1>7, <1>9, <2>1
    <3>2. ASSUME NEW s \in Requests
          PROVE  id \notin todo'[s] \cup marked'[s]
      <4>1. CASE s = r
        BY <1>1, <1>5, <1>6, <4>1
      <4>2. CASE s # r
        <5>1. s \notin Crossed(r, p, id)
          BY <1>7, <2>1
        <5>2. QED
          BY <1>5, <1>6, <4>2, <5>1 DEF Crossed
      <4>3. QED
        BY <4>1, <4>2
    <3>3. QED
      BY <1>3, <1>4, <1>8, <1>9, <2>1, <3>1, <3>2
  <2>2. CASE q # p
    <3>1. PICK i \in Present : /\ rows[i].active /\ rows[i].secret = newest[q]
                              /\ rows[i].phone = q
                              /\ \A s \in Requests : i \notin todo[s] \cup marked[s]
      BY <1>7, <1>9, <2>2 DEF NewestKept
    <3>2. i # id
      BY <1>9, <2>2, <3>1
    <3>3. \A s \in Requests : i \notin todo'[s] \cup marked'[s]
      BY <1>5, <1>6, <2>2, <3>1
    <3>4. QED
      BY <1>3, <1>4, <1>9, <2>2, <3>1, <3>2, <3>3
  <2>3. QED
    BY <2>1, <2>2
<1>20. QED
  BY <1>10, <1>11, <1>12, <1>13, <1>14, <1>15, <1>16, <1>17, <1>18, <1>19

\* A new token.
LEMMA CompleteKeeps ==
  ASSUME IInv, NEW r \in Requests, NEW t \in Tokens, NEW p \in Phones, CompletePairing(r, t, p)
  PROVE  IInv'
<1>. DEFINE row == [jti |-> t, phone |-> p, active |-> TRUE, secret |-> pairings + 1, era |-> era]
<1>1. /\ NextId \in Ids /\ NextId \notin Present
      /\ \E n \in Nat : Present \cup {NextId} = 1 .. n
  BY NewNumber DEF IInv, CompletePairing
<1>2. row \in Rows
  BY BoundsAssumption DEF IInv, TypeOK, CompletePairing, Paired, Rows, Secrets
<1>3. \A i \in Present : rows[i].jti # row.jti
  BY DEF CompletePairing
<1>4. NextId \notin banned
  BY <1>1 DEF IInv, BannedPresent
<1>5. Paired(r, p, NextId, row) /\ pc[r] # "revoking" /\ alive
  BY DEF CompletePairing
<1>6. row.phone = p /\ row.era = era /\ row.secret = pairings + 1
  OBVIOUS
<1>. HIDE DEF row
<1>7. QED
  BY <1>1, <1>2, <1>3, <1>4, <1>5, <1>6, PairedKeeps

\* A token that has its row.
LEMMA ReplayKeeps ==
  ASSUME IInv, NEW r \in Requests, ReplayCommits(r)
  PROVE  IInv'
<1>. DEFINE p == asks[r].phone
            id == asks[r].id
            row == ChangedColumns(rows[id], saw[r], p)
<1>1. /\ pc[r] = "replaying" /\ id \in Present /\ Paired(r, p, id, row)
      /\ p \in Phones /\ id \in Ids /\ saw[r] \in Rows
  BY DEF IInv, ReplayCommits, Busy
<1>2. /\ row \in Rows
      /\ row.jti = rows[id].jti /\ row.era = rows[id].era /\ row.secret = pairings + 1
      /\ row.active = IF saw[r].active THEN rows[id].active ELSE TRUE
      /\ row.phone = IF saw[r].phone = p THEN rows[id].phone ELSE p
  <2>1. TypeOK /\ pairings < MaxPairings
    BY <1>1 DEF IInv, Paired
  <2>2. row = ChangedColumns(rows[id], saw[r], p)
    OBVIOUS
  <2>. HIDE DEF row, id, p
  <2>3. rows[id] \in Rows /\ pairings + 1 \in Secrets
    BY <1>1, <2>1, RowFacts, BoundsAssumption DEF TypeOK, Secrets
  <2>4. row \in Rows
    BY <1>1, <2>2, <2>3 DEF ChangedColumns, Rows
  <2>5. row.jti = rows[id].jti /\ row.era = rows[id].era /\ row.secret = pairings + 1
    BY <1>1, <2>2, <2>3 DEF ChangedColumns, Rows
  <2>6. /\ row.active = IF saw[r].active THEN rows[id].active ELSE TRUE
        /\ row.phone = IF saw[r].phone = p THEN rows[id].phone ELSE p
    BY <1>1, <2>2, <2>3 DEF ChangedColumns, Rows
  <2>7. QED
    BY <2>4, <2>5, <2>6
<1>3. ReplayCrossed(r)
  BY <1>1 DEF IInv, ReplayKnows
<1>4. alive /\ row.era = era
  BY <1>1, <1>2 DEF IInv, DevicesGoWithExtension
<1>5. \E n \in Nat : Present \cup {id} = 1 .. n
  <2>1. Present \cup {id} = Present
    BY <1>1
  <2>2. QED
    BY <2>1 DEF IInv, Dense
<1>6. \A i \in Present : i # id => rows[i].jti # row.jti
  BY <1>1, <1>2 DEF IInv, Dense
<1>7. row.phone # p => {row.phone, p} \subseteq crossed
  BY <1>2, <1>3 DEF ReplayCrossed
<1>8. id \in banned /\ row.active => row.phone \in crossed
  BY <1>2, <1>3 DEF ReplayCrossed
<1>. HIDE DEF p, id, row
<1>9. QED
  BY <1>1, <1>2, <1>4, <1>5, <1>6, <1>7, <1>8, PairedKeeps

\* The row that a replay reads is the one it will write, until somebody changes it.
LEMMA ReplayReadsKeeps ==
  ASSUME IInv, NEW r \in Requests, NEW i \in Ids, NEW p \in Phones, ReplayReads(r, i, p)
  PROVE  IInv'
<1>. USE DEF IInv
<1>1. /\ rows' = rows /\ Present' = Present /\ todo' = todo /\ marked' = marked
      /\ i \in Present /\ rows[i] \in Rows /\ pc[r] = "idle"
  BY DEF ReplayReads, Present, TypeOK
<1>2. /\ pc'[r] = "replaying" /\ asks'[r] = [phone |-> p, id |-> i] /\ saw'[r] = rows[i]
      /\ \A q \in Requests : q # r => /\ pc'[q] = pc[q] /\ asks'[q] = asks[q]
                                     /\ saw'[q] = saw[q]
  BY DEF ReplayReads, TypeOK
<1>3. todo[r] = {} /\ marked[r] = {}
  BY <1>1 DEF Busy
<1>4. TypeOK'
  BY <1>1 DEF ReplayReads, TypeOK, extVars, adminVars, bounds
<1>5. Busy'
  BY <1>1, <1>2, <1>3 DEF Busy
<1>6. AdminHolds' /\ BannedPresent'
  BY <1>1 DEF AdminHolds, BannedPresent, ReplayReads, adminVars
<1>7. Dense' /\ DevicesGoWithExtension'
  BY <1>1 DEF Dense, DevicesGoWithExtension, ReplayReads, extVars
<1>8. OnePairingBy'
  BY <1>1, <1>2, <1>3 DEF OnePairingBy, ReplayReads
<1>9. ReplayKnows'
  <2>1. banned' = banned \ {i} /\ crossed' = crossed
    BY DEF ReplayReads
  <2>2. ASSUME NEW q \in Requests, pc'[q] = "replaying", asks'[q].id \in Present'
        PROVE  ReplayCrossed(q)'
    <3>1. CASE q = r
      BY <1>1, <1>2, <2>1, <3>1 DEF ReplayCrossed
    <3>2. CASE q # r
      BY <1>1, <1>2, <2>1, <2>2, <3>2 DEF ReplayCrossed, ReplayKnows
    <3>3. QED
      BY <3>1, <3>2
  <2>3. QED
    BY <2>2 DEF ReplayKnows
<1>10. RevokeSticks' /\ NewestKept'
  BY <1>1 DEF RevokeSticks, NewestKept, ReplayReads
<1>11. QED
  BY <1>4, <1>5, <1>6, <1>7, <1>8, <1>9, <1>10

-----------------------------------------------------------------------------
(* Requests that go on, or end.                                            *)

\* A request that fails leaves the rows alone; the phone whose pairings it has not
\* revoked is in "unrevoked".
LEMMA EndsKeeps ==
  ASSUME IInv, NEW r \in Requests, Ends(r), UNCHANGED <<extVars, rows, adminVars, bounds>>,
         UNCHANGED <<newest, crossed, banned>>,
         unrevoked \subseteq unrevoked', unrevoked' \in SUBSET Phones,
         pc[r] = "revoking" => asks[r].phone \in unrevoked'
  PROVE  IInv'
<1>. USE DEF IInv
<1>1. Present' = Present
  BY DEF Present
<1>2. /\ pc'[r] = "idle" /\ todo'[r] = {} /\ marked'[r] = {}
      /\ \A q \in Requests : q # r => /\ pc'[q] = pc[q] /\ asks'[q] = asks[q]
                                     /\ saw'[q] = saw[q] /\ todo'[q] = todo[q]
                                     /\ marked'[q] = marked[q]
  BY DEF Ends, TypeOK
<1>3. TypeOK'
  BY DEF Ends, TypeOK, extVars, adminVars, bounds, Nothing
<1>4. Busy'
  BY <1>2 DEF Busy
<1>5. AdminHolds' /\ BannedPresent'
  BY <1>1, WritersAssumption DEF AdminHolds, BannedPresent, Ends, adminVars
<1>6. Dense' /\ DevicesGoWithExtension'
  BY <1>1 DEF Dense, DevicesGoWithExtension, extVars
<1>7. OnePairingBy'
  <2>. SUFFICES ASSUME NEW i \in Present, NEW j \in Present, i # j,
                       rows[i].phone = rows[j].phone, rows[i].phone \notin unrevoked',
                       rows[i].active, rows[j].active
                PROVE  \E q \in Requests : /\ asks'[q].phone = rows[i].phone
                                           /\ {i, j} \cap (todo'[q] \cup marked'[q]) # {}
    BY <1>1 DEF OnePairingBy
  <2>1. PICK q \in Requests : /\ asks[q].phone = rows[i].phone
                             /\ {i, j} \cap (todo[q] \cup marked[q]) # {}
    BY DEF OnePairingBy
  <2>2. pc[q] = "revoking"
    BY <2>1 DEF Busy
  <2>3. q # r
    BY <2>1, <2>2
  <2>4. QED
    BY <1>2, <2>1, <2>3
<1>8. ReplayKnows'
  BY <1>1, <1>2 DEF ReplayKnows, ReplayCrossed
<1>9. RevokeSticks' /\ NewestKept'
  BY <1>1, <1>2 DEF RevokeSticks, NewestKept
<1>10. QED
  BY <1>3, <1>4, <1>5, <1>6, <1>7, <1>8, <1>9

LEMMA FailuresKeep ==
  ASSUME IInv, NEW r \in Requests, ReplayFails(r) \/ RevokingFails(r)
  PROVE  IInv'
<1>1. CASE ReplayFails(r)
  <2>1. pc[r] # "revoking" /\ unrevoked' = unrevoked /\ unrevoked \in SUBSET Phones
    BY <1>1 DEF ReplayFails, histVars, IInv, TypeOK
  <2>2. QED
    BY <1>1, <2>1, EndsKeeps DEF ReplayFails, histVars
<1>2. CASE RevokingFails(r)
  <2>1. asks[r].phone \in Phones /\ unrevoked \in SUBSET Phones
    BY <1>2 DEF RevokingFails, IInv, Busy, TypeOK
  <2>2. QED
    BY <1>2, <2>1, EndsKeeps DEF RevokingFails
<1>3. QED
  BY <1>1, <1>2

\* A row that is marked is still one the request is about to revoke.
LEMMA RevokeOtherKeeps ==
  ASSUME IInv, NEW r \in Requests, RevokeOther(r)
  PROVE  IInv'
<1>. USE DEF IInv
<1>1. SUFFICES ASSUME NEW o \in todo[r],
                      todo' = [todo EXCEPT ![r] = todo[r] \ {o}],
                      marked' = [marked EXCEPT ![r] = marked[r] \cup {o}],
                      writer' = writer \/ (MayWrite(r) /\ writer' = r)
               PROVE  IInv'
  BY Zenon DEF RevokeOther
<1>2. /\ rows' = rows /\ Present' = Present /\ pc' = pc /\ asks' = asks /\ saw' = saw
      /\ pc[r] = "revoking"
  BY DEF RevokeOther, Present
<1>. DEFINE rest == todo[r] \ {o}
            more == marked[r] \cup {o}
<1>3. todo' = [todo EXCEPT ![r] = rest] /\ marked' = [marked EXCEPT ![r] = more]
  BY <1>1, Zenon
<1>4. rest \cup more = todo[r] \cup marked[r] /\ rest \in SUBSET Ids /\ more \in SUBSET Ids
  BY DEF TypeOK
<1>. HIDE DEF rest, more
<1>5. \A q \in Requests : /\ todo'[q] \cup marked'[q] = todo[q] \cup marked[q]
                          /\ q # r => todo'[q] = todo[q] /\ marked'[q] = marked[q]
  BY <1>3, <1>4 DEF TypeOK
<1>6. TypeOK'
  <2>1. todo' \in [Requests -> SUBSET Ids] /\ marked' \in [Requests -> SUBSET Ids]
    BY <1>3, <1>4 DEF TypeOK
  <2>2. writer' \in Requests \cup {Admin, Nobody}
    BY <1>1 DEF TypeOK
  <2>3. QED
    BY <2>1, <2>2 DEF RevokeOther, TypeOK, extVars, adminVars, histVars, bounds
<1>7. Busy'
  BY <1>2, <1>5 DEF Busy
<1>8. AdminHolds' /\ BannedPresent'
  BY <1>1, <1>2, WritersAssumption
  DEF AdminHolds, BannedPresent, RevokeOther, MayWrite, adminVars, histVars
<1>9. Dense' /\ DevicesGoWithExtension'
  BY <1>2 DEF Dense, DevicesGoWithExtension, RevokeOther, extVars
<1>10. OnePairingBy'
  BY <1>2, <1>5 DEF OnePairingBy, RevokeOther, histVars
<1>11. ReplayKnows'
  BY <1>2 DEF ReplayKnows, ReplayCrossed, RevokeOther, histVars
<1>12. RevokeSticks' /\ NewestKept'
  BY <1>2, <1>5 DEF RevokeSticks, NewestKept, RevokeOther, histVars
<1>13. QED
  BY <1>6, <1>7, <1>8, <1>9, <1>10, <1>11, <1>12

\* The rows whose newest secret works are not among those that are revoked.
LEMMA RevokedOthersKeeps ==
  ASSUME IInv, NEW r \in Requests, RevokedOthers(r)
  PROVE  IInv'
<1>. USE DEF IInv
<1>. DEFINE old == marked[r] \cup todo[r]
<1>1. old \subseteq Present /\ admin \notin {"revoking", "deleting"} /\ pc[r] = "revoking"
  BY WritersAssumption DEF RevokedOthers, AdminHolds, MayWrite
<1>2. /\ pc'[r] = "idle" /\ todo'[r] = {} /\ marked'[r] = {}
      /\ \A q \in Requests : q # r => /\ pc'[q] = pc[q] /\ asks'[q] = asks[q]
                                     /\ saw'[q] = saw[q] /\ todo'[q] = todo[q]
                                     /\ marked'[q] = marked[q]
  BY DEF RevokedOthers, Ends, TypeOK
<1>3. rows' = [i \in Ids |-> IF i \in old THEN [rows[i] EXCEPT !.active = FALSE, !.secret = 0]
                             ELSE rows[i]]
  BY DEF RevokedOthers
<1>4. \A i \in Present : rows[i] \in Rows
  BY RowFacts
<1>. HIDE DEF old
<1>5. \A i \in Present :
        /\ rows'[i] \in Rows /\ rows'[i].phone = rows[i].phone /\ rows'[i].era = rows[i].era
        /\ rows'[i].jti = rows[i].jti
        /\ rows'[i].active => i \notin old /\ rows[i].active
        /\ i \notin old => rows'[i] = rows[i]
  <2>. SUFFICES ASSUME NEW i \in Present
                PROVE  /\ rows'[i] \in Rows /\ rows'[i].phone = rows[i].phone
                       /\ rows'[i].era = rows[i].era /\ rows'[i].jti = rows[i].jti
                       /\ rows'[i].active => i \notin old /\ rows[i].active
                       /\ i \notin old => rows'[i] = rows[i]
    OBVIOUS
  <2>1. i \in Ids /\ rows[i] \in Rows
    BY <1>4 DEF Present
  <2>2. CASE i \in old
    <3>1. rows'[i] = [rows[i] EXCEPT !.active = FALSE, !.secret = 0]
      BY <1>3, <2>1, <2>2
    <3>2. QED
      BY <2>1, <2>2, <3>1 DEF Rows
  <2>3. CASE i \notin old
    BY <1>3, <2>1, <2>3
  <2>4. QED
    BY <2>2, <2>3
<1>6. \A i \in Ids \ Present : rows'[i] = NoRow
  BY <1>1, <1>3 DEF Present
<1>7. rows' \in [Ids -> Rows \cup {NoRow}] /\ Present' = Present
  <2>1. \A i \in Ids : rows'[i] \in Rows \cup {NoRow}
    BY <1>5, <1>6
  <2>2. rows' \in [Ids -> Rows \cup {NoRow}]
    BY <1>3, <2>1
  <2>3. Present' = Present
    BY <1>5, <1>6, NoRowAssumption DEF Present
  <2>4. QED
    BY <2>2, <2>3
<1>8. /\ crossed' = crossed /\ unrevoked' = unrevoked /\ banned' = banned /\ newest' = newest
      /\ alive' = alive /\ era' = era /\ tokens' = tokens
      /\ admin' = admin /\ concerns' = concerns /\ pairings' = pairings /\ faults' = faults
  BY DEF RevokedOthers, extVars, adminVars, histVars, bounds
<1>9. TypeOK'
  BY <1>7, <1>8 DEF RevokedOthers, Ends, TypeOK, Nothing
<1>10. Busy'
  BY <1>2 DEF Busy
<1>11. AdminHolds' /\ BannedPresent'
  BY <1>1, <1>7, <1>8 DEF AdminHolds, BannedPresent
<1>12. Dense'
  BY <1>5, <1>7, <1>8 DEF Dense
<1>13. DevicesGoWithExtension'
  BY <1>5, <1>7, <1>8 DEF DevicesGoWithExtension
<1>14. OnePairingBy'
  <2>. SUFFICES ASSUME NEW i \in Present, NEW j \in Present, i # j,
                       rows'[i].phone = rows'[j].phone, rows'[i].phone \notin unrevoked,
                       rows'[i].active, rows'[j].active
                PROVE  \E q \in Requests : /\ asks'[q].phone = rows'[i].phone
                                           /\ {i, j} \cap (todo'[q] \cup marked'[q]) # {}
    BY <1>7, <1>8 DEF OnePairingBy
  <2>1. PICK q \in Requests : /\ asks[q].phone = rows[i].phone
                             /\ {i, j} \cap (todo[q] \cup marked[q]) # {}
    BY <1>5 DEF OnePairingBy
  <2>2. i \notin old /\ j \notin old
    BY <1>5
  <2>3. q # r
    BY <2>1, <2>2 DEF old
  <2>4. QED
    BY <1>2, <1>5, <2>1, <2>3
<1>15. ReplayKnows'
  <2>. SUFFICES ASSUME NEW q \in Requests, pc'[q] = "replaying", asks'[q].id \in Present
                PROVE  ReplayCrossed(q)'
    BY <1>7 DEF ReplayKnows
  <2>1. pc[q] = "replaying" /\ asks'[q] = asks[q] /\ saw'[q] = saw[q]
    BY <1>2
  <2>2. QED
    BY <1>5, <1>8, <2>1 DEF ReplayKnows, ReplayCrossed
<1>16. RevokeSticks'
  BY <1>5, <1>8 DEF RevokeSticks, BannedPresent
<1>17. NewestKept'
  <2>. SUFFICES ASSUME NEW p \in Phones, p \notin crossed, newest[p] # 0
                PROVE  \E i \in Present :
                         /\ rows'[i].active /\ rows'[i].secret = newest[p] /\ rows'[i].phone = p
                         /\ \A s \in Requests : i \notin todo'[s] \cup marked'[s]
    BY <1>7, <1>8 DEF NewestKept
  <2>1. PICK i \in Present : /\ rows[i].active /\ rows[i].secret = newest[p]
                            /\ rows[i].phone = p
                            /\ \A s \in Requests : i \notin todo[s] \cup marked[s]
    BY DEF NewestKept
  <2>2. i \notin old
    BY <2>1 DEF old
  <2>3. QED
    BY <1>2, <1>5, <2>1, <2>2
<1>18. QED
  BY <1>9, <1>10, <1>11, <1>12, <1>13, <1>14, <1>15, <1>16, <1>17

-----------------------------------------------------------------------------
(* The admin.                                                              *)

\* A replay under way that has read the row while it was revoked keeps it out of "banned".
LEMMA RevokedKeeps ==
  ASSUME IInv, NEW i \in Present, Revoked(i),
         UNCHANGED <<extVars, reqVars, crossed, unrevoked, bounds>>,
         admin' = "idle", concerns' \subseteq Ids, writer' \in Requests \cup {Admin, Nobody}
  PROVE  IInv'
<1>. USE DEF IInv
<1>1. i \in Ids /\ rows[i] \in Rows /\ rows \in [Ids -> Rows \cup {NoRow}]
  BY DEF TypeOK, Present
<1>. DEFINE row == [rows[i] EXCEPT !.active = FALSE]
<1>2. /\ row \in Rows /\ row.phone = rows[i].phone /\ row.era = rows[i].era
      /\ row.jti = rows[i].jti /\ ~row.active /\ row # NoRow
  BY <1>1, NoRowAssumption DEF Rows
<1>3. rows' = [rows EXCEPT ![i] = row]
  BY DEF Revoked
<1>. HIDE DEF row
<1>4. rows'[i] = row /\ \A j \in Present : j # i => rows'[j] = rows[j]
  BY <1>1, <1>3 DEF Present
<1>5. Present' = Present /\ rows' \in [Ids -> Rows \cup {NoRow}]
  BY <1>1, <1>2, <1>3 DEF Present
<1>6. \A p \in Phones : newest'[p] # 0 => newest'[p] = newest[p] /\ rows[i].secret # newest[p]
  BY DEF Revoked
<1>7. newest' \in [Phones -> Secrets \cup {0}]
  BY DEF Revoked, TypeOK
<1>8. /\ pc' = pc /\ asks' = asks /\ saw' = saw /\ todo' = todo /\ marked' = marked
      /\ alive' = alive /\ era' = era /\ tokens' = tokens /\ crossed' = crossed
      /\ unrevoked' = unrevoked /\ pairings' = pairings /\ faults' = faults
      /\ banned' = IF PairsAgain(i) THEN banned ELSE banned \cup {i}
  BY <1>2, <1>4 DEF Revoked, Bans, extVars, reqVars, bounds
<1>9. TypeOK'
  BY <1>1, <1>5, <1>7, <1>8 DEF TypeOK
<1>10. Busy' /\ AdminHolds'
  BY <1>8 DEF Busy, AdminHolds
<1>11. BannedPresent' /\ Dense'
  BY <1>2, <1>4, <1>5, <1>8 DEF BannedPresent, Dense
<1>12. DevicesGoWithExtension'
  BY <1>2, <1>4, <1>5, <1>8 DEF DevicesGoWithExtension
<1>13. OnePairingBy'
  BY <1>2, <1>4, <1>5, <1>8 DEF OnePairingBy
<1>14. ReplayKnows'
  <2>. SUFFICES ASSUME NEW q \in Requests, pc[q] = "replaying", asks[q].id \in Present
                PROVE  ReplayCrossed(q)'
    BY <1>5, <1>8 DEF ReplayKnows
  <2>1. ReplayCrossed(q)
    BY DEF ReplayKnows
  <2>2. CASE asks[q].id = i
    <3>1. i \in banned' => saw[q].active \/ {rows[i].phone, asks[q].phone} \subseteq crossed
      BY <1>8, <2>1, <2>2 DEF ReplayCrossed, PairsAgain
    <3>2. QED
      BY <1>2, <1>4, <1>8, <2>1, <2>2, <3>1 DEF ReplayCrossed
  <2>3. CASE asks[q].id # i
    BY <1>4, <1>8, <2>1, <2>3 DEF ReplayCrossed
  <2>4. QED
    BY <2>2, <2>3
<1>15. RevokeSticks'
  BY <1>2, <1>4, <1>8 DEF RevokeSticks, BannedPresent
<1>16. NewestKept'
  BY <1>4, <1>5, <1>6, <1>8 DEF NewestKept
<1>17. QED
  BY <1>9, <1>10, <1>11, <1>12, <1>13, <1>14, <1>15, <1>16

\* Only the admin's own bookkeeping and the lock change, and what counts as revoked.
LEMMA AdminMoves ==
  ASSUME IInv, UNCHANGED <<extVars, rows, reqVars, newest, crossed, unrevoked, bounds>>,
         admin' \in {"idle", "revoking", "repeating", "deleting"}, concerns' \subseteq Present,
         writer' \in Requests \cup {Admin, Nobody},
         admin' \in {"revoking", "deleting"} => writer' = Admin,
         admin' = "deleting" => Present \subseteq concerns',
         banned \subseteq banned', banned' \subseteq Present,
         \A i \in banned' \ banned : ~rows[i].active /\ ~PairsAgain(i)
  PROVE  IInv'
<1>. USE DEF IInv
<1>1. /\ rows' = rows /\ Present' = Present
      /\ pc' = pc /\ asks' = asks /\ saw' = saw /\ todo' = todo /\ marked' = marked
      /\ alive' = alive /\ era' = era /\ tokens' = tokens
      /\ newest' = newest /\ crossed' = crossed /\ unrevoked' = unrevoked
      /\ pairings' = pairings /\ faults' = faults
  BY DEF Present, extVars, reqVars, bounds
<1>2. TypeOK'
  BY <1>1 DEF TypeOK, Present
<1>3. Busy' /\ BannedPresent' /\ Dense' /\ OnePairingBy'
  BY <1>1 DEF Busy, BannedPresent, Dense, OnePairingBy
<1>4. AdminHolds'
  BY <1>1 DEF AdminHolds
<1>5. ReplayKnows'
  <2>. SUFFICES ASSUME NEW q \in Requests, pc[q] = "replaying", asks[q].id \in Present
                PROVE  ReplayCrossed(q)'
    BY <1>1 DEF ReplayKnows
  <2>1. ReplayCrossed(q)
    BY DEF ReplayKnows
  <2>2. asks[q].id \in banned' \ banned => ~rows[asks[q].id].active /\ saw[q].active
    BY DEF PairsAgain
  <2>3. QED
    BY <1>1, <2>1, <2>2 DEF ReplayCrossed
<1>6. RevokeSticks' /\ DevicesGoWithExtension' /\ NewestKept'
  BY <1>1 DEF RevokeSticks, DevicesGoWithExtension, NewestKept
<1>7. QED
  BY <1>2, <1>3, <1>4, <1>5, <1>6

LEMMA RevokeKeeps ==
  ASSUME IInv, (\E i \in Ids : RevokeDevice(i)) \/ RevokeCommits \/ RevokeFails
  PROVE  IInv'
<1>1. ASSUME NEW i \in Ids, RevokeDevice(i)
      PROVE  IInv'
  <2>1. i \in Present /\ admin = "idle"
    BY <1>1 DEF RevokeDevice
  <2>2. CASE Revoked(i) /\ UNCHANGED <<adminVars, writer>>
    <3>1. /\ admin' = "idle" /\ concerns' \subseteq Ids
          /\ writer' \in Requests \cup {Admin, Nobody}
      BY <2>1, <2>2 DEF IInv, TypeOK, adminVars
    <3>2. QED
      BY <1>1, <2>1, <2>2, <3>1, RevokedKeeps DEF RevokeDevice
  <2>3. CASE /\ admin' = IF rows[i].active THEN "revoking" ELSE "repeating"
             /\ concerns' = {i}
             /\ \/ MayWrite(Admin) /\ writer' = Admin
                \/ ~rows[i].active /\ UNCHANGED writer
             /\ UNCHANGED <<rows, banned, newest>>
    <3>1. /\ admin' \in {"revoking", "repeating"}
          /\ admin' = "revoking" => writer' = Admin
          /\ writer' \in Requests \cup {Admin, Nobody}
      BY <2>3 DEF IInv, TypeOK
    <3>2. banned' = banned /\ banned \subseteq Present
      BY <2>3 DEF IInv, BannedPresent
    <3>3. UNCHANGED <<extVars, rows, reqVars, newest, crossed, unrevoked, bounds>>
      BY <1>1, <2>3 DEF RevokeDevice
    <3>4. QED
      BY <2>1, <2>3, <3>1, <3>2, <3>3, AdminMoves
  <2>4. QED
    BY <1>1, <2>2, <2>3 DEF RevokeDevice
<1>2. CASE RevokeCommits
  <2>1. PICK i \in concerns :
          \/ Revoked(i)
          \/ UNCHANGED <<rows, newest>> /\ Bans(i)
    BY <1>2 DEF RevokeCommits
  <2>2. i \in Present
    BY <1>2 DEF RevokeCommits, IInv, AdminHolds
  <2>3. /\ admin' = "idle" /\ concerns' = {} /\ writer' \in Requests \cup {Admin, Nobody}
        /\ UNCHANGED <<extVars, reqVars, crossed, unrevoked, bounds>>
    BY <1>2 DEF RevokeCommits, AdminEnds, IInv, TypeOK
  <2>4. CASE Revoked(i)
    BY <2>2, <2>3, <2>4, RevokedKeeps
  <2>5. CASE UNCHANGED <<rows, newest>> /\ Bans(i)
    <3>1. /\ banned \subseteq banned' /\ banned' \subseteq Present
          /\ \A j \in banned' \ banned : ~rows[j].active /\ ~PairsAgain(j)
      BY <2>2, <2>5 DEF Bans, IInv, BannedPresent
    <3>2. QED
      BY <2>3, <2>5, <3>1, AdminMoves
  <2>6. QED
    BY <2>1, <2>4, <2>5
<1>3. CASE RevokeFails
  <2>1. /\ admin' = "idle" /\ concerns' = {} /\ writer' \in Requests \cup {Admin, Nobody}
        /\ UNCHANGED <<extVars, rows, reqVars, newest, crossed, unrevoked, bounds>>
        /\ banned' = banned /\ banned \subseteq Present
    BY <1>3 DEF RevokeFails, AdminEnds, histVars, IInv, TypeOK, BannedPresent
  <2>2. QED
    BY <2>1, AdminMoves
<1>4. QED
  BY <1>1, <1>2, <1>3

\* An extension that is deleted takes all rows with it.
LEMMA GoneKeeps ==
  ASSUME IInv, NEW gone \in SUBSET Ids, Present \subseteq gone, ExtensionGone(gone),
         admin' = "idle", concerns' \subseteq Ids, writer' \in Requests \cup {Admin, Nobody}
  PROVE  IInv'
<1>. USE DEF IInv
<1>1. rows' = [i \in Ids |-> IF i \in gone THEN NoRow ELSE rows[i]]
  BY DEF ExtensionGone
<1>2. \A i \in Ids : rows'[i] = NoRow
  BY <1>1 DEF Present
<1>3. rows' \in [Ids -> Rows \cup {NoRow}] /\ Present' = {}
  BY <1>1, <1>2 DEF Present
<1>4. banned' = {}
  BY DEF ExtensionGone, BannedPresent
<1>5. newest' \in [Phones -> Secrets \cup {0}] /\ \A p \in Phones \ crossed : newest'[p] = 0
  <2>1. newest' = [p \in Phones |-> IF \E i \in gone : rows[i].secret = newest[p]
                                    THEN 0 ELSE newest[p]]
    BY DEF ExtensionGone
  <2>2. \A p \in Phones \ crossed : newest[p] # 0 => \E i \in gone : rows[i].secret = newest[p]
    BY DEF NewestKept
  <2>3. QED
    BY <2>1, <2>2 DEF TypeOK
<1>6. /\ pc' = pc /\ asks' = asks /\ saw' = saw /\ todo' = todo /\ marked' = marked
      /\ alive' = FALSE /\ era' = era /\ tokens' = tokens
      /\ crossed' = crossed /\ unrevoked' = unrevoked
      /\ pairings' = pairings /\ faults' = faults
  BY DEF ExtensionGone, reqVars, bounds
<1>7. TypeOK'
  BY <1>3, <1>4, <1>5, <1>6 DEF TypeOK
<1>8. Busy' /\ AdminHolds' /\ BannedPresent'
  BY <1>4, <1>6 DEF Busy, AdminHolds, BannedPresent
<1>9. Dense'
  <2>1. Present' = 1 .. 0
    BY <1>3
  <2>2. QED
    BY <1>3, <2>1 DEF Dense
<1>10. OnePairingBy' /\ ReplayKnows' /\ RevokeSticks' /\ DevicesGoWithExtension'
  BY <1>3, <1>4 DEF OnePairingBy, ReplayKnows, RevokeSticks, DevicesGoWithExtension
<1>11. NewestKept'
  BY <1>5, <1>6 DEF NewestKept
<1>12. QED
  BY <1>7, <1>8, <1>9, <1>10, <1>11

LEMMA DeleteKeeps ==
  ASSUME IInv, DeleteExtension \/ DeleteCommits
  PROVE  IInv'
<1>1. CASE DeleteExtension /\ Present = {}
  <2>1. ExtensionGone({}) /\ UNCHANGED <<adminVars, writer>> /\ admin = "idle"
    BY <1>1 DEF DeleteExtension
  <2>2. /\ admin' = "idle" /\ concerns' \subseteq Ids
        /\ writer' \in Requests \cup {Admin, Nobody}
    BY <2>1 DEF IInv, TypeOK, adminVars
  <2>3. QED
    BY <1>1, <2>1, <2>2, GoneKeeps
<1>2. CASE DeleteExtension /\ Present # {}
  <2>1. /\ admin' = "deleting" /\ concerns' = Present /\ writer' = Admin
        /\ UNCHANGED <<extVars, rows, reqVars, histVars, bounds>>
    BY <1>2 DEF DeleteExtension, DeletionSent
  <2>2. banned' = banned /\ banned \subseteq Present
    BY <2>1 DEF histVars, IInv, BannedPresent
  <2>3. UNCHANGED <<extVars, rows, reqVars, newest, crossed, unrevoked, bounds>>
    BY <2>1 DEF histVars
  <2>4. QED
    BY <2>1, <2>2, <2>3, AdminMoves
<1>3. CASE DeleteCommits
  <2>1. Present \subseteq concerns /\ concerns \in SUBSET Ids
    BY <1>3 DEF DeleteCommits, IInv, AdminHolds, TypeOK
  <2>2. /\ admin' = "idle" /\ concerns' \subseteq Ids
        /\ writer' \in Requests \cup {Admin, Nobody}
    BY <1>3 DEF DeleteCommits, AdminEnds, IInv, TypeOK
  <2>3. QED
    BY <1>3, <2>1, <2>2, GoneKeeps DEF DeleteCommits
<1>4. QED
  BY <1>1, <1>2, <1>3

\* The extension is created again after all of its rows are gone.
LEMMA CreateKeeps ==
  ASSUME IInv, CreateExtension
  PROVE  IInv'
<1>. USE DEF IInv
<1>1. /\ alive' = TRUE /\ era' = era + 1 /\ era' \in 1 .. MaxEras /\ rows' = rows
      /\ pc' = pc /\ asks' = asks /\ saw' = saw /\ todo' = todo /\ marked' = marked
      /\ tokens' = tokens /\ admin' = admin /\ concerns' = concerns /\ writer' = writer
      /\ newest' = newest /\ crossed' = crossed /\ unrevoked' = unrevoked /\ banned' = banned
      /\ pairings' = pairings /\ faults' = faults
  BY BoundsAssumption DEF CreateExtension, TypeOK, reqVars, adminVars, histVars, bounds
<1>2. Present = {} /\ Present' = {}
  BY <1>1 DEF CreateExtension, Dense, Present
<1>3. TypeOK'
  BY <1>1 DEF TypeOK
<1>4. Busy' /\ AdminHolds' /\ BannedPresent' /\ Dense'
  BY <1>1, <1>2 DEF Busy, AdminHolds, BannedPresent, Dense
<1>5. OnePairingBy' /\ ReplayKnows' /\ DevicesGoWithExtension'
  BY <1>2 DEF OnePairingBy, ReplayKnows, DevicesGoWithExtension
<1>6. RevokeSticks' /\ NewestKept'
  BY <1>1, <1>2 DEF RevokeSticks, NewestKept
<1>7. QED
  BY <1>3, <1>4, <1>5, <1>6

-----------------------------------------------------------------------------
(* Tokens, and restarts.                                                   *)

LEMMA IssueKeeps ==
  ASSUME IInv, NEW t \in Tokens, IssueToken(t)
  PROVE  IInv'
<1>. USE DEF IInv
<1>1. /\ rows' = rows /\ Present' = Present /\ alive' = alive /\ era' = era
      /\ pc' = pc /\ asks' = asks /\ saw' = saw /\ todo' = todo /\ marked' = marked
      /\ admin' = admin /\ concerns' = concerns /\ writer' = writer
      /\ newest' = newest /\ crossed' = crossed /\ unrevoked' = unrevoked /\ banned' = banned
      /\ pairings' = pairings /\ faults' = faults
  BY DEF IssueToken, Present, reqVars, adminVars, histVars, bounds
<1>2. TypeOK'
  BY <1>1 DEF IssueToken, TypeOK
<1>3. Busy' /\ AdminHolds' /\ BannedPresent' /\ Dense' /\ OnePairingBy'
  BY <1>1 DEF Busy, AdminHolds, BannedPresent, Dense, OnePairingBy
<1>4. ReplayKnows'
  BY <1>1 DEF ReplayKnows, ReplayCrossed
<1>5. RevokeSticks' /\ DevicesGoWithExtension' /\ NewestKept'
  BY <1>1 DEF RevokeSticks, DevicesGoWithExtension, NewestKept
<1>6. QED
  BY <1>2, <1>3, <1>4, <1>5

\* A request that was to revoke pairings has died: its phone is in "unrevoked".
LEMMA RestartKeeps ==
  ASSUME IInv, BackendRestarts
  PROVE  IInv'
<1>. USE DEF IInv
<1>. DEFINE revoking == {asks[r].phone : r \in {q \in Requests : pc[q] = "revoking"}}
<1>1. /\ rows' = rows /\ Present' = Present /\ alive' = alive /\ era' = era
      /\ newest' = newest /\ crossed' = crossed /\ banned' = banned /\ pairings' = pairings
      /\ unrevoked' = unrevoked \cup revoking
      /\ admin' = "idle" /\ concerns' = {} /\ writer' = Nobody
      /\ pc' = [r \in Requests |-> "idle"] /\ asks' = [r \in Requests |-> Nothing]
      /\ saw' = [r \in Requests |-> NoRow]
      /\ todo' = [r \in Requests |-> {}] /\ marked' = [r \in Requests |-> {}]
  BY DEF BackendRestarts, Present
<1>2. revoking \subseteq Phones
  BY DEF Busy
<1>3. \A r \in Requests : pc[r] = "revoking" => asks[r].phone \in revoking
  OBVIOUS
<1>. HIDE DEF revoking
<1>4. TypeOK'
  <2>1. tokens' \in [Tokens -> {"new", "valid", "dead"}] /\ faults' \in 0 .. MaxFaults
    BY BoundsAssumption DEF BackendRestarts, TypeOK
  <2>2. QED
    BY <1>1, <1>2, <2>1 DEF TypeOK, Nothing
<1>5. Busy' /\ AdminHolds' /\ BannedPresent' /\ Dense'
  BY <1>1 DEF Busy, AdminHolds, BannedPresent, Dense
<1>6. OnePairingBy'
  <2>. SUFFICES ASSUME NEW i \in Present, NEW j \in Present, i # j,
                       rows[i].phone = rows[j].phone, rows[i].phone \notin unrevoked',
                       rows[i].active, rows[j].active
                PROVE  FALSE
    BY <1>1 DEF OnePairingBy
  <2>1. PICK q \in Requests : /\ asks[q].phone = rows[i].phone
                             /\ {i, j} \cap (todo[q] \cup marked[q]) # {}
    BY <1>1 DEF OnePairingBy
  <2>2. pc[q] = "revoking"
    BY <2>1 DEF Busy
  <2>3. QED
    BY <1>1, <1>3, <2>1, <2>2
<1>7. ReplayKnows'
  BY <1>1 DEF ReplayKnows
<1>8. RevokeSticks' /\ DevicesGoWithExtension' /\ NewestKept'
  BY <1>1 DEF RevokeSticks, DevicesGoWithExtension, NewestKept
<1>9. QED
  BY <1>4, <1>5, <1>6, <1>7, <1>8

-----------------------------------------------------------------------------
LEMMA InitIInv == Init => IInv
<1>. SUFFICES ASSUME Init PROVE IInv
  OBVIOUS
<1>1. Present = {}
  BY DEF Init, Present
<1>2. TypeOK
  BY BoundsAssumption DEF Init, TypeOK, Nothing
<1>3. Busy /\ AdminHolds /\ BannedPresent
  BY DEF Init, Busy, AdminHolds, BannedPresent
<1>4. Dense
  <2>1. Present = 1 .. 0
    BY <1>1
  <2>2. QED
    BY <1>1, <2>1 DEF Dense
<1>5. OnePairingBy /\ ReplayKnows /\ DevicesGoWithExtension
  BY <1>1 DEF OnePairingBy, ReplayKnows, DevicesGoWithExtension
<1>6. RevokeSticks /\ NewestKept
  BY DEF Init, RevokeSticks, NewestKept
<1>7. QED
  BY <1>2, <1>3, <1>4, <1>5, <1>6 DEF IInv

LEMMA StutterKeeps ==
  ASSUME IInv, UNCHANGED vars
  PROVE  IInv'
<1>. USE DEF IInv
<1>1. /\ rows' = rows /\ Present' = Present /\ alive' = alive /\ era' = era
      /\ pc' = pc /\ asks' = asks /\ saw' = saw /\ todo' = todo /\ marked' = marked
      /\ admin' = admin /\ concerns' = concerns /\ writer' = writer /\ tokens' = tokens
      /\ newest' = newest /\ crossed' = crossed /\ unrevoked' = unrevoked /\ banned' = banned
      /\ pairings' = pairings /\ faults' = faults
  BY DEF vars, Present, extVars, reqVars, adminVars, histVars, bounds
<1>2. TypeOK'
  BY <1>1 DEF TypeOK
<1>3. Busy' /\ AdminHolds' /\ BannedPresent' /\ Dense' /\ OnePairingBy'
  BY <1>1 DEF Busy, AdminHolds, BannedPresent, Dense, OnePairingBy
<1>4. ReplayKnows'
  BY <1>1 DEF ReplayKnows, ReplayCrossed
<1>5. RevokeSticks' /\ DevicesGoWithExtension' /\ NewestKept'
  BY <1>1 DEF RevokeSticks, DevicesGoWithExtension, NewestKept
<1>6. QED
  BY <1>2, <1>3, <1>4, <1>5

LEMMA NextKeeps == IInv /\ [Next]_vars => IInv'
<1>. SUFFICES ASSUME IInv, [Next]_vars PROVE IInv'
  OBVIOUS
<1>1. ASSUME NEW t \in Tokens, IssueToken(t) PROVE IInv'
  BY <1>1, IssueKeeps
<1>2. ASSUME NEW r \in Requests, NEW p \in Phones, NEW t \in Tokens, CompletePairing(r, t, p)
      PROVE  IInv'
  BY <1>2, CompleteKeeps
<1>3. ASSUME NEW r \in Requests, NEW p \in Phones, NEW i \in Ids, ReplayReads(r, i, p)
      PROVE  IInv'
  BY <1>3, ReplayReadsKeeps
<1>4. ASSUME NEW r \in Requests, ReplayCommits(r) PROVE IInv'
  BY <1>4, ReplayKeeps
<1>5. ASSUME NEW r \in Requests, ReplayFails(r) \/ RevokingFails(r) PROVE IInv'
  BY <1>5, FailuresKeep
<1>6. ASSUME NEW r \in Requests, RevokeOther(r) PROVE IInv'
  BY <1>6, RevokeOtherKeeps
<1>7. ASSUME NEW r \in Requests, RevokedOthers(r) PROVE IInv'
  BY <1>7, RevokedOthersKeeps
<1>8. CASE (\E i \in Ids : RevokeDevice(i)) \/ RevokeCommits \/ RevokeFails
  BY <1>8, RevokeKeeps
<1>9. CASE DeleteExtension \/ DeleteCommits
  BY <1>9, DeleteKeeps
<1>10. CASE CreateExtension
  BY <1>10, CreateKeeps
<1>11. CASE BackendRestarts
  BY <1>11, RestartKeeps
<1>12. CASE UNCHANGED vars
  BY <1>12, StutterKeeps
<1>13. QED
  BY <1>1, <1>2, <1>3, <1>4, <1>5, <1>6, <1>7, <1>8, <1>9, <1>10, <1>11, <1>12 DEF Next

LEMMA Inductive == Spec => []IInv
BY InitIInv, NextKeeps, PTL DEF Spec

-----------------------------------------------------------------------------
\* Every variable keeps its type (mobile_provisioning.py, the MobileDevice rows).
THEOREM TypeCorrect == Spec => []TypeOK
<1>1. IInv => TypeOK
  BY DEF IInv
<1>2. QED
  BY <1>1, Inductive, PTL

\* Two active pairings of one phone do not stay, whatever else pairs, replays, is
\* revoked or deleted meanwhile (complete_provisioning).
THEOREM OnePairingPerPhone == Spec => []OnePairing
<1>1. IInv => OnePairing
  BY DEF IInv, OnePairing, OnePairingBy
<1>2. QED
  BY <1>1, Inductive, PTL

\* A pairing that the admin has revoked is not active again until its phone pairs,
\* unless two requests of the phone, one a replay, have crossed, or the revocation was
\* a second one beside a replay that had read the first (revoke_device).
THEOREM RevocationsStick == Spec => []RevokeSticks
<1>1. IInv => RevokeSticks
  BY DEF IInv
<1>2. QED
  BY <1>1, Inductive, PTL

\* No pairing outlives its extension (delete_extension).
THEOREM NoOrphans == Spec => []DevicesGoWithExtension
<1>1. IInv => DevicesGoWithExtension
  BY DEF IInv
<1>2. QED
  BY <1>1, Inductive, PTL

\* A phone's newest pairing works until the admin ends it or its token is used by
\* another phone (complete_provisioning).
THEOREM NewestWorks == Spec => []NewestPairingLives
<1>1. IInv => NewestPairingLives
  BY DEF IInv, NewestPairingLives, NewestKept
<1>2. QED
  BY <1>1, Inductive, PTL
=============================================================================
