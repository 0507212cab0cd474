------------------------- MODULE Components_proofs -------------------------
(***************************************************************************)
(* Proofs about components that share no state: the import of accounts     *)
(* (AuthStore), the download priorities of a cache (CachePriority), the    *)
(* registry of torrents (TorrentRegistry), the commands of torrctl         *)
(* (ManagementClient) and the release directory (ReleaseBundle).           *)
(***************************************************************************)
EXTENDS AuthStore, CachePriority, TorrentRegistry, ManagementClient,
        ReleaseBundle, SequenceTheorems, FiniteSetTheorems, TLAPS

-----------------------------------------------------------------------------
(* Accounts.                                                               *)

\* accs.db holds accounts.
Legible == accsDB \notin {NoFile, Unparsable}

\* The file stays whole until it goes, and what a running import has passed is in
\* the store, or AddUser failed for it, or an administrator has removed it since.
Imports ==
  /\ ~authInstalled => authPhase = "down" /\ importable = {}
  /\ Legible => importable \subseteq DOMAIN accsDB
  /\ authPhase = "import" =>
       /\ Legible /\ accounts \subseteq DOMAIN accsDB
       /\ \A n \in DOMAIN accsDB \ accounts : users[n] # NoUser \/ n \in removed \cup failed

AuthInv == AuthTypeOK /\ Imports /\ importable \subseteq UserNames /\ FileOutlivesImport

\* A content of accs.db maps names of users to passwords.
LEMMA LegibleMap ==
  ASSUME NEW m \in Maps(UserNames)
  PROVE  /\ DOMAIN m \subseteq UserNames
         /\ \A n \in DOMAIN m : m[n] \in Passwords
         /\ m \notin {NoFile, Unparsable}
<1>1. PICK N \in SUBSET UserNames : m \in [N -> Passwords]
  BY Zenon DEF Maps
<1>2. m \notin {NoFile, Unparsable}
  BY AuthAssumption
<1> QED
  BY <1>1, <1>2

\* AddUser never takes an account away, and adds the one it may add.
LEMMA AddUserKeeps ==
  ASSUME users \in [UserNames -> Passwords \cup {NoUser}],
         NEW n \in UserNames, NEW p \in Passwords, AddUser(n, p)
  PROVE  /\ users' \in [UserNames -> Passwords \cup {NoUser}]
         /\ \A m \in UserNames : users[m] # NoUser => users'[m] # NoUser
         /\ mayAdd(n, p) => users'[n] # NoUser
BY AuthAssumption DEF AddUser

LEMMA AuthInitInv == AuthInit => AuthInv
<1> SUFFICES ASSUME AuthInit PROVE AuthInv
  OBVIOUS
<1>1. AuthTypeOK
  BY DEF AuthInit, AuthTypeOK
<1>2. Imports
  BY DEF AuthInit, Imports, Legible
<1> QED
  BY <1>1, <1>2 DEF AuthInit, AuthInv, FileOutlivesImport

\* No step of a start, a request or the death of the process loses an account.
LEMMA AuthStep == AuthInv /\ [AuthNext]_authVars => AuthInv'
<1> SUFFICES ASSUME AuthInv, [AuthNext]_authVars PROVE AuthInv'
  OBVIOUS
<1> USE DEF AuthInv, AuthTypeOK, Imports, Legible, FileOutlivesImport
<1>f. accsDB \notin {NoFile, Unparsable} =>
        DOMAIN accsDB \subseteq UserNames /\ \A n \in DOMAIN accsDB : accsDB[n] \in Passwords
  BY LegibleMap
<1>1. ASSUME Install PROVE AuthInv'
  <2>1. CASE accsDB' \in LegacyAccounts
    <3>1. accsDB' \in Maps(UserNames)
      BY <2>1, AuthAssumption
    <3>2. DOMAIN accsDB' \subseteq UserNames /\ accsDB' \notin {NoFile, Unparsable}
      BY <3>1, LegibleMap
    <3> QED
      BY <1>1, <2>1, <3>1, <3>2 DEF Install
  <2>2. CASE accsDB' \notin LegacyAccounts
    BY <1>1, <2>2 DEF Install
  <2> QED
    BY <2>1, <2>2
<1>2. ASSUME StartWithoutStore PROVE AuthInv'
  BY <1>2 DEF StartWithoutStore
<1>3. ASSUME StartMigration PROVE AuthInv'
  BY <1>3, <1>f DEF StartMigration
<1>4. ASSUME ImportOne PROVE AuthInv'
  <2>1. PICK n \in accounts :
          /\ accounts' = accounts \ {n}
          /\ \/ /\ AddUser(n, accsDB[n])
                /\ failed' = IF mayAdd(n, accsDB[n]) THEN failed ELSE failed \cup {n}
             \/ UNCHANGED users /\ failed' = failed \cup {n}
    BY <1>4 DEF ImportOne
  <2>2. n \in UserNames /\ accsDB[n] \in Passwords
    BY <1>4, <1>f DEF ImportOne
  <2>3. /\ users' \in [UserNames -> Passwords \cup {NoUser}]
        /\ \A m \in UserNames : users[m] # NoUser => users'[m] # NoUser
        /\ users'[n] # NoUser \/ n \in failed'
        /\ failed \subseteq failed'
    <3>1. CASE UNCHANGED users /\ failed' = failed \cup {n}
      BY <3>1
    <3>2. CASE /\ AddUser(n, accsDB[n])
               /\ failed' = IF mayAdd(n, accsDB[n]) THEN failed ELSE failed \cup {n}
      BY <2>2, <3>2, AddUserKeeps
    <3> QED
      BY <2>1, <3>1, <3>2
  <2> QED
    BY <1>4, <1>f, <2>1, <2>3 DEF ImportOne
<1>5. ASSUME RemoveLegacyFile PROVE AuthInv'
  BY <1>5, <1>f DEF RemoveLegacyFile
<1>6. ASSUME EnsureDefaultToken PROVE AuthInv'
  BY <1>6 DEF EnsureDefaultToken
<1>7. ASSUME AuthRequest PROVE AuthInv'
  <2> DEFINE Kept ==
        /\ users' \in [UserNames -> Passwords \cup {NoUser}]
        /\ removed \subseteq removed'
        /\ \A m \in UserNames : users[m] # NoUser => users'[m] # NoUser \/ m \in removed'
  <2>1. Kept
    <3>1. ASSUME NEW n \in UserNames, NEW p \in Passwords, HandleAddUser(n, p) PROVE Kept
      BY <3>1, AddUserKeeps DEF HandleAddUser
    <3>2. ASSUME NEW n \in UserNames, HandleRemoveUser(n) PROVE Kept
      BY <3>2 DEF HandleRemoveUser
    <3>3. ASSUME NEW t \in Tokens, HandleSetToken(t) PROVE Kept
      BY <3>3 DEF HandleSetToken
    <3> QED
      BY <1>7, <3>1, <3>2, <3>3 DEF AuthRequest
  <2>2. authPhase = "serving"
    BY <1>7 DEF AuthRequest, HandleAddUser, HandleRemoveUser, HandleSetToken
  <2> QED
    BY <1>7, <2>1, <2>2 DEF AuthRequest
<1>8. ASSUME AuthDown PROVE AuthInv'
  BY <1>8 DEF AuthDown
<1>9. ASSUME UNCHANGED authVars PROVE AuthInv'
  BY <1>9 DEF authVars
<1> QED
  BY <1>1, <1>2, <1>3, <1>4, <1>5, <1>6, <1>7, <1>8, <1>9 DEF AuthNext

\* For any accounts in it, and however often the process dies between two transactions of
\* the import: accs.db is not removed before every account in it has been added, has
\* failed to be, or has been removed by an administrator (auth/migrate.go).
THEOREM FileGoesLast == AuthSpec => []FileOutlivesImport
<1>1. AuthInv => FileOutlivesImport
  BY DEF AuthInv
<1> QED
  BY <1>1, AuthInitInv, AuthStep, PTL DEF AuthSpec

-----------------------------------------------------------------------------
(* Priorities.                                                             *)

\* The largest of some priorities is one of them (applyDesiredPriorities keeps
\* the largest).
LEMMA LargestPriority ==
  ASSUME NEW S \in SUBSET (PriorityNormal .. PriorityNow), S # {}
  PROVE  Max(S) \in S
<1>1. \E x \in S : \A y \in S : x >= y
  <2>1. CASE 5 \in S
    BY <2>1 DEF PriorityNormal, PriorityNow
  <2>2. CASE 5 \notin S /\ 4 \in S
    BY <2>2 DEF PriorityNormal, PriorityNow
  <2>3. CASE 5 \notin S /\ 4 \notin S /\ 3 \in S
    BY <2>3 DEF PriorityNormal, PriorityNow
  <2>4. CASE 5 \notin S /\ 4 \notin S /\ 3 \notin S /\ 2 \in S
    BY <2>4 DEF PriorityNormal, PriorityNow
  <2>5. CASE 5 \notin S /\ 4 \notin S /\ 3 \notin S /\ 2 \notin S
    <3>1. \A x \in S : x = 1
      BY <2>5 DEF PriorityNormal, PriorityNow
    <3>2. PICK x \in S : TRUE
      OBVIOUS
    <3>3. \A y \in S : x >= y
      BY <3>1
    <3> QED
      BY <3>3
  <2> QED
    BY <2>1, <2>2, <2>3, <2>4, <2>5
<1> QED
  BY <1>1 DEF Max

\* A piece that somebody wants has a priority (desiredPriorities).
LEMMA DesiredIsPriority ==
  ASSUME NEW snapshot
  PROVE  desiredPriorities(snapshot) \in [PriorityPieces -> PriorityNone .. PriorityNow]
<1> DEFINE budget == priorityPieceBudget(ConnectionsLimit, Cardinality(snapshot))
           wanting(p) == {at \in snapshot : p \in chosen(at, budget)}
<1>1. \A p, at : desiredPiecePriority(p, at) \in PriorityNormal .. PriorityNow
  BY DEF desiredPiecePriority, PriorityNormal, PriorityHigh, PriorityReadahead,
         PriorityNext, PriorityNow
<1>2. ASSUME NEW p \in PriorityPieces, wanting(p) # {}
      PROVE  Max({desiredPiecePriority(p, at) : at \in wanting(p)})
               \in PriorityNone .. PriorityNow
  <2> DEFINE S == {desiredPiecePriority(p, at) : at \in wanting(p)}
  <2>1. S \in SUBSET (PriorityNormal .. PriorityNow) /\ S # {}
    BY <1>1, <1>2, Zenon
  <2>2. Max(S) \in PriorityNormal .. PriorityNow
    <3> HIDE DEF S
    <3> QED
      BY <2>1, LargestPriority
  <2> QED
    BY <2>2 DEF PriorityNone, PriorityNormal, PriorityNow
<1>3. PriorityNone \in PriorityNone .. PriorityNow
  BY DEF PriorityNone, PriorityNow
<1> HIDE DEF wanting, budget
<1>4. [p \in PriorityPieces |->
         IF wanting(p) = {} THEN PriorityNone
         ELSE Max({desiredPiecePriority(p, at) : at \in wanting(p)})]
       \in [PriorityPieces -> PriorityNone .. PriorityNow]
  BY <1>2, <1>3
<1> QED
  BY <1>4 DEF desiredPriorities, wanting, budget


\* A reader's window, as its snapshot has it (Reader.getPiecesRange).
LEMMA SnapshotTypes ==
  ASSUME position \in [PriorityReaders -> PriorityPieces \cup {-1}]
  PROVE  Snapshots \subseteq SUBSET Windows
<1>1. ASSUME NEW a \in Int, NEW b \in Int PROVE Max({a, b}) \in Int /\ Min({a, b}) \in Int
  <2>1. \E x \in {a, b} : \A y \in {a, b} : x >= y
    OBVIOUS
  <2>2. \E x \in {a, b} : \A y \in {a, b} : x =< y
    OBVIOUS
  <2> QED
    BY <2>1, <2>2 DEF Max, Min
<1>2. ASSUME NEW r \in PriorityReaders PROVE At(r) \in Windows
  <2>1. position[r] \in Int /\ ReadaheadPieces \in Int /\ Backward \in Int /\ Forward \in Int
        /\ FileEnd \in Int
    BY PriorityAssumption DEF PriorityPieces
  <2>2. position[r] - Backward \in Int /\ position[r] + Forward \in Int /\ 0 \in Int
    BY <2>1
  <2>3. Max({0, position[r] - Backward}) \in Int /\ Min({FileEnd, position[r] + Forward}) \in Int
    BY <1>1, <2>1, <2>2, Zenon
  <2> QED
    BY <2>1, <2>3 DEF At, Windows
<1>3. ASSUME NEW A \in SUBSET PriorityReaders PROVE {At(r) : r \in A} \in SUBSET Windows
  BY <1>2
<1>4. openReaders \subseteq PriorityReaders
  BY DEF openReaders
<1> QED
  BY <1>3, <1>4 DEF Snapshots

\* Every step leaves positions, priorities and snapshots in their types.
LEMMA PriorityDataStep ==
  ASSUME PriorityData, [PrioritiesNext]_priorityVars
  PROVE  PriorityData'
<1> USE PriorityAssumption DEF PriorityData, Work, Resting, NothingDesired, PriorityNone, PriorityNow
<1>1. ASSUME NEW r \in PriorityReaders, MoveReader(r)  PROVE  PriorityData'
  BY <1>1 DEF MoveReader
<1>2. ASSUME NEW r \in PriorityReaders, ClosePriorityReader(r)  PROVE  PriorityData'
  BY <1>2 DEF ClosePriorityReader, armClear
<1>3. ASSUME NEW p \in PriorityPieces, PieceArrives(p)  PROVE  PriorityData'
  BY <1>3 DEF PieceArrives
<1>4. ASSUME NEW p \in PriorityPieces, ReleasePiece(p)  PROVE  PriorityData'
  BY <1>4 DEF ReleasePiece
<1>5. ASSUME NEW p \in PriorityPieces, ClearReleased(p)  PROVE  PriorityData'
  BY <1>5 DEF ClearReleased
<1>6. ASSUME QueueUpdate  PROVE  PriorityData'
  BY <1>6 DEF QueueUpdate
<1>7. ASSUME ClosePriorities  PROVE  PriorityData'
  BY <1>7 DEF ClosePriorities, Untracked
<1>8. ASSUME UpdateSnapshot  PROVE  PriorityData'
  BY <1>8, SnapshotTypes DEF UpdateSnapshot
<1>9. ASSUME UpdateClear  PROVE  PriorityData'
  BY <1>9 DEF UpdateClear, clearOutside
<1>10. ASSUME UpdateDesired  PROVE  PriorityData'
  BY <1>10, DesiredIsPriority DEF UpdateDesired
<1>11. ASSUME UpdateApply  PROVE  PriorityData'
  BY <1>11 DEF UpdateApply
<1>12. ASSUME ClearFires  PROVE  PriorityData'
  BY <1>12 DEF ClearFires
<1>13. ASSUME ClearSnapshot  PROVE  PriorityData'
  <2>1. PICK s \in Snapshots : clearing' = [Resting EXCEPT !.pc = "clear", !.at = s]
    BY <1>13 DEF ClearSnapshot
  <2>2. s \in SUBSET Windows
    BY SnapshotTypes
  <2>3. clearing' = [pc |-> "clear", at |-> s, desired |-> NothingDesired]
    BY <2>1
  <2>4. clearing' \in Work
    BY <2>2, <2>3
  <2> QED
    BY <1>13, <2>4 DEF ClearSnapshot
<1>14. ASSUME ClearApply  PROVE  PriorityData'
  BY <1>14 DEF ClearApply, clearOutside
<1>15. ASSUME UNCHANGED priorityVars  PROVE  PriorityData'
  BY <1>15 DEF priorityVars
<1> QED
  BY <1>1, <1>2, <1>3, <1>4, <1>5, <1>6, <1>7, <1>8,
     <1>9, <1>10, <1>11, <1>12, <1>13, <1>14, <1>15
  DEF PrioritiesNext, UpdateStep, ClearStep

\* The flags stay Boolean.
LEMMA PriorityFlagsStep ==
  ASSUME clearArmed \in BOOLEAN, priorityClosed \in BOOLEAN, [PrioritiesNext]_priorityVars
  PROVE  clearArmed' \in BOOLEAN /\ priorityClosed' \in BOOLEAN
<1>1. ASSUME NEW r \in PriorityReaders, MoveReader(r)  PROVE  clearArmed' \in BOOLEAN /\ priorityClosed' \in BOOLEAN
  BY <1>1, Zenon DEF MoveReader
<1>2. ASSUME NEW r \in PriorityReaders, ClosePriorityReader(r)  PROVE  clearArmed' \in BOOLEAN /\ priorityClosed' \in BOOLEAN
  BY <1>2, Zenon DEF ClosePriorityReader, armClear
<1>3. ASSUME NEW p \in PriorityPieces, PieceArrives(p)  PROVE  clearArmed' \in BOOLEAN /\ priorityClosed' \in BOOLEAN
  BY <1>3, Zenon DEF PieceArrives
<1>4. ASSUME NEW p \in PriorityPieces, ReleasePiece(p)  PROVE  clearArmed' \in BOOLEAN /\ priorityClosed' \in BOOLEAN
  BY <1>4, Zenon DEF ReleasePiece
<1>5. ASSUME NEW p \in PriorityPieces, ClearReleased(p)  PROVE  clearArmed' \in BOOLEAN /\ priorityClosed' \in BOOLEAN
  BY <1>5, Zenon DEF ClearReleased
<1>6. ASSUME QueueUpdate  PROVE  clearArmed' \in BOOLEAN /\ priorityClosed' \in BOOLEAN
  BY <1>6, Zenon DEF QueueUpdate
<1>7. ASSUME ClosePriorities  PROVE  clearArmed' \in BOOLEAN /\ priorityClosed' \in BOOLEAN
  BY <1>7, Zenon DEF ClosePriorities
<1>8. ASSUME UpdateSnapshot  PROVE  clearArmed' \in BOOLEAN /\ priorityClosed' \in BOOLEAN
  BY <1>8, Zenon DEF UpdateSnapshot
<1>9. ASSUME UpdateClear  PROVE  clearArmed' \in BOOLEAN /\ priorityClosed' \in BOOLEAN
  BY <1>9, Zenon DEF UpdateClear
<1>10. ASSUME UpdateDesired  PROVE  clearArmed' \in BOOLEAN /\ priorityClosed' \in BOOLEAN
  BY <1>10, Zenon DEF UpdateDesired
<1>11. ASSUME UpdateApply  PROVE  clearArmed' \in BOOLEAN /\ priorityClosed' \in BOOLEAN
  BY <1>11, Zenon DEF UpdateApply
<1>12. ASSUME ClearFires  PROVE  clearArmed' \in BOOLEAN /\ priorityClosed' \in BOOLEAN
  BY <1>12, Zenon DEF ClearFires
<1>13. ASSUME ClearSnapshot  PROVE  clearArmed' \in BOOLEAN /\ priorityClosed' \in BOOLEAN
  BY <1>13, Zenon DEF ClearSnapshot
<1>14. ASSUME ClearApply  PROVE  clearArmed' \in BOOLEAN /\ priorityClosed' \in BOOLEAN
  BY <1>14, Zenon DEF ClearApply
<1>15. ASSUME UNCHANGED priorityVars  PROVE  clearArmed' \in BOOLEAN /\ priorityClosed' \in BOOLEAN
  BY <1>15, Zenon DEF priorityVars
<1> QED
  BY <1>1, <1>2, <1>3, <1>4, <1>5, <1>6, <1>7, <1>8,
     <1>9, <1>10, <1>11, <1>12, <1>13, <1>14, <1>15
  DEF PrioritiesNext, UpdateStep, ClearStep

\* A priority is raised and tracked in one step, and lowered before it is
\* untracked, or while the piece is being released.
LEMMA RaisedTrackedStep ==
  ASSUME PriorityTypeOK, RaisedTracked, [PrioritiesNext]_priorityVars
  PROVE  RaisedTracked'
<1> USE DEF PriorityTypeOK, PriorityData, Work, RaisedTracked, PriorityNone, PriorityNow
<1>1. ASSUME NEW r \in PriorityReaders, MoveReader(r)  PROVE  RaisedTracked'
  BY <1>1 DEF MoveReader
<1>2. ASSUME NEW r \in PriorityReaders, ClosePriorityReader(r)  PROVE  RaisedTracked'
  BY <1>2 DEF ClosePriorityReader
<1>3. ASSUME NEW p \in PriorityPieces, PieceArrives(p)  PROVE  RaisedTracked'
  BY <1>3 DEF PieceArrives
<1>4. ASSUME NEW p \in PriorityPieces, ReleasePiece(p)  PROVE  RaisedTracked'
  BY <1>4 DEF ReleasePiece
<1>5. ASSUME NEW p \in PriorityPieces, ClearReleased(p)  PROVE  RaisedTracked'
  BY <1>5 DEF ClearReleased
<1>6. ASSUME QueueUpdate  PROVE  RaisedTracked'
  BY <1>6 DEF QueueUpdate
<1>7. ASSUME ClosePriorities  PROVE  RaisedTracked'
  BY <1>7 DEF ClosePriorities
<1>8. ASSUME UpdateSnapshot  PROVE  RaisedTracked'
  BY <1>8 DEF UpdateSnapshot
<1>9. ASSUME UpdateClear  PROVE  RaisedTracked'
  BY <1>9 DEF UpdateClear, clearOutside
<1>10. ASSUME UpdateDesired  PROVE  RaisedTracked'
  BY <1>10 DEF UpdateDesired
<1>11. ASSUME UpdateApply  PROVE  RaisedTracked'
  BY <1>11 DEF UpdateApply
<1>12. ASSUME ClearFires  PROVE  RaisedTracked'
  BY <1>12 DEF ClearFires
<1>13. ASSUME ClearSnapshot  PROVE  RaisedTracked'
  BY <1>13 DEF ClearSnapshot
<1>14. ASSUME ClearApply  PROVE  RaisedTracked'
  BY <1>14 DEF ClearApply, clearOutside
<1>15. ASSUME UNCHANGED priorityVars  PROVE  RaisedTracked'
  BY <1>15 DEF priorityVars
<1> QED
  BY <1>1, <1>2, <1>3, <1>4, <1>5, <1>6, <1>7, <1>8,
     <1>9, <1>10, <1>11, <1>12, <1>13, <1>14, <1>15
  DEF PrioritiesNext, UpdateStep, ClearStep

\* Nothing is raised, nothing is tracked.
LEMMA PriorityInitInv == PriorityInit => PriorityTypeOK /\ RaisedTracked
<1> SUFFICES ASSUME PriorityInit PROVE PriorityTypeOK /\ RaisedTracked
  OBVIOUS
<1>1. PriorityData
  BY DEF PriorityInit, PriorityData, Work, Resting, NothingDesired, Untracked, PriorityNone,
         PriorityNow
<1>2. clearArmed \in BOOLEAN /\ priorityClosed \in BOOLEAN
  BY Zenon DEF PriorityInit
<1>3. RaisedTracked
  BY DEF PriorityInit, RaisedTracked
<1> QED
  BY <1>1, <1>2, <1>3 DEF PriorityTypeOK

\* For any readers, windows and limits of connections, every piece whose priority
\* is raised is tracked or on its way out, so that an update or the clearing of
\* the cache finds it, whatever they interleave with (cache_priority.go, piece.go).
THEOREM RaisedStayTracked == PrioritySpec => []RaisedTracked
<1> DEFINE PriorityInv == PriorityTypeOK /\ RaisedTracked
<1>1. PriorityInit => PriorityInv
  BY PriorityInitInv
<1>2. PriorityInv /\ [PrioritiesNext]_priorityVars => PriorityInv'
  BY PriorityDataStep, PriorityFlagsStep, RaisedTrackedStep DEF PriorityTypeOK
<1>3. PriorityInv => RaisedTracked
  OBVIOUS
<1> QED
  BY <1>1, <1>2, <1>3, PTL DEF PrioritySpec


-----------------------------------------------------------------------------
(* The registry of torrents.                                               *)

\* A handler is closing the wrapper.
BeingClosed(w) ==
  \E h \in Handlers : handler[h].tor = w /\ handler[h].pc \in {"close", "closeHash", "drop"}

\* A handler that works on a wrapper has one.
HoldsWrapper ==
  \A h \in Handlers :
    handler[h].pc \in {"store", "added", "gotInfo", "wait", "close", "closeHash", "drop"} =>
      handler[h].tor # 0

\* A wrapper that has not been stored yet is known to its maker alone.
Unshared ==
  \A h \in Handlers : handler[h].pc = "store" =>
    /\ entry # handler[h].tor
    /\ \A g \in Handlers \ {h} : handler[g].tor # handler[h].tor

\* As long as no Close has taken the entry of another wrapper, the live wrappers
\* that handlers have are the registered one and those being closed.
Findable ==
  ~displaced =>
    \A h \in Handlers, w \in DOMAIN wrappers :
      (Has(h, w) /\ Alive(w) /\ ~BeingClosed(w)) => w = entry

RegistryInv == RegistryTypeOK /\ HoldsWrapper /\ Unshared /\ Findable

\* The flags stay Boolean.
LEMMA RegistryFlagsStep ==
  ASSUME stored \in BOOLEAN, displaced \in BOOLEAN, [RegistryNext]_registryVars
  PROVE  stored' \in BOOLEAN /\ displaced' \in BOOLEAN
<1>1. ASSUME NEW h \in Handlers, StartAdd(h)  PROVE  stored' \in BOOLEAN /\ displaced' \in BOOLEAN
  BY <1>1, Zenon DEF StartAdd
<1>2. ASSUME NEW h \in Handlers, StartPlay(h)  PROVE  stored' \in BOOLEAN /\ displaced' \in BOOLEAN
  BY <1>2, Zenon DEF StartPlay
<1>3. ASSUME NEW h \in Handlers, StartRemove(h)  PROVE  stored' \in BOOLEAN /\ displaced' \in BOOLEAN
  BY <1>3, Zenon DEF StartRemove
<1>4. ASSUME NEW h \in Handlers, AddTorrentSpec(h)  PROVE  stored' \in BOOLEAN /\ displaced' \in BOOLEAN
  BY <1>4, Zenon DEF AddTorrentSpec
<1>5. ASSUME NEW h \in Handlers, RegistryGet(h)  PROVE  stored' \in BOOLEAN /\ displaced' \in BOOLEAN
  BY <1>5, Zenon DEF RegistryGet
<1>6. ASSUME NEW h \in Handlers, LoadOrStore(h)  PROVE  stored' \in BOOLEAN /\ displaced' \in BOOLEAN
  BY <1>6, Zenon DEF LoadOrStore
<1>7. ASSUME NEW h \in Handlers, Added(h)  PROVE  stored' \in BOOLEAN /\ displaced' \in BOOLEAN
  BY <1>7, Zenon DEF Added
<1>8. ASSUME NEW h \in Handlers, GotInfo(h)  PROVE  stored' \in BOOLEAN /\ displaced' \in BOOLEAN
  BY <1>8, Zenon DEF GotInfo
<1>9. ASSUME NEW h \in Handlers, WaitInfoReady(h)  PROVE  stored' \in BOOLEAN /\ displaced' \in BOOLEAN
  BY <1>9, Zenon DEF WaitInfoReady
<1>10. ASSUME NEW h \in Handlers, WaitInfoClosed(h)  PROVE  stored' \in BOOLEAN /\ displaced' \in BOOLEAN
  BY <1>10, Zenon DEF WaitInfoClosed
<1>11. ASSUME NEW h \in Handlers, WaitInfoTimeout(h)  PROVE  stored' \in BOOLEAN /\ displaced' \in BOOLEAN
  BY <1>11, Zenon DEF WaitInfoTimeout
<1>12. ASSUME NEW h \in Handlers, CloseEntry(h)  PROVE  stored' \in BOOLEAN /\ displaced' \in BOOLEAN
  BY <1>12, Zenon DEF CloseEntry
<1>13. ASSUME NEW h \in Handlers, CloseHash(h)  PROVE  stored' \in BOOLEAN /\ displaced' \in BOOLEAN
  BY <1>13, Zenon DEF CloseHash
<1>14. ASSUME NEW h \in Handlers, Drop(h)  PROVE  stored' \in BOOLEAN /\ displaced' \in BOOLEAN
  BY <1>14, Zenon DEF Drop
<1>15. ASSUME NEW h \in Handlers, RemoveRecord(h)  PROVE  stored' \in BOOLEAN /\ displaced' \in BOOLEAN
  BY <1>15, Zenon DEF RemoveRecord
<1>16. ASSUME InfoArrives  PROVE  stored' \in BOOLEAN /\ displaced' \in BOOLEAN
  BY <1>16, Zenon DEF InfoArrives
<1>17. ASSUME UNCHANGED registryVars  PROVE  stored' \in BOOLEAN /\ displaced' \in BOOLEAN
  BY <1>17, Zenon DEF registryVars
<1>18. ASSUME NEW h \in Handlers, CloseRefused(h)  PROVE  stored' \in BOOLEAN /\ displaced' \in BOOLEAN
  BY <1>18, Zenon DEF CloseRefused
<1> QED
  BY <1>1, <1>2, <1>3, <1>4, <1>5, <1>6, <1>7, <1>8, <1>9,
     <1>10, <1>11, <1>12, <1>13, <1>14, <1>15, <1>16, <1>17, <1>18
  DEF RegistryNext, HandlerStep

\* One wrapper changes: a field, but never the generation it wraps, and its Torrent
\* is never set again.
LEMMA WrapperChanged ==
  ASSUME wrappers \in Seq(Wrapper), NEW w \in 1 .. Len(wrappers), NEW e \in Wrapper,
         e.gen = wrappers[w].gen, e.set => wrappers[w].set,
         wrappers' = [wrappers EXCEPT ![w] = e]
  PROVE  /\ wrappers' \in Seq(Wrapper) /\ Len(wrappers') = Len(wrappers)
         /\ \A v \in 1 .. Len(wrappers) :
              wrappers'[v].gen = wrappers[v].gen /\ (wrappers'[v].set => wrappers[v].set)
<1>1. /\ wrappers' \in Seq(Wrapper) /\ Len(wrappers') = Len(wrappers)
      /\ \A v \in 1 .. Len(wrappers) : wrappers'[v] = IF v = w THEN e ELSE wrappers[v]
  BY ExceptSeq
<1> QED
  BY <1>1, Zenon

\* What no step does: forget a wrapper or bring one back to life.
WrappersKept ==
  /\ wrappers' \in Seq(Wrapper) /\ Len(wrappers) <= Len(wrappers')
  /\ \A v \in 1 .. Len(wrappers) :
       wrappers'[v].gen = wrappers[v].gen /\ (wrappers'[v].set => wrappers[v].set)

\* No step forgets a wrapper or brings one back to life.
LEMMA WrappersStep ==
  ASSUME RegistryData, HoldsWrapper, [RegistryNext]_registryVars
  PROVE  WrappersKept
<1> USE DEF RegistryData, WrappersKept
<1>1. ASSUME NEW h \in Handlers, StartAdd(h)  PROVE  WrappersKept
  BY <1>1 DEF StartAdd
<1>2. ASSUME NEW h \in Handlers, StartPlay(h)  PROVE  WrappersKept
  BY <1>2 DEF StartPlay
<1>3. ASSUME NEW h \in Handlers, StartRemove(h)  PROVE  WrappersKept
  BY <1>3 DEF StartRemove
<1>4. ASSUME NEW h \in Handlers, AddTorrentSpec(h)  PROVE  WrappersKept
  BY <1>4 DEF AddTorrentSpec
<1>5. ASSUME NEW h \in Handlers, RegistryGet(h)  PROVE  WrappersKept
  <2>1. CASE UNCHANGED wrappers
    BY <2>1
  <2>2. CASE wrappers' = Append(wrappers, NewWrapper(handler[h].gen))
    <3>1. NewWrapper(handler[h].gen) \in Wrapper
      BY DEF NewWrapper, Wrapper
    <3> QED
      BY <2>2, <3>1, AppendProperties
  <2> QED
    BY <1>5, <2>1, <2>2 DEF RegistryGet
<1>6. ASSUME NEW h \in Handlers, LoadOrStore(h)  PROVE  WrappersKept
  BY <1>6 DEF LoadOrStore
<1>7. ASSUME NEW h \in Handlers, Added(h)  PROVE  WrappersKept
  BY <1>7 DEF Added
<1>8. ASSUME NEW h \in Handlers, GotInfo(h)  PROVE  WrappersKept
  <2> DEFINE w == handler[h].tor
             e == [wrappers[w] EXCEPT !.stat = "info"]
  <2>1. w \in 1 .. Len(wrappers)
    BY <1>8 DEF GotInfo, HoldsWrapper, Goto
  <2>2. wrappers[w] \in Wrapper
    BY <2>1
  <2>3. e \in Wrapper /\ e.gen = wrappers[w].gen /\ (e.set => wrappers[w].set)
    BY <2>2 DEF Wrapper
  <2>4. UNCHANGED wrappers \/ wrappers' = [wrappers EXCEPT ![w] = e]
    BY <1>8 DEF GotInfo
  <2> HIDE DEF w, e
  <2>5. CASE UNCHANGED wrappers
    BY <2>5
  <2> QED
    BY <2>1, <2>3, <2>4, <2>5, WrapperChanged
<1>9. ASSUME NEW h \in Handlers, WaitInfoReady(h)  PROVE  WrappersKept
  <2> DEFINE w == handler[h].tor
             e == [wrappers[w] EXCEPT !.cached = TRUE,
                                !.stat = IF handler[h].op = "load" THEN @ ELSE "working"]
  <2>1. w \in 1 .. Len(wrappers)
    BY <1>9 DEF WaitInfoReady, HoldsWrapper, Goto
  <2>2. wrappers[w] \in Wrapper
    BY <2>1
  <2>3. e \in Wrapper /\ e.gen = wrappers[w].gen /\ (e.set => wrappers[w].set)
    BY <2>2 DEF Wrapper
  <2>4. UNCHANGED wrappers \/ wrappers' = [wrappers EXCEPT ![w] = e]
    BY <1>9 DEF WaitInfoReady
  <2> HIDE DEF w, e
  <2>5. CASE UNCHANGED wrappers
    BY <2>5
  <2> QED
    BY <2>1, <2>3, <2>4, <2>5, WrapperChanged
<1>10. ASSUME NEW h \in Handlers, WaitInfoClosed(h)  PROVE  WrappersKept
  BY <1>10 DEF WaitInfoClosed
<1>11. ASSUME NEW h \in Handlers, WaitInfoTimeout(h)  PROVE  WrappersKept
  BY <1>11 DEF WaitInfoTimeout
<1>12. ASSUME NEW h \in Handlers, CloseEntry(h)  PROVE  WrappersKept
  <2> DEFINE w == handler[h].tor
             e == [wrappers[w] EXCEPT !.stat = "closed"]
  <2>1. w \in 1 .. Len(wrappers)
    BY <1>12 DEF CloseEntry, HoldsWrapper, Goto
  <2>2. wrappers[w] \in Wrapper
    BY <2>1
  <2>3. e \in Wrapper /\ e.gen = wrappers[w].gen /\ (e.set => wrappers[w].set)
    BY <2>2 DEF Wrapper
  <2>4. wrappers' = [wrappers EXCEPT ![w] = e]
    BY <1>12 DEF CloseEntry
  <2> HIDE DEF w, e
  <2> QED
    BY <2>1, <2>3, <2>4, WrapperChanged
<1>13. ASSUME NEW h \in Handlers, CloseHash(h)  PROVE  WrappersKept
  <2> DEFINE w == handler[h].tor
             e == [wrappers[w] EXCEPT !.cached = FALSE]
  <2>1. w \in 1 .. Len(wrappers)
    BY <1>13 DEF CloseHash, HoldsWrapper, Goto
  <2>2. wrappers[w] \in Wrapper
    BY <2>1
  <2>3. e \in Wrapper /\ e.gen = wrappers[w].gen /\ (e.set => wrappers[w].set)
    BY <2>2 DEF Wrapper
  <2>4. wrappers' = [wrappers EXCEPT ![w] = e]
    BY <1>13 DEF CloseHash
  <2> HIDE DEF w, e
  <2> QED
    BY <2>1, <2>3, <2>4, WrapperChanged
<1>14. ASSUME NEW h \in Handlers, Drop(h)  PROVE  WrappersKept
  <2> DEFINE w == handler[h].tor
             e == [wrappers[w] EXCEPT !.set = FALSE]
  <2>1. w \in 1 .. Len(wrappers)
    BY <1>14 DEF Drop, HoldsWrapper, Goto
  <2>2. wrappers[w] \in Wrapper
    BY <2>1
  <2>3. e \in Wrapper /\ e.gen = wrappers[w].gen /\ (e.set => wrappers[w].set)
    BY <2>2 DEF Wrapper
  <2>4. wrappers' = [wrappers EXCEPT ![w] = e]
    BY <1>14 DEF Drop
  <2> HIDE DEF w, e
  <2> QED
    BY <2>1, <2>3, <2>4, WrapperChanged
<1>15. ASSUME NEW h \in Handlers, RemoveRecord(h)  PROVE  WrappersKept
  BY <1>15 DEF RemoveRecord
<1>16. ASSUME InfoArrives  PROVE  WrappersKept
  BY <1>16 DEF InfoArrives
<1>17. ASSUME UNCHANGED registryVars  PROVE  WrappersKept
  BY <1>17 DEF registryVars
<1>18. ASSUME NEW h \in Handlers, CloseRefused(h)  PROVE  WrappersKept
  BY <1>18 DEF CloseRefused
<1> QED
  BY <1>1, <1>2, <1>3, <1>4, <1>5, <1>6, <1>7, <1>8, <1>9,
     <1>10, <1>11, <1>12, <1>13, <1>14, <1>15, <1>16, <1>17, <1>18
  DEF RegistryNext, HandlerStep

\* A step of h takes it to a place, with a wrapper, and leaves the others alone.
Moved(h, place, w) ==
  /\ handler' \in [Handlers -> [pc : Places, op : Operations,
                                tor : 0 .. Len(wrappers'), gen : Nat]]
  /\ handler'[h].pc = place /\ handler'[h].tor = w
  /\ \A g \in Handlers \ {h} : handler'[g] = handler[g]

\* One record of handler changes.
LEMMA RecordMoves ==
  ASSUME RegistryData, Len(wrappers) <= Len(wrappers'), wrappers' \in Seq(Wrapper),
         NEW h \in Handlers,
         NEW r \in [pc : Places, op : Operations, tor : 0 .. Len(wrappers'), gen : Nat],
         handler' = [handler EXCEPT ![h] = r]
  PROVE  Moved(h, r.pc, r.tor)
<1> DEFINE H(n) == [pc : Places, op : Operations, tor : 0 .. n, gen : Nat]
<1>1. handler \in [Handlers -> H(Len(wrappers))]
  BY DEF RegistryData
<1>2. H(Len(wrappers)) \subseteq H(Len(wrappers'))
  <2>1. 0 .. Len(wrappers) \subseteq 0 .. Len(wrappers')
    BY DEF RegistryData
  <2> QED
    BY <2>1
<1>3. r \in H(Len(wrappers'))
  OBVIOUS
<1>4. handler' \in [Handlers -> H(Len(wrappers'))]
  <2> HIDE DEF H
  <2> QED
    BY <1>1, <1>2, <1>3
<1> QED
  BY <1>1, <1>4 DEF Moved

\* Goto changes the place of a handler, and keeps its wrapper.
LEMMA GotoMoves ==
  ASSUME RegistryData, WrappersKept, NEW h \in Handlers, NEW from, NEW to \in Places,
         Goto(h, from, to)
  PROVE  Moved(h, to, handler[h].tor)
<1> DEFINE H == [pc : Places, op : Operations, tor : 0 .. Len(wrappers'), gen : Nat]
<1>1. handler[h] \in H
  BY DEF RegistryData, WrappersKept
<1>2. CASE to = "idle"
  <2> DEFINE r == [Idle EXCEPT !.tor = handler[h].tor]
  <2>1. handler' = [handler EXCEPT ![h] = r]
    BY <1>2 DEF Goto
  <2>2. r \in H /\ r.pc = to /\ r.tor = handler[h].tor
    BY <1>1, <1>2 DEF Idle, Operations
  <2> HIDE DEF r
  <2> QED
    BY <2>1, <2>2, RecordMoves DEF WrappersKept
<1>3. CASE to # "idle"
  <2> DEFINE r == [handler[h] EXCEPT !.pc = to]
  <2>1. handler' = [handler EXCEPT ![h] = r]
    BY <1>3 DEF Goto
  <2>2. r \in H /\ r.pc = to /\ r.tor = handler[h].tor
    BY <1>1
  <2> HIDE DEF r
  <2> QED
    BY <2>1, <2>2, RecordMoves DEF WrappersKept
<1> QED
  BY <1>2, <1>3

\* Where a step takes its handler, and which wrapper it then has.
LEMMA Moves ==
  ASSUME RegistryData, WrappersKept, NEW h \in Handlers
  PROVE  /\ StartAdd(h) => Moved(h, IF entry = 0 THEN "spec" ELSE "added", entry)
         /\ StartPlay(h) => Moved(h, IF entry = 0 THEN "spec" ELSE "gotInfo", entry)
         /\ StartRemove(h) => Moved(h, IF entry = 0 THEN "closed" ELSE "close", entry)
         /\ AddTorrentSpec(h) => Moved(h, "get", handler[h].tor)
         /\ RegistryGet(h) =>
              \/ entry # 0 /\ Moved(h, "added", entry) /\ UNCHANGED wrappers
              \/ /\ entry = 0 /\ Moved(h, "store", Len(wrappers'))
                 /\ Len(wrappers') = Len(wrappers) + 1
         /\ LoadOrStore(h) => Moved(h, "added", entry')
<1> DEFINE H == [pc : Places, op : Operations, tor : 0 .. Len(wrappers'), gen : Nat]
<1>1. /\ handler[h] \in H /\ entry \in 0 .. Len(wrappers')
      /\ wrappers' \in Seq(Wrapper) /\ Len(wrappers) <= Len(wrappers')
  BY DEF RegistryData, WrappersKept
<1>2. ASSUME NEW r \in H, handler' = [handler EXCEPT ![h] = r] PROVE Moved(h, r.pc, r.tor)
  BY <1>1, <1>2, RecordMoves
<1>3. ASSUME StartAdd(h) PROVE Moved(h, IF entry = 0 THEN "spec" ELSE "added", entry)
  <2>1. PICK op \in {"add", "addSaved"} :
          handler' = [handler EXCEPT ![h] =
            [pc |-> IF entry = 0 THEN "spec" ELSE "added", op |-> op, tor |-> entry, gen |-> 0]]
    BY <1>3 DEF StartAdd
  <2> DEFINE r == [pc |-> IF entry = 0 THEN "spec" ELSE "added", op |-> op, tor |-> entry,
                   gen |-> 0]
  <2>2. r \in H /\ r.pc = (IF entry = 0 THEN "spec" ELSE "added") /\ r.tor = entry
    BY <1>1 DEF Operations, Places
  <2> HIDE DEF r
  <2> QED
    BY <1>2, <2>1, <2>2 DEF r
<1>4. ASSUME StartPlay(h) PROVE Moved(h, IF entry = 0 THEN "spec" ELSE "gotInfo", entry)
  <2> DEFINE r == IF entry # 0
                    THEN [pc |-> "gotInfo", op |-> "play", tor |-> entry, gen |-> 0]
                    ELSE [pc |-> "spec", op |-> "load", tor |-> 0, gen |-> 0]
  <2>1. handler' = [handler EXCEPT ![h] = r]
    BY <1>4 DEF StartPlay
  <2>2. r \in H /\ r.pc = (IF entry = 0 THEN "spec" ELSE "gotInfo") /\ r.tor = entry
    BY <1>1 DEF Operations, Places
  <2> HIDE DEF r
  <2> QED
    BY <1>2, <2>1, <2>2
<1>5. ASSUME StartRemove(h) PROVE Moved(h, IF entry = 0 THEN "closed" ELSE "close", entry)
  <2>1. PICK op \in {"rem", "drop"} :
          handler' = [handler EXCEPT ![h] =
            [pc |-> IF entry # 0 THEN "close" ELSE "closed", op |-> op, tor |-> entry, gen |-> 0]]
    BY <1>5 DEF StartRemove
  <2> DEFINE r == [pc |-> IF entry # 0 THEN "close" ELSE "closed", op |-> op, tor |-> entry,
                   gen |-> 0]
  <2>2. r \in H /\ r.pc = (IF entry = 0 THEN "closed" ELSE "close") /\ r.tor = entry
    BY <1>1 DEF Operations, Places
  <2> HIDE DEF r
  <2> QED
    BY <1>2, <2>1, <2>2 DEF r
<1>6. ASSUME AddTorrentSpec(h) PROVE Moved(h, "get", handler[h].tor)
  <2> DEFINE r == [handler[h] EXCEPT !.pc = "get", !.gen = lib']
  <2>1. handler' = [handler EXCEPT ![h] = r]
    BY <1>6 DEF AddTorrentSpec
  <2>2. lib' \in Nat
    BY <1>6, RegistryAssumption DEF AddTorrentSpec, RegistryData
  <2>3. r \in H /\ r.pc = "get" /\ r.tor = handler[h].tor
    BY <1>1, <2>2 DEF Places
  <2> HIDE DEF r
  <2> QED
    BY <1>2, <2>1, <2>3
<1>7. ASSUME RegistryGet(h)
      PROVE  \/ entry # 0 /\ Moved(h, "added", entry) /\ UNCHANGED wrappers
             \/ /\ entry = 0 /\ Moved(h, "store", Len(wrappers'))
                /\ Len(wrappers') = Len(wrappers) + 1
  <2>1. CASE entry # 0
    <3> DEFINE r == [handler[h] EXCEPT !.pc = "added", !.tor = entry, !.gen = 0]
    <3>1. handler' = [handler EXCEPT ![h] = r] /\ UNCHANGED wrappers
      BY <1>7, <2>1 DEF RegistryGet
    <3>2. r \in H /\ r.pc = "added" /\ r.tor = entry
      BY <1>1 DEF Places
    <3> HIDE DEF r
    <3> QED
      BY <1>2, <2>1, <3>1, <3>2
  <2>2. CASE entry = 0
    <3> DEFINE r == [handler[h] EXCEPT !.pc = "store", !.gen = 0, !.tor = Len(wrappers')]
    <3>1. handler' = [handler EXCEPT ![h] = r]
      BY <1>7, <2>2 DEF RegistryGet
    <3>2. Len(wrappers') \in 0 .. Len(wrappers')
      BY <1>1
    <3>3. r \in H /\ r.pc = "store" /\ r.tor = Len(wrappers')
      BY <1>1, <3>2 DEF Places
    <3>4. Len(wrappers') = Len(wrappers) + 1
      <4>1. NewWrapper(handler[h].gen) \in Wrapper
        BY <1>1 DEF NewWrapper, Wrapper
      <4> QED
        BY <1>7, <2>2, <4>1, AppendProperties DEF RegistryGet, RegistryData
    <3> HIDE DEF r
    <3> QED
      BY <1>2, <2>2, <3>1, <3>3, <3>4
  <2> QED
    BY <2>1, <2>2
<1>8. ASSUME LoadOrStore(h) PROVE Moved(h, "added", entry')
  <2> DEFINE r == [handler[h] EXCEPT !.pc = "added", !.tor = entry']
  <2>1. handler' = [handler EXCEPT ![h] = r]
    BY <1>8 DEF LoadOrStore
  <2>2. entry' \in 0 .. Len(wrappers')
    BY <1>1, <1>8 DEF LoadOrStore
  <2>3. r \in H /\ r.pc = "added" /\ r.tor = entry'
    BY <1>1, <2>2 DEF Places
  <2> HIDE DEF r
  <2> QED
    BY <1>2, <2>1, <2>3
<1> QED
  BY <1>3, <1>4, <1>5, <1>6, <1>7, <1>8

\* The same of the steps that only go on.
LEMMA GoesOn ==
  ASSUME RegistryData, WrappersKept, NEW h \in Handlers
  PROVE  /\ Added(h) => /\ handler[h].pc = "added"
                        /\ \E to \in {"idle", "wait"} : Moved(h, to, handler[h].tor)
         /\ GotInfo(h) => /\ handler[h].pc = "gotInfo"
                          /\ \E to \in {"idle", "wait"} : Moved(h, to, handler[h].tor)
         /\ WaitInfoReady(h) \/ WaitInfoClosed(h) \/ WaitInfoTimeout(h) =>
              /\ handler[h].pc = "wait"
              /\ \E to \in {"idle", "gotInfo", "close"} : Moved(h, to, handler[h].tor)
         /\ CloseEntry(h) => handler[h].pc = "close" /\ Moved(h, "closeHash", handler[h].tor)
         /\ CloseRefused(h) => handler[h].pc = "close" /\ Moved(h, "idle", handler[h].tor)
         /\ CloseHash(h) => handler[h].pc = "closeHash" /\ Moved(h, "drop", handler[h].tor)
         /\ Drop(h) => handler[h].pc = "drop" /\ Moved(h, "closed", handler[h].tor)
         /\ RemoveRecord(h) => handler[h].pc = "closed" /\ Moved(h, "idle", handler[h].tor)
<1>1. ASSUME NEW from, NEW to \in Places, Goto(h, from, to)
      PROVE  handler[h].pc = from /\ Moved(h, to, handler[h].tor)
  BY <1>1, GotoMoves DEF Goto
<1>2. {"idle", "wait", "gotInfo", "close", "closeHash", "drop", "closed"} \subseteq Places
  BY DEF Places
<1>3. ASSUME NEW ok \in BOOLEAN, waited(h, "wait", ok)
      PROVE  /\ handler[h].pc = "wait"
             /\ \E to \in {"idle", "gotInfo", "close"} : Moved(h, to, handler[h].tor)
  BY <1>1, <1>2, <1>3 DEF waited
<1>4. Added(h) => /\ handler[h].pc = "added"
                  /\ \E to \in {"idle", "wait"} : Moved(h, to, handler[h].tor)
  BY <1>1, <1>2 DEF Added
<1>5. GotInfo(h) => /\ handler[h].pc = "gotInfo"
                    /\ \E to \in {"idle", "wait"} : Moved(h, to, handler[h].tor)
  BY <1>1, <1>2 DEF GotInfo
<1>6. WaitInfoReady(h) \/ WaitInfoClosed(h) \/ WaitInfoTimeout(h) =>
        /\ handler[h].pc = "wait"
        /\ \E to \in {"idle", "gotInfo", "close"} : Moved(h, to, handler[h].tor)
  BY <1>3, Zenon DEF WaitInfoReady, WaitInfoClosed, WaitInfoTimeout
<1>7. CloseEntry(h) => handler[h].pc = "close" /\ Moved(h, "closeHash", handler[h].tor)
  BY <1>1, <1>2 DEF CloseEntry
<1>8. CloseHash(h) => handler[h].pc = "closeHash" /\ Moved(h, "drop", handler[h].tor)
  BY <1>1, <1>2 DEF CloseHash
<1>9. Drop(h) => handler[h].pc = "drop" /\ Moved(h, "closed", handler[h].tor)
  BY <1>1, <1>2 DEF Drop
<1>10. RemoveRecord(h) => handler[h].pc = "closed" /\ Moved(h, "idle", handler[h].tor)
  BY <1>1, <1>2 DEF RemoveRecord
<1>11. CloseRefused(h) => handler[h].pc = "close" /\ Moved(h, "idle", handler[h].tor)
  BY <1>1, <1>2 DEF CloseRefused
<1> QED
  BY <1>4, <1>5, <1>6, <1>7, <1>8, <1>9, <1>10, <1>11

\* Every step leaves the registries and the handlers in their types.
LEMMA RegistryDataStep ==
  ASSUME RegistryData, HoldsWrapper, WrappersKept, [RegistryNext]_registryVars
  PROVE  RegistryData'
<1> USE DEF RegistryData
<1>1. ASSUME NEW h \in Handlers, StartAdd(h)  PROVE  RegistryData'
  <2>1. entry' \in 0 .. Len(wrappers')
    BY <1>1 DEF StartAdd, WrappersKept
  <2>2. /\ lib' \in Nat /\ generations' \in Nat /\ cacheEntry' \in Nat
        /\ dropped' \subseteq Nat /\ info' \subseteq Nat /\ openCaches' \subseteq Nat
    BY <1>1 DEF StartAdd
  <2> QED
    BY <1>1, <2>1, <2>2, Moves, Zenon DEF WrappersKept, Moved
<1>2. ASSUME NEW h \in Handlers, StartPlay(h)  PROVE  RegistryData'
  <2>1. entry' \in 0 .. Len(wrappers')
    BY <1>2 DEF StartPlay, WrappersKept
  <2>2. /\ lib' \in Nat /\ generations' \in Nat /\ cacheEntry' \in Nat
        /\ dropped' \subseteq Nat /\ info' \subseteq Nat /\ openCaches' \subseteq Nat
    BY <1>2 DEF StartPlay
  <2> QED
    BY <1>2, <2>1, <2>2, Moves, Zenon DEF WrappersKept, Moved
<1>3. ASSUME NEW h \in Handlers, StartRemove(h)  PROVE  RegistryData'
  <2>1. entry' \in 0 .. Len(wrappers')
    BY <1>3 DEF StartRemove, WrappersKept
  <2>2. /\ lib' \in Nat /\ generations' \in Nat /\ cacheEntry' \in Nat
        /\ dropped' \subseteq Nat /\ info' \subseteq Nat /\ openCaches' \subseteq Nat
    BY <1>3 DEF StartRemove
  <2> QED
    BY <1>3, <2>1, <2>2, Moves, Zenon DEF WrappersKept, Moved
<1>4. ASSUME NEW h \in Handlers, AddTorrentSpec(h)  PROVE  RegistryData'
  <2>1. entry' \in 0 .. Len(wrappers')
    BY <1>4 DEF AddTorrentSpec, WrappersKept
  <2>2. /\ lib' \in Nat /\ generations' \in Nat /\ cacheEntry' \in Nat
        /\ dropped' \subseteq Nat /\ info' \subseteq Nat /\ openCaches' \subseteq Nat
    BY <1>4, RegistryAssumption DEF AddTorrentSpec
  <2> QED
    BY <1>4, <2>1, <2>2, Moves, Zenon DEF WrappersKept, Moved
<1>5. ASSUME NEW h \in Handlers, RegistryGet(h)  PROVE  RegistryData'
  <2>1. entry' \in 0 .. Len(wrappers')
    BY <1>5 DEF RegistryGet, WrappersKept
  <2>2. /\ lib' \in Nat /\ generations' \in Nat /\ cacheEntry' \in Nat
        /\ dropped' \subseteq Nat /\ info' \subseteq Nat /\ openCaches' \subseteq Nat
    BY <1>5 DEF RegistryGet
  <2> QED
    BY <1>5, <2>1, <2>2, Moves, Zenon DEF WrappersKept, Moved
<1>6. ASSUME NEW h \in Handlers, LoadOrStore(h)  PROVE  RegistryData'
  <2>1. entry' \in 0 .. Len(wrappers')
    BY <1>6 DEF LoadOrStore, WrappersKept
  <2>2. /\ lib' \in Nat /\ generations' \in Nat /\ cacheEntry' \in Nat
        /\ dropped' \subseteq Nat /\ info' \subseteq Nat /\ openCaches' \subseteq Nat
    BY <1>6 DEF LoadOrStore
  <2> QED
    BY <1>6, <2>1, <2>2, Moves, Zenon DEF WrappersKept, Moved
<1>7. ASSUME NEW h \in Handlers, Added(h)  PROVE  RegistryData'
  <2>1. entry' \in 0 .. Len(wrappers')
    BY <1>7 DEF Added, WrappersKept
  <2>2. /\ lib' \in Nat /\ generations' \in Nat /\ cacheEntry' \in Nat
        /\ dropped' \subseteq Nat /\ info' \subseteq Nat /\ openCaches' \subseteq Nat
    BY <1>7 DEF Added
  <2> QED
    BY <1>7, <2>1, <2>2, GoesOn, Zenon DEF WrappersKept, Moved
<1>8. ASSUME NEW h \in Handlers, GotInfo(h)  PROVE  RegistryData'
  <2>1. entry' \in 0 .. Len(wrappers')
    BY <1>8 DEF GotInfo, WrappersKept
  <2>2. /\ lib' \in Nat /\ generations' \in Nat /\ cacheEntry' \in Nat
        /\ dropped' \subseteq Nat /\ info' \subseteq Nat /\ openCaches' \subseteq Nat
    BY <1>8 DEF GotInfo
  <2> QED
    BY <1>8, <2>1, <2>2, GoesOn, Zenon DEF WrappersKept, Moved
<1>9. ASSUME NEW h \in Handlers, WaitInfoReady(h)  PROVE  RegistryData'
  <2>1. entry' \in 0 .. Len(wrappers')
    BY <1>9 DEF WaitInfoReady, WrappersKept
  <2>2. /\ lib' \in Nat /\ generations' \in Nat /\ cacheEntry' \in Nat
        /\ dropped' \subseteq Nat /\ info' \subseteq Nat /\ openCaches' \subseteq Nat
    BY <1>9 DEF WaitInfoReady
  <2> QED
    BY <1>9, <2>1, <2>2, GoesOn, Zenon DEF WrappersKept, Moved
<1>10. ASSUME NEW h \in Handlers, WaitInfoClosed(h)  PROVE  RegistryData'
  <2>1. entry' \in 0 .. Len(wrappers')
    BY <1>10 DEF WaitInfoClosed, WrappersKept
  <2>2. /\ lib' \in Nat /\ generations' \in Nat /\ cacheEntry' \in Nat
        /\ dropped' \subseteq Nat /\ info' \subseteq Nat /\ openCaches' \subseteq Nat
    BY <1>10 DEF WaitInfoClosed
  <2> QED
    BY <1>10, <2>1, <2>2, GoesOn, Zenon DEF WrappersKept, Moved
<1>11. ASSUME NEW h \in Handlers, WaitInfoTimeout(h)  PROVE  RegistryData'
  <2>1. entry' \in 0 .. Len(wrappers')
    BY <1>11 DEF WaitInfoTimeout, WrappersKept
  <2>2. /\ lib' \in Nat /\ generations' \in Nat /\ cacheEntry' \in Nat
        /\ dropped' \subseteq Nat /\ info' \subseteq Nat /\ openCaches' \subseteq Nat
    BY <1>11 DEF WaitInfoTimeout
  <2> QED
    BY <1>11, <2>1, <2>2, GoesOn, Zenon DEF WrappersKept, Moved
<1>12. ASSUME NEW h \in Handlers, CloseEntry(h)  PROVE  RegistryData'
  <2>1. entry' \in 0 .. Len(wrappers')
    BY <1>12 DEF CloseEntry, WrappersKept
  <2>2. /\ lib' \in Nat /\ generations' \in Nat /\ cacheEntry' \in Nat
        /\ dropped' \subseteq Nat /\ info' \subseteq Nat /\ openCaches' \subseteq Nat
    BY <1>12 DEF CloseEntry
  <2> QED
    BY <1>12, <2>1, <2>2, GoesOn, Zenon DEF WrappersKept, Moved
<1>13. ASSUME NEW h \in Handlers, CloseHash(h)  PROVE  RegistryData'
  <2>1. entry' \in 0 .. Len(wrappers')
    BY <1>13 DEF CloseHash, WrappersKept
  <2>2. /\ lib' \in Nat /\ generations' \in Nat /\ cacheEntry' \in Nat
        /\ dropped' \subseteq Nat /\ info' \subseteq Nat /\ openCaches' \subseteq Nat
    BY <1>13 DEF CloseHash
  <2> QED
    BY <1>13, <2>1, <2>2, GoesOn, Zenon DEF WrappersKept, Moved
<1>14. ASSUME NEW h \in Handlers, Drop(h)  PROVE  RegistryData'
  <2>1. entry' \in 0 .. Len(wrappers')
    BY <1>14 DEF Drop, WrappersKept
  <2>2. /\ lib' \in Nat /\ generations' \in Nat /\ cacheEntry' \in Nat
        /\ dropped' \subseteq Nat /\ info' \subseteq Nat /\ openCaches' \subseteq Nat
    <3>1. handler[h].tor \in 1 .. Len(wrappers)
      BY <1>14 DEF Drop, Goto, HoldsWrapper
    <3>2. wrappers[handler[h].tor] \in Wrapper
      BY <3>1
    <3>3. wrappers[handler[h].tor].gen \in Nat
      BY <3>2 DEF Wrapper
    <3> QED
      BY <1>14, <3>3 DEF Drop
  <2> QED
    BY <1>14, <2>1, <2>2, GoesOn, Zenon DEF WrappersKept, Moved
<1>15. ASSUME NEW h \in Handlers, RemoveRecord(h)  PROVE  RegistryData'
  <2>1. entry' \in 0 .. Len(wrappers')
    BY <1>15 DEF RemoveRecord, WrappersKept
  <2>2. /\ lib' \in Nat /\ generations' \in Nat /\ cacheEntry' \in Nat
        /\ dropped' \subseteq Nat /\ info' \subseteq Nat /\ openCaches' \subseteq Nat
    BY <1>15 DEF RemoveRecord
  <2> QED
    BY <1>15, <2>1, <2>2, GoesOn, Zenon DEF WrappersKept, Moved
<1>16. ASSUME InfoArrives  PROVE  RegistryData'
  <2>1. entry' \in 0 .. Len(wrappers')
    BY <1>16 DEF InfoArrives, WrappersKept
  <2>2. /\ lib' \in Nat /\ generations' \in Nat /\ cacheEntry' \in Nat
        /\ dropped' \subseteq Nat /\ info' \subseteq Nat /\ openCaches' \subseteq Nat
    BY <1>16 DEF InfoArrives
  <2> QED
    BY <1>16, <2>1, <2>2, Zenon DEF WrappersKept, Moved, InfoArrives
<1>17. ASSUME UNCHANGED registryVars  PROVE  RegistryData'
  <2>1. entry' \in 0 .. Len(wrappers')
    BY <1>17 DEF registryVars, WrappersKept
  <2>2. /\ lib' \in Nat /\ generations' \in Nat /\ cacheEntry' \in Nat
        /\ dropped' \subseteq Nat /\ info' \subseteq Nat /\ openCaches' \subseteq Nat
    BY <1>17 DEF registryVars
  <2> QED
    BY <1>17, <2>1, <2>2, Zenon DEF WrappersKept, Moved, registryVars
<1>18. ASSUME NEW h \in Handlers, CloseRefused(h)  PROVE  RegistryData'
  <2>1. entry' \in 0 .. Len(wrappers')
    BY <1>18 DEF CloseRefused, WrappersKept
  <2>2. /\ lib' \in Nat /\ generations' \in Nat /\ cacheEntry' \in Nat
        /\ dropped' \subseteq Nat /\ info' \subseteq Nat /\ openCaches' \subseteq Nat
    BY <1>18 DEF CloseRefused
  <2> QED
    BY <1>18, <2>1, <2>2, GoesOn, Zenon DEF WrappersKept, Moved
<1> QED
  BY <1>1, <1>2, <1>3, <1>4, <1>5, <1>6, <1>7, <1>8, <1>9,
     <1>10, <1>11, <1>12, <1>13, <1>14, <1>15, <1>16, <1>17, <1>18
  DEF RegistryNext, HandlerStep

\* A handler that works on a wrapper has one.
LEMMA HoldsWrapperStep ==
  ASSUME RegistryData, HoldsWrapper, WrappersKept, [RegistryNext]_registryVars
  PROVE  HoldsWrapper'
<1> USE DEF HoldsWrapper
<1>1. ASSUME NEW h \in Handlers, StartAdd(h)  PROVE  HoldsWrapper'
  BY <1>1, Moves DEF Moved
<1>2. ASSUME NEW h \in Handlers, StartPlay(h)  PROVE  HoldsWrapper'
  BY <1>2, Moves DEF Moved
<1>3. ASSUME NEW h \in Handlers, StartRemove(h)  PROVE  HoldsWrapper'
  BY <1>3, Moves DEF Moved
<1>4. ASSUME NEW h \in Handlers, AddTorrentSpec(h)  PROVE  HoldsWrapper'
  BY <1>4, Moves DEF Moved
<1>5. ASSUME NEW h \in Handlers, RegistryGet(h)  PROVE  HoldsWrapper'
  BY <1>5, Moves DEF Moved
<1>6. ASSUME NEW h \in Handlers, LoadOrStore(h)  PROVE  HoldsWrapper'
  <2>1. entry' # 0
    BY <1>6 DEF LoadOrStore
  <2> QED
    BY <1>6, <2>1, Moves DEF Moved
<1>7. ASSUME NEW h \in Handlers, Added(h)  PROVE  HoldsWrapper'
  BY <1>7, GoesOn DEF Moved
<1>8. ASSUME NEW h \in Handlers, GotInfo(h)  PROVE  HoldsWrapper'
  BY <1>8, GoesOn DEF Moved
<1>9. ASSUME NEW h \in Handlers, WaitInfoReady(h)  PROVE  HoldsWrapper'
  BY <1>9, GoesOn DEF Moved
<1>10. ASSUME NEW h \in Handlers, WaitInfoClosed(h)  PROVE  HoldsWrapper'
  BY <1>10, GoesOn DEF Moved
<1>11. ASSUME NEW h \in Handlers, WaitInfoTimeout(h)  PROVE  HoldsWrapper'
  BY <1>11, GoesOn DEF Moved
<1>12. ASSUME NEW h \in Handlers, CloseEntry(h)  PROVE  HoldsWrapper'
  BY <1>12, GoesOn DEF Moved
<1>13. ASSUME NEW h \in Handlers, CloseHash(h)  PROVE  HoldsWrapper'
  BY <1>13, GoesOn DEF Moved
<1>14. ASSUME NEW h \in Handlers, Drop(h)  PROVE  HoldsWrapper'
  BY <1>14, GoesOn DEF Moved
<1>15. ASSUME NEW h \in Handlers, RemoveRecord(h)  PROVE  HoldsWrapper'
  BY <1>15, GoesOn DEF Moved
<1>16. ASSUME InfoArrives  PROVE  HoldsWrapper'
  BY <1>16 DEF InfoArrives
<1>17. ASSUME UNCHANGED registryVars  PROVE  HoldsWrapper'
  BY <1>17 DEF registryVars
<1>18. ASSUME NEW h \in Handlers, CloseRefused(h)  PROVE  HoldsWrapper'
  BY <1>18, GoesOn DEF Moved
<1> QED
  BY <1>1, <1>2, <1>3, <1>4, <1>5, <1>6, <1>7, <1>8, <1>9,
     <1>10, <1>11, <1>12, <1>13, <1>14, <1>15, <1>16, <1>17, <1>18
  DEF RegistryNext, HandlerStep

\* Steps that store no new wrapper share none.
LEMMA UnsharedKept ==
  ASSUME HoldsWrapper, Unshared, NEW h \in Handlers, NEW place, NEW w,
         Moved(h, place, w), place # "store",
         w \in {0, entry, handler[h].tor}, entry' \in {0, entry, handler[h].tor}
  PROVE  Unshared'
<1> SUFFICES ASSUME NEW g \in Handlers, handler'[g].pc = "store"
             PROVE  /\ entry' # handler'[g].tor
                    /\ \A f \in Handlers \ {g} : handler'[f].tor # handler'[g].tor
  BY DEF Unshared
<1>1. g # h /\ handler'[g] = handler[g] /\ handler'[h].tor = w
  BY DEF Moved
<1>2. handler[g].tor # 0 /\ entry # handler[g].tor
  BY <1>1 DEF HoldsWrapper, Unshared
<1>3. \A f \in Handlers \ {g} : handler[f].tor # handler[g].tor
  BY <1>1 DEF Unshared
<1>4. \A f \in Handlers \ {h} : handler'[f] = handler[f]
  BY DEF Moved
<1> QED
  BY <1>1, <1>2, <1>3, <1>4

\* A new wrapper is known to nobody else.
LEMMA UnsharedStep ==
  ASSUME RegistryData, HoldsWrapper, Unshared, WrappersKept, [RegistryNext]_registryVars
  PROVE  Unshared'
<1>1. ASSUME NEW h \in Handlers, StartAdd(h)  PROVE  Unshared'
  <2>1. Moved(h, IF entry = 0 THEN "spec" ELSE "added", entry)
    BY <1>1, Moves
  <2>2. entry' \in {0, entry, handler[h].tor}
    BY <1>1 DEF StartAdd
  <2> QED
    BY <2>1, <2>2, UnsharedKept
<1>2. ASSUME NEW h \in Handlers, StartPlay(h)  PROVE  Unshared'
  <2>1. Moved(h, IF entry = 0 THEN "spec" ELSE "gotInfo", entry)
    BY <1>2, Moves
  <2>2. entry' \in {0, entry, handler[h].tor}
    BY <1>2 DEF StartPlay
  <2> QED
    BY <2>1, <2>2, UnsharedKept
<1>3. ASSUME NEW h \in Handlers, StartRemove(h)  PROVE  Unshared'
  <2>1. Moved(h, IF entry = 0 THEN "closed" ELSE "close", entry)
    BY <1>3, Moves
  <2>2. entry' \in {0, entry, handler[h].tor}
    BY <1>3 DEF StartRemove
  <2> QED
    BY <2>1, <2>2, UnsharedKept
<1>4. ASSUME NEW h \in Handlers, AddTorrentSpec(h)  PROVE  Unshared'
  <2>1. entry' \in {0, entry, handler[h].tor}
    BY <1>4 DEF AddTorrentSpec
  <2> QED
    BY <1>4, <2>1, Moves, UnsharedKept
<1>5. ASSUME NEW h \in Handlers, RegistryGet(h)  PROVE  Unshared'
  <2>1. CASE entry # 0 /\ Moved(h, "added", entry)
    BY <1>5, <2>1, UnsharedKept DEF RegistryGet
  <2>2. CASE /\ entry = 0 /\ Moved(h, "store", Len(wrappers'))
             /\ Len(wrappers') = Len(wrappers) + 1
    <3>1. UNCHANGED entry
      BY <1>5 DEF RegistryGet
    <3>2. \A g \in Handlers : handler[g].tor # Len(wrappers')
      BY <2>2 DEF RegistryData
    <3>3. Len(wrappers') # 0
      BY <2>2 DEF RegistryData
    <3>4. /\ \A g \in Handlers \ {h} : handler'[g] = handler[g]
          /\ handler'[h].tor = Len(wrappers')
      BY <2>2 DEF Moved
    <3> QED
      BY <2>2, <3>1, <3>2, <3>3, <3>4, Zenon DEF Unshared
  <2> QED
    BY <1>5, <2>1, <2>2, Moves
<1>6. ASSUME NEW h \in Handlers, LoadOrStore(h)  PROVE  Unshared'
  <2>1. entry' \in {0, entry, handler[h].tor}
    BY <1>6 DEF LoadOrStore
  <2> QED
    BY <1>6, <2>1, Moves, UnsharedKept
<1>7. ASSUME NEW h \in Handlers, Added(h)  PROVE  Unshared'
  <2>1. entry' \in {0, entry, handler[h].tor}
    BY <1>7 DEF Added
  <2> QED
    BY <1>7, <2>1, GoesOn, UnsharedKept
<1>8. ASSUME NEW h \in Handlers, GotInfo(h)  PROVE  Unshared'
  <2>1. entry' \in {0, entry, handler[h].tor}
    BY <1>8 DEF GotInfo
  <2> QED
    BY <1>8, <2>1, GoesOn, UnsharedKept
<1>9. ASSUME NEW h \in Handlers, WaitInfoReady(h)  PROVE  Unshared'
  <2>1. entry' \in {0, entry, handler[h].tor}
    BY <1>9 DEF WaitInfoReady
  <2> QED
    BY <1>9, <2>1, GoesOn, UnsharedKept
<1>10. ASSUME NEW h \in Handlers, WaitInfoClosed(h)  PROVE  Unshared'
  <2>1. entry' \in {0, entry, handler[h].tor}
    BY <1>10 DEF WaitInfoClosed
  <2> QED
    BY <1>10, <2>1, GoesOn, UnsharedKept
<1>11. ASSUME NEW h \in Handlers, WaitInfoTimeout(h)  PROVE  Unshared'
  <2>1. entry' \in {0, entry, handler[h].tor}
    BY <1>11 DEF WaitInfoTimeout
  <2> QED
    BY <1>11, <2>1, GoesOn, UnsharedKept
<1>12. ASSUME NEW h \in Handlers, CloseEntry(h)  PROVE  Unshared'
  <2>1. entry' \in {0, entry, handler[h].tor}
    BY <1>12 DEF CloseEntry
  <2> QED
    BY <1>12, <2>1, GoesOn, UnsharedKept
<1>13. ASSUME NEW h \in Handlers, CloseHash(h)  PROVE  Unshared'
  <2>1. entry' \in {0, entry, handler[h].tor}
    BY <1>13 DEF CloseHash
  <2> QED
    BY <1>13, <2>1, GoesOn, UnsharedKept
<1>14. ASSUME NEW h \in Handlers, Drop(h)  PROVE  Unshared'
  <2>1. entry' \in {0, entry, handler[h].tor}
    BY <1>14 DEF Drop
  <2> QED
    BY <1>14, <2>1, GoesOn, UnsharedKept
<1>15. ASSUME NEW h \in Handlers, RemoveRecord(h)  PROVE  Unshared'
  <2>1. entry' \in {0, entry, handler[h].tor}
    BY <1>15 DEF RemoveRecord
  <2> QED
    BY <1>15, <2>1, GoesOn, UnsharedKept
<1>16. ASSUME InfoArrives  PROVE  Unshared'
  BY <1>16 DEF InfoArrives, Unshared
<1>17. ASSUME UNCHANGED registryVars  PROVE  Unshared'
  BY <1>17 DEF registryVars, Unshared
<1>18. ASSUME NEW h \in Handlers, CloseRefused(h)  PROVE  Unshared'
  <2>1. entry' \in {0, entry, handler[h].tor}
    BY <1>18 DEF CloseRefused
  <2> QED
    BY <1>18, <2>1, GoesOn, UnsharedKept
<1> QED
  BY <1>1, <1>2, <1>3, <1>4, <1>5, <1>6, <1>7, <1>8, <1>9,
     <1>10, <1>11, <1>12, <1>13, <1>14, <1>15, <1>16, <1>17, <1>18
  DEF RegistryNext, HandlerStep

\* What the client has closed stays closed.
LEMMA DroppedStep ==
  ASSUME [RegistryNext]_registryVars
  PROVE  dropped \subseteq dropped'
<1>1. ASSUME NEW h \in Handlers, StartAdd(h)  PROVE  dropped \subseteq dropped'
  BY <1>1 DEF StartAdd
<1>2. ASSUME NEW h \in Handlers, StartPlay(h)  PROVE  dropped \subseteq dropped'
  BY <1>2 DEF StartPlay
<1>3. ASSUME NEW h \in Handlers, StartRemove(h)  PROVE  dropped \subseteq dropped'
  BY <1>3 DEF StartRemove
<1>4. ASSUME NEW h \in Handlers, AddTorrentSpec(h)  PROVE  dropped \subseteq dropped'
  BY <1>4 DEF AddTorrentSpec
<1>5. ASSUME NEW h \in Handlers, RegistryGet(h)  PROVE  dropped \subseteq dropped'
  BY <1>5 DEF RegistryGet
<1>6. ASSUME NEW h \in Handlers, LoadOrStore(h)  PROVE  dropped \subseteq dropped'
  BY <1>6 DEF LoadOrStore
<1>7. ASSUME NEW h \in Handlers, Added(h)  PROVE  dropped \subseteq dropped'
  BY <1>7 DEF Added
<1>8. ASSUME NEW h \in Handlers, GotInfo(h)  PROVE  dropped \subseteq dropped'
  BY <1>8 DEF GotInfo
<1>9. ASSUME NEW h \in Handlers, WaitInfoReady(h)  PROVE  dropped \subseteq dropped'
  BY <1>9 DEF WaitInfoReady
<1>10. ASSUME NEW h \in Handlers, WaitInfoClosed(h)  PROVE  dropped \subseteq dropped'
  BY <1>10 DEF WaitInfoClosed
<1>11. ASSUME NEW h \in Handlers, WaitInfoTimeout(h)  PROVE  dropped \subseteq dropped'
  BY <1>11 DEF WaitInfoTimeout
<1>12. ASSUME NEW h \in Handlers, CloseEntry(h)  PROVE  dropped \subseteq dropped'
  BY <1>12 DEF CloseEntry
<1>13. ASSUME NEW h \in Handlers, CloseHash(h)  PROVE  dropped \subseteq dropped'
  BY <1>13 DEF CloseHash
<1>14. ASSUME NEW h \in Handlers, Drop(h)  PROVE  dropped \subseteq dropped'
  BY <1>14 DEF Drop
<1>15. ASSUME NEW h \in Handlers, RemoveRecord(h)  PROVE  dropped \subseteq dropped'
  BY <1>15 DEF RemoveRecord
<1>16. ASSUME InfoArrives  PROVE  dropped \subseteq dropped'
  BY <1>16 DEF InfoArrives
<1>17. ASSUME UNCHANGED registryVars  PROVE  dropped \subseteq dropped'
  BY <1>17 DEF registryVars
<1>18. ASSUME NEW h \in Handlers, CloseRefused(h)  PROVE  dropped \subseteq dropped'
  BY <1>18 DEF CloseRefused
<1> QED
  BY <1>1, <1>2, <1>3, <1>4, <1>5, <1>6, <1>7, <1>8, <1>9,
     <1>10, <1>11, <1>12, <1>13, <1>14, <1>15, <1>16, <1>17, <1>18
  DEF RegistryNext, HandlerStep

\* A wrapper that is alive was alive before.
LEMMA NobodyRevives ==
  ASSUME WrappersKept, dropped \subseteq dropped', NEW v \in 1 .. Len(wrappers), Alive(v)'
  PROVE  Alive(v)
BY Zenon DEF Alive, WrappersKept

Closes == {"close", "closeHash", "drop"}

\* What a handler other than h has is still found after a step of h, if that step
\* ends the closing of no live wrapper but the registered one.
LEMMA OthersFind ==
  ASSUME RegistryData, WrappersKept, dropped \subseteq dropped', Findable, ~displaced,
         NEW h \in Handlers, NEW place, NEW w, Moved(h, place, w),
         handler[h].pc \in Closes =>
           \/ place \in Closes /\ w = handler[h].tor
           \/ ~wrappers'[handler[h].tor].set \/ handler[h].tor = entry,
         NEW g \in Handlers, NEW v \in 1 .. Len(wrappers),
         Has(g, v), Alive(v)', ~BeingClosed(v)'
  PROVE  v = entry
<1> SUFFICES ASSUME v # entry PROVE FALSE
  OBVIOUS
<1>1. Alive(v)
  BY NobodyRevives
<1>2. ~BeingClosed(v)
  <2> SUFFICES ASSUME NEW f \in Handlers, handler[f].tor = v, handler[f].pc \in Closes
               PROVE  FALSE
    BY DEF BeingClosed, Closes
  <2>1. ~(handler'[f].tor = v /\ handler'[f].pc \in Closes)
    BY DEF BeingClosed, Closes
  <2>2. f = h
    BY <2>1 DEF Moved
  <2>3. wrappers'[v].set
    BY DEF Alive
  <2> QED
    BY <2>1, <2>2, <2>3 DEF Moved
<1>3. v \in DOMAIN wrappers
  BY DEF RegistryData
<1> QED
  BY <1>1, <1>2, <1>3 DEF Findable

\* A step that keeps the handler's wrapper or gives it the registered one, and
\* takes the entry away only from a wrapper that is being closed.
LEMMA FindableKept ==
  ASSUME RegistryData, WrappersKept, dropped \subseteq dropped', Findable,
         displaced => displaced',
         NEW h \in Handlers, NEW place, NEW w, Moved(h, place, w),
         (~displaced' /\ handler[h].pc \in Closes) =>
           \/ place \in Closes /\ w = handler[h].tor
           \/ ~wrappers'[handler[h].tor].set \/ handler[h].tor = entry,
         w = entry \/ (w = handler[h].tor /\ handler[h].pc # "store"),
         ~displaced' => \/ entry' = entry \/ entry = 0
                        \/ \E f \in Handlers : handler'[f].tor = entry /\ handler'[f].pc \in Closes
  PROVE  Findable'
<1> SUFFICES ASSUME ~displaced', NEW g \in Handlers, NEW v \in DOMAIN wrappers',
                    Has(g, v)', Alive(v)', ~BeingClosed(v)'
             PROVE  v = entry'
  BY Zenon DEF Findable
<1>1. v # 0 /\ handler'[g].tor = v
  BY DEF Has
<1>2. v = entry => v = entry'
  BY <1>1 DEF BeingClosed, Closes
<1>3. CASE g = h /\ w = entry
  BY <1>1, <1>2, <1>3 DEF Moved
<1>4. CASE ~(g = h /\ w = entry)
  <2>1. Has(g, v)
    BY <1>1, <1>4 DEF Has, Moved
  <2>2. v \in 1 .. Len(wrappers)
    BY <1>1, <2>1 DEF Has, RegistryData
  <2>3. v = entry
    BY <2>1, <2>2, OthersFind
  <2> QED
    BY <1>2, <2>3
<1> QED
  BY <1>3, <1>4

\* The live wrappers that handlers have stay registered or being closed.
LEMMA FindableStep ==
  ASSUME RegistryData, HoldsWrapper, WrappersKept, dropped \subseteq dropped', Findable, [RegistryNext]_registryVars
  PROVE  Findable'
<1>1. ASSUME NEW h \in Handlers, StartAdd(h)  PROVE  Findable'
  <2>1. UNCHANGED <<entry, displaced>>
    BY <1>1 DEF StartAdd
  <2>2. handler[h].pc = "idle"
    BY <1>1 DEF StartAdd
  <2> QED
    BY <1>1, <2>1, <2>2, Moves, FindableKept DEF Closes
<1>2. ASSUME NEW h \in Handlers, StartPlay(h)  PROVE  Findable'
  <2>1. UNCHANGED <<entry, displaced>>
    BY <1>2 DEF StartPlay
  <2>2. handler[h].pc = "idle"
    BY <1>2 DEF StartPlay
  <2> QED
    BY <1>2, <2>1, <2>2, Moves, FindableKept DEF Closes
<1>3. ASSUME NEW h \in Handlers, StartRemove(h)  PROVE  Findable'
  <2>1. UNCHANGED displaced /\ handler[h].pc = "idle"
    BY <1>3 DEF StartRemove
  <2>2. Moved(h, IF entry = 0 THEN "closed" ELSE "close", entry)
    BY <1>3, Moves
  <2>3. entry # 0 => handler'[h].tor = entry /\ handler'[h].pc = "close"
    BY <2>2 DEF Moved
  <2> QED
    BY <2>1, <2>2, <2>3, FindableKept DEF Closes
<1>4. ASSUME NEW h \in Handlers, AddTorrentSpec(h)  PROVE  Findable'
  <2>1. UNCHANGED <<entry, displaced>>
    BY <1>4 DEF AddTorrentSpec
  <2>2. handler[h].pc = "spec"
    BY <1>4 DEF AddTorrentSpec
  <2> QED
    BY <1>4, <2>1, <2>2, Moves, FindableKept DEF Closes
<1>5. ASSUME NEW h \in Handlers, RegistryGet(h)  PROVE  Findable'
  <2>1. UNCHANGED <<entry, displaced>>
    BY <1>5 DEF RegistryGet
  <2>2. handler[h].pc = "get"
    BY <1>5 DEF RegistryGet
  <2>3. CASE entry # 0 /\ Moved(h, "added", entry)
    BY <2>1, <2>2, <2>3, FindableKept DEF Closes
  <2>4. CASE Moved(h, "store", Len(wrappers'))
    <3> SUFFICES ASSUME ~displaced', NEW g \in Handlers, NEW v \in DOMAIN wrappers',
                        Has(g, v)', Alive(v)', ~BeingClosed(v)'
                 PROVE  v = entry'
      BY Zenon DEF Findable
    <3>1. g # h /\ Has(g, v) /\ v # 0
      BY <2>4 DEF Has, Moved
    <3>2. v \in 1 .. Len(wrappers)
      BY <3>1 DEF Has, RegistryData
    <3> QED
      BY <2>1, <2>2, <2>4, <3>1, <3>2, OthersFind DEF Closes
  <2> QED
    BY <1>5, <2>3, <2>4, Moves
<1>6. ASSUME NEW h \in Handlers, LoadOrStore(h)  PROVE  Findable'
  <2>1. UNCHANGED displaced /\ handler[h].pc = "store" /\ Moved(h, "added", entry')
    BY <1>6, Moves DEF LoadOrStore
  <2>2. CASE entry # 0
    <3>1. entry' = entry
      BY <1>6, <2>2 DEF LoadOrStore
    <3> QED
      BY <2>1, <3>1, FindableKept DEF Closes
  <2>3. CASE entry = 0
    <3> SUFFICES ASSUME ~displaced', NEW g \in Handlers, NEW v \in DOMAIN wrappers',
                        Has(g, v)', Alive(v)', ~BeingClosed(v)'
                 PROVE  v = entry'
      BY Zenon DEF Findable
    <3>1. CASE g = h
      BY <2>1, <3>1 DEF Has, Moved
    <3>2. CASE g # h
      <4>1. Has(g, v) /\ v # 0
        BY <2>1, <3>2 DEF Has, Moved
      <4>2. v \in 1 .. Len(wrappers)
        BY <4>1 DEF Has, RegistryData
      <4> QED
        BY <2>1, <2>3, <4>1, <4>2, OthersFind DEF Closes
    <3> QED
      BY <3>1, <3>2
  <2> QED
    BY <2>2, <2>3
<1>7. ASSUME NEW h \in Handlers, Added(h)  PROVE  Findable'
  <2>1. UNCHANGED <<entry, displaced>>
    BY <1>7 DEF Added
  <2> QED
    BY <1>7, <2>1, GoesOn, FindableKept DEF Closes
<1>8. ASSUME NEW h \in Handlers, GotInfo(h)  PROVE  Findable'
  <2>1. UNCHANGED <<entry, displaced>>
    BY <1>8 DEF GotInfo
  <2> QED
    BY <1>8, <2>1, GoesOn, FindableKept DEF Closes
<1>9. ASSUME NEW h \in Handlers, WaitInfoReady(h)  PROVE  Findable'
  <2>1. UNCHANGED <<entry, displaced>>
    BY <1>9 DEF WaitInfoReady
  <2> QED
    BY <1>9, <2>1, GoesOn, FindableKept DEF Closes
<1>10. ASSUME NEW h \in Handlers, WaitInfoClosed(h)  PROVE  Findable'
  <2>1. UNCHANGED <<entry, displaced>>
    BY <1>10 DEF WaitInfoClosed
  <2> QED
    BY <1>10, <2>1, GoesOn, FindableKept DEF Closes
<1>11. ASSUME NEW h \in Handlers, WaitInfoTimeout(h)  PROVE  Findable'
  <2>1. UNCHANGED <<entry, displaced>>
    BY <1>11 DEF WaitInfoTimeout
  <2> QED
    BY <1>11, <2>1, GoesOn, FindableKept DEF Closes
<1>12. ASSUME NEW h \in Handlers, CloseEntry(h)  PROVE  Findable'
  <2>1. handler[h].pc = "close" /\ Moved(h, "closeHash", handler[h].tor)
    BY <1>12, GoesOn
  <2>2. (displaced => displaced') /\ (~displaced' => entry \in {0, handler[h].tor})
    BY <1>12, Zenon DEF CloseEntry
  <2>3. handler'[h].tor = handler[h].tor /\ handler'[h].pc = "closeHash"
    BY <2>1 DEF Moved
  <2> QED
    BY <2>1, <2>2, <2>3, FindableKept DEF Closes
<1>13. ASSUME NEW h \in Handlers, CloseHash(h)  PROVE  Findable'
  <2>1. UNCHANGED <<entry, displaced>>
    BY <1>13 DEF CloseHash
  <2> QED
    BY <1>13, <2>1, GoesOn, FindableKept DEF Closes
<1>14. ASSUME NEW h \in Handlers, Drop(h)  PROVE  Findable'
  <2>1. UNCHANGED <<entry, displaced>>
    BY <1>14 DEF Drop
  <2>2. handler[h].pc = "drop" /\ Moved(h, "closed", handler[h].tor)
    BY <1>14, GoesOn
  <2>3. handler[h].tor \in 1 .. Len(wrappers)
    BY <2>2 DEF HoldsWrapper, RegistryData
  <2>4. ~wrappers'[handler[h].tor].set
    BY <1>14, <2>3 DEF Drop, RegistryData, Wrapper
  <2> QED
    BY <2>1, <2>2, <2>4, FindableKept DEF Closes
<1>15. ASSUME NEW h \in Handlers, RemoveRecord(h)  PROVE  Findable'
  <2>1. UNCHANGED <<entry, displaced>>
    BY <1>15 DEF RemoveRecord
  <2> QED
    BY <1>15, <2>1, GoesOn, FindableKept DEF Closes
<1>16. ASSUME InfoArrives  PROVE  Findable'
  BY <1>16, Zenon DEF InfoArrives, Findable, Has, Alive, BeingClosed
<1>17. ASSUME UNCHANGED registryVars  PROVE  Findable'
  BY <1>17, Zenon DEF registryVars, Findable, Has, Alive, BeingClosed
<1>18. ASSUME NEW h \in Handlers, CloseRefused(h)  PROVE  Findable'
  <2>1. handler[h].pc = "close" /\ Moved(h, "idle", handler[h].tor)
    BY <1>18, GoesOn
  <2>2. UNCHANGED entry /\ (displaced => displaced') /\ (~displaced' => entry = handler[h].tor)
    BY <1>18, Zenon DEF CloseRefused
  <2> QED
    BY <2>1, <2>2, FindableKept
<1> QED
  BY <1>1, <1>2, <1>3, <1>4, <1>5, <1>6, <1>7, <1>8, <1>9,
     <1>10, <1>11, <1>12, <1>13, <1>14, <1>15, <1>16, <1>17, <1>18
  DEF RegistryNext, HandlerStep

\* No wrapper, no handler at work.
LEMMA RegistryInitInv == RegistryInit => RegistryInv
<1> SUFFICES ASSUME RegistryInit PROVE RegistryInv
  OBVIOUS
<1>1. RegistryData
  BY DEF RegistryInit, RegistryData, Idle, Places, Operations
<1>2. stored \in BOOLEAN /\ displaced \in BOOLEAN
  BY Zenon DEF RegistryInit
<1>3. HoldsWrapper /\ Unshared
  BY DEF RegistryInit, HoldsWrapper, Unshared, Idle
<1>4. Findable
  BY DEF RegistryInit, Findable
<1> QED
  BY <1>1, <1>2, <1>3, <1>4 DEF RegistryInv, RegistryTypeOK

\* The invariant is inductive.
LEMMA RegistryStep == RegistryInv /\ [RegistryNext]_registryVars => RegistryInv'
<1> SUFFICES ASSUME RegistryInv, [RegistryNext]_registryVars PROVE RegistryInv'
  OBVIOUS
<1>1. RegistryData /\ stored \in BOOLEAN /\ displaced \in BOOLEAN
  BY DEF RegistryInv, RegistryTypeOK
<1>2. HoldsWrapper /\ Unshared /\ Findable
  BY DEF RegistryInv
<1>3. WrappersKept /\ dropped \subseteq dropped'
  BY <1>1, <1>2, WrappersStep, DroppedStep
<1>4. RegistryData' /\ HoldsWrapper' /\ Unshared' /\ Findable'
  BY <1>1, <1>2, <1>3, RegistryDataStep, HoldsWrapperStep, UnsharedStep, FindableStep
<1>5. stored' \in BOOLEAN /\ displaced' \in BOOLEAN
  BY <1>1, RegistryFlagsStep
<1> QED
  BY <1>4, <1>5 DEF RegistryInv, RegistryTypeOK

\* For any number of handlers, torrents and wrappers: unless a late Close has taken
\* the entry of another wrapper, no handler goes on with a live torrent that the
\* registry does not know, however additions, plays and removals interleave
\* (btserver_torrent_registry.go).
THEOREM AddersShareOne == RegistrySpec => []AddersAgree
<1>1. RegistryInv => AddersAgree
  BY DEF RegistryInv, Findable, AddersAgree, Closing, BeingClosed
<1> QED
  BY <1>1, RegistryInitInv, RegistryStep, PTL DEF RegistrySpec

-----------------------------------------------------------------------------
(* The command line client.  What is kept of a command x, the state u of its *)
(* upload and what the server has done for it, e.                            *)

Early == {"confirm", "load", "change", "truncate", "write", "open", "resolve", "request"}
Uploading == {"do", "finish", "wait"}

WellFormed(x, u) ==
  /\ DOMAIN x = DOMAIN NoCommand /\ DOMAIN u = DOMAIN NoUpload
  /\ x.pc \in {"idle", "answered"} \cup Early \cup Uploading

\* What a command has decided by the time it is at a step.
Decided(x) ==
  /\ x.op \in ResolvedOperations => x.arg \in CtlIdentifiers
  /\ x.op = "wipe" /\ x.pc \notin {"idle", "confirm"} => x.confirmed
  /\ x.pc \in {"confirm", "load", "change", "truncate", "write"} => x.service = "none"
  /\ x.pc = "resolve" => x.op \in ResolvedOperations
  /\ x.pc \in {"request", "answered"} =>
       /\ x.op # "upload"
       /\ x.op \in ResolvedOperations =>
            x.service = "torrserver" /\ resolveTorrentID(x.listed, x.arg) = {x.target}
  /\ x.pc \in {"open"} \cup Uploading => x.op = "upload"

\* The server does nothing before it is asked, and what it answers it has done.
Requested(x, e) ==
  /\ x.pc \in Early => e = {}
  /\ x.pc = "answered" =>
       /\ e = {} \/ \E f \in outcomes(x.op, x.target) : e = {f}
       /\ x.answer = "ok" => x.service = "torrserver" /\ e # {}
       /\ x.service = "torrserver" => x.answer \in {"refused", "lost", "long", "ok"}

\* The boundary ends the form, and only a form that has ended is taken.
Uploaded(x, u, e) ==
  /\ x.pc \notin Uploading => u.writer \in {"none", "done", "error"} /\ u.fileOpen = FALSE
  /\ x.pc \in Uploading =>
       /\ u.writer \in {"content", "written", "failed", "done", "error"}
       /\ u.writer # "content" => u.fileOpen = FALSE
       /\ u.writer \in {"written", "done"} => u.parts = FileParts
       /\ u.boundary => u.writer \in {"done", "error"}
       /\ e \subseteq {<<"upload", u.parts>>} /\ (e # {} => u.boundary)
       /\ u.answer = "ok" => u.boundary /\ e = {<<"upload", u.parts>>}
       /\ x.service = "torrserver" => u.answer \in {"none", "refused", "ok"}
       /\ x.pc # "do" => x.answer \in {u.answer, "lost", "long"}

\* What the server has done is what was asked for ...
Meant(x, e) ==
  \A f \in e : /\ f \in outcomes(x.op, f[2])
               /\ x.op = "wipe" => x.confirmed
               /\ x.op \in ResolvedOperations => resolveTorrentID(x.listed, x.arg) = {f[2]}

\* ... and all of it, if the command says so.
Reported(x, e) ==
  x.pc = "idle" /\ x.result = "ok" =>
    /\ x.service = "torrserver" =>
         \E f \in outcomes(x.op, IF x.op = "upload" THEN FileParts ELSE x.target) : e = {f}
    /\ x.service = "other" => x.op \notin ResolvedOperations \cup {"version"}

Good(x, u, e) ==
  WellFormed(x, u) /\ Decided(x) /\ Requested(x, e) /\ Uploaded(x, u, e) /\ Meant(x, e) /\ Reported(x, e)

ClientInv ==
  /\ ctl = [c \in Ctls |-> ctl[c]] /\ upload = [c \in Ctls |-> upload[c]]
  /\ effects = [c \in Ctls |-> effects[c]]
  /\ \A c \in Ctls : Good(ctl[c], upload[c], effects[c])

\* An identifier that means one torrent means no other.
LEMMA OneMeant ==
  ASSUME NEW list, NEW id \in CtlIdentifiers, NEW h \in resolveTorrentID(list, id),
         Cardinality(resolveTorrentID(list, id)) = 1
  PROVE  resolveTorrentID(list, id) = {h}
<1> DEFINE meant == resolveTorrentID(list, id)
<1>1. CASE id.kind = "index"
  <2>1. meant = {list[i] : i \in {id.value} \cap DOMAIN list}
    BY <1>1 DEF resolveTorrentID
  <2> QED BY <2>1
<1>2. CASE id.kind = "hash" /\ id.value \in Range(list)
  <2>1. meant = {id.value}
    BY <1>2 DEF resolveTorrentID
  <2> QED BY <2>1
<1>3. CASE id.kind # "index" /\ ~(id.kind = "hash" /\ id.value \in Range(list))
  <2>1. meant = CtlTitles[id.value] \cap Range(list)
    BY <1>3 DEF resolveTorrentID
  <2>2. id.value \in DOMAIN CtlTitles /\ IsFiniteSet(CtlTitles[id.value])
    BY <1>3, ClientAssumption
  <2>3. IsFiniteSet(meant)
    BY <2>1, <2>2, FS_Intersection
  <2>4. \E y : meant = {y}
    BY <2>3, FS_Singleton
  <2> QED BY <2>4
<1> QED BY <1>1, <1>2, <1>3

\* A command that ends with its upload at rest, and does not claim too much.
LEMMA EndsGood ==
  ASSUME NEW x, NEW u, NEW e, Good(x, u, e), NEW result, NEW y,
         y = [x EXCEPT !.pc = "idle", !.result = result, !.cfg = Truncated, !.answer = "none"],
         u.writer \in {"none", "done", "error"}, u.fileOpen = FALSE,
         result = "ok" =>
           /\ x.service = "torrserver" =>
                \E f \in outcomes(x.op, IF x.op = "upload" THEN FileParts ELSE x.target) : e = {f}
           /\ x.service = "other" => x.op \notin ResolvedOperations \cup {"version"}
  PROVE  Good(y, u, e)
<1>1. DOMAIN x = {"pc", "op", "arg", "confirmed", "cfg", "service", "listed", "target", "answer", "result"}
  BY DEF Good, WellFormed, NoCommand
<1>2. /\ DOMAIN y = DOMAIN x /\ y.pc = "idle" /\ y.result = result
      /\ y.op = x.op /\ y.arg = x.arg /\ y.confirmed = x.confirmed /\ y.service = x.service
      /\ y.listed = x.listed /\ y.target = x.target
  BY <1>1
<1>3. WellFormed(y, u) /\ Decided(y) /\ Requested(y, e) /\ Uploaded(y, u, e)
  BY <1>2 DEF Good, WellFormed, Decided, Requested, Uploaded, Early, Uploading
<1>4. Meant(y, e)
  BY <1>2, Zenon DEF Good, Meant
<1>5. Reported(y, e)
  BY <1>2 DEF Reported
<1> QED BY <1>3, <1>4, <1>5 DEF Good

\* A step of one command leaves the others alone.
LEMMA OneCommand ==
  ASSUME ClientInv, NEW c \in Ctls, NEW x, NEW u, NEW e, Good(x, u, e),
         ctl' = [ctl EXCEPT ![c] = x], upload' = [upload EXCEPT ![c] = u],
         effects' = [effects EXCEPT ![c] = e]
  PROVE  ClientInv'
<1>1. /\ ctl' = [d \in Ctls |-> ctl'[d]] /\ upload' = [d \in Ctls |-> upload'[d]]
      /\ effects' = [d \in Ctls |-> effects'[d]]
  BY DEF ClientInv
<1>2. ASSUME NEW d \in Ctls PROVE Good(ctl'[d], upload'[d], effects'[d])
  <2>1. CASE d = c
    <3>1. ctl'[d] = x /\ upload'[d] = u /\ effects'[d] = e
      BY <2>1 DEF ClientInv
    <3> QED BY <3>1, Zenon
  <2>2. CASE d # c
    <3>1. ctl'[d] = ctl[d] /\ upload'[d] = upload[d] /\ effects'[d] = effects[d]
      BY <2>2 DEF ClientInv
    <3>2. Good(ctl[d], upload[d], effects[d])
      BY DEF ClientInv
    <3> QED BY <3>1, <3>2, Zenon
  <2> QED BY <2>1, <2>2
<1> QED BY <1>1, <1>2 DEF ClientInv

\* What is unchanged, said in the same way.
LEMMA Unchanged ==
  ASSUME ClientInv, NEW c \in Ctls
  PROVE  /\ ctl' = ctl => ctl' = [ctl EXCEPT ![c] = ctl[c]]
         /\ upload' = upload => upload' = [upload EXCEPT ![c] = upload[c]]
         /\ effects' = effects => effects' = [effects EXCEPT ![c] = effects[c]]
BY DEF ClientInv

\* A command starts, with nothing done for it and no upload.
LEMMA StartGood ==
  ASSUME ClientInv, NEW c \in Ctls, StartCommand(c)
  PROVE  ClientInv'
<1>1. PICK cmd \in ContextCommands \cup ReadOperations \cup WriteOperations \cup AddCommands :
        ctl' = [ctl EXCEPT ![c] =
                 [NoCommand EXCEPT !.op = cmd.op, !.arg = cmd.arg,
                    !.pc = CASE cmd.op = "refused" -> "idle"
                             [] cmd.op \in ConfirmedOperations -> "confirm"
                             [] OTHER -> "load",
                    !.result = IF cmd.op = "refused" THEN "error" ELSE "none"]]
  BY DEF StartCommand
<1> DEFINE x == [NoCommand EXCEPT !.op = cmd.op, !.arg = cmd.arg,
                    !.pc = CASE cmd.op = "refused" -> "idle"
                             [] cmd.op \in ConfirmedOperations -> "confirm"
                             [] OTHER -> "load",
                    !.result = IF cmd.op = "refused" THEN "error" ELSE "none"]
<1>2. cmd.op \in ResolvedOperations => cmd.arg \in CtlIdentifiers
  <2>1. CASE cmd \in ContextCommands \cup AddCommands
    <3>1. cmd.op \in {"context", "add", "upload", "refused"}
      BY <2>1 DEF ContextCommands, AddCommands, addOptions, command
    <3> QED BY <3>1 DEF ResolvedOperations
  <2>2. CASE cmd \in ReadOperations \cup WriteOperations
    BY <2>2 DEF ReadOperations, WriteOperations, command, ResolvedOperations
  <2> QED BY <2>1, <2>2
<1>3. /\ DOMAIN x = DOMAIN NoCommand /\ x.op = cmd.op /\ x.arg = cmd.arg
      /\ x.service = "none" /\ x.pc \in {"idle", "confirm", "load"}
      /\ x.op = "wipe" => x.pc # "load"
      /\ x.result # "ok"
  BY DEF NoCommand, ConfirmedOperations
<1> HIDE DEF x
<1>4. NoUpload.writer = "none" /\ NoUpload.fileOpen = FALSE
  BY DEF NoUpload
<1>5. Good(x, NoUpload, {})
  BY <1>2, <1>3, <1>4
  DEF Good, WellFormed, Decided, Requested, Uploaded, Meant, Reported, Early, Uploading
<1>6. /\ ctl' = [ctl EXCEPT ![c] = x] /\ upload' = [upload EXCEPT ![c] = NoUpload]
      /\ effects' = [effects EXCEPT ![c] = {}]
  BY <1>1 DEF StartCommand, x
<1> QED BY <1>5, <1>6, OneCommand

\* A step that ends a command whose upload is at rest.
LEMMA EndsStep ==
  ASSUME ClientInv, NEW c \in Ctls, NEW result, Ends(c, result),
         UNCHANGED <<upload, effects>>,
         upload[c].writer \in {"none", "done", "error"}, upload[c].fileOpen = FALSE,
         result = "ok" =>
           /\ ctl[c].service = "torrserver" =>
                \E f \in outcomes(ctl[c].op, IF ctl[c].op = "upload" THEN FileParts ELSE ctl[c].target) :
               effects[c] = {f}
           /\ ctl[c].service = "other" => ctl[c].op \notin ResolvedOperations \cup {"version"}
  PROVE  ClientInv'
<1> DEFINE x == ctl[c]
           u == upload[c]
           e == effects[c]
           y == [x EXCEPT !.pc = "idle", !.result = result, !.cfg = Truncated, !.answer = "none"]
<1>1. Good(x, u, e) /\ ctl = [d \in Ctls |-> ctl[d]]
  BY DEF ClientInv
<1>2. /\ u.writer \in {"none", "done", "error"} /\ u.fileOpen = FALSE
      /\ result = "ok" =>
           /\ x.service = "torrserver" =>
                \E f \in outcomes(x.op, IF x.op = "upload" THEN FileParts ELSE x.target) : e = {f}
           /\ x.service = "other" => x.op \notin ResolvedOperations \cup {"version"}
  OBVIOUS
<1>3. ctl' = [ctl EXCEPT ![c] = y]
  BY <1>1 DEF Ends
<1>4. upload' = [upload EXCEPT ![c] = u] /\ effects' = [effects EXCEPT ![c] = e]
  BY Unchanged
<1>5. y = [x EXCEPT !.pc = "idle", !.result = result, !.cfg = Truncated, !.answer = "none"]
  OBVIOUS
<1> HIDE DEF x, u, e, y
<1>6. Good(y, u, e)
  BY <1>1, <1>2, <1>5, EndsGood
<1> QED BY <1>3, <1>4, <1>6, OneCommand

\* An upload that is not under way is at rest.
LEMMA UploadRests ==
  ASSUME ClientInv, NEW c \in Ctls, ctl[c].pc \notin Uploading
  PROVE  upload[c].writer \in {"none", "done", "error"} /\ upload[c].fileOpen = FALSE
BY DEF ClientInv, Good, Uploaded

\* A command before its request goes on, with a service if it has chosen one.
LEMMA EarlyStep ==
  ASSUME ClientInv, NEW c \in Ctls, NEW x, ctl' = [ctl EXCEPT ![c] = x],
         UNCHANGED <<upload, effects>>,
         ctl[c].pc \in Early, x.pc \in Early, DOMAIN x = DOMAIN NoCommand, Decided(x)
  PROVE  ClientInv'
<1> DEFINE w == ctl[c]
           u == upload[c]
           e == effects[c]
<1>1. Good(w, u, e) /\ w.pc \in Early
  BY DEF ClientInv
<1>2. upload' = [upload EXCEPT ![c] = u] /\ effects' = [effects EXCEPT ![c] = e]
  BY Unchanged
<1> HIDE DEF w, u, e
<1>3. Good(x, u, e)
  BY <1>1
  DEF Good, WellFormed, Requested, Uploaded, Meant, Reported, Early, Uploading
<1> QED BY <1>2, <1>3, OneCommand

LEMMA ConfirmGood ==
  ASSUME ClientInv, NEW c \in Ctls, ConfirmCommand(c)
  PROVE  ClientInv'
<1>1. UNCHANGED <<upload, effects>> /\ ctl[c].pc = "confirm" /\ ctl = [d \in Ctls |-> ctl[d]]
  BY DEF ConfirmCommand, CtlAt, ClientInv
<1>2. CASE Ends(c, "error")
  BY <1>1, <1>2, EndsStep, UploadRests DEF Uploading
<1>3. CASE ctl' = [ctl EXCEPT ![c].pc = "load", ![c].confirmed = TRUE]
  <2> DEFINE w == ctl[c]
             x == [w EXCEPT !.pc = "load", !.confirmed = TRUE]
  <2>1. ctl' = [ctl EXCEPT ![c] = x]
    BY <1>1, <1>3
  <2>2. DOMAIN w = DOMAIN NoCommand /\ Decided(w)
    BY DEF ClientInv, Good, WellFormed
  <2>3. /\ x.pc = "load" /\ x.confirmed = TRUE /\ DOMAIN x = DOMAIN NoCommand
        /\ x.op = w.op /\ x.arg = w.arg /\ x.service = w.service
    BY <2>2 DEF NoCommand
  <2> HIDE DEF x
  <2>4. Decided(x)
    BY <1>1, <2>2, <2>3 DEF Decided, Uploading
  <2> QED BY <1>1, <2>1, <2>3, <2>4, EarlyStep DEF Early
<1> QED BY <1>2, <1>3 DEF ConfirmCommand

LEMMA LoadGood ==
  ASSUME ClientInv, NEW c \in Ctls, LoadContexts(c)
  PROVE  ClientInv'
<1> DEFINE w == ctl[c]
<1>1. /\ UNCHANGED <<upload, effects>> /\ w.pc = "load" /\ ctl = [d \in Ctls |-> ctl[d]]
      /\ DOMAIN w = DOMAIN NoCommand /\ Decided(w)
  BY DEF LoadContexts, CtlAt, ClientInv, Good, WellFormed
<1>2. CASE Ends(c, "error")
  BY <1>1, <1>2, EndsStep, UploadRests DEF Uploading
<1>3. CASE \E cfg : w.op = "context" /\ ctl' = [ctl EXCEPT ![c].pc = "change", ![c].cfg = cfg]
  <2>1. PICK cfg : w.op = "context" /\ ctl' = [ctl EXCEPT ![c].pc = "change", ![c].cfg = cfg]
    BY <1>3
  <2> DEFINE x == [w EXCEPT !.pc = "change", !.cfg = cfg]
  <2>2. ctl' = [ctl EXCEPT ![c] = x]
    BY <1>1, <2>1
  <2>3. /\ x.pc = "change" /\ DOMAIN x = DOMAIN NoCommand /\ x.confirmed = w.confirmed
        /\ x.op = w.op /\ x.arg = w.arg /\ x.service = w.service
    BY <1>1 DEF NoCommand
  <2> HIDE DEF x
  <2>4. Decided(x)
    BY <1>1, <2>3 DEF Decided, Uploading
  <2> QED BY <1>1, <2>2, <2>3, <2>4, EarlyStep DEF Early
<1> DEFINE next == CASE ctl[c].op = "upload" -> "open"
                     [] ctl[c].op \in ResolvedOperations -> "resolve"
                     [] OTHER -> "request"
<1>4. CASE \E service : ctl' = [ctl EXCEPT ![c].service = service, ![c].pc = next]
  <2>1. PICK service : ctl' = [ctl EXCEPT ![c].service = service, ![c].pc = next]
    BY <1>4
  <2>2. \/ next = "open" /\ w.op = "upload"
        \/ next = "resolve" /\ w.op \in ResolvedOperations
        \/ next = "request" /\ w.op \notin ResolvedOperations \cup {"upload"}
    OBVIOUS
  <2> HIDE DEF next
  <2> DEFINE x == [w EXCEPT !.service = service, !.pc = next]
  <2>3. ctl' = [ctl EXCEPT ![c] = x]
    BY <1>1, <2>1
  <2>4. /\ DOMAIN x = DOMAIN NoCommand /\ x.confirmed = w.confirmed
        /\ x.op = w.op /\ x.arg = w.arg /\ x.pc = next
    BY <1>1 DEF NoCommand
  <2> HIDE DEF x
  <2>5. Decided(x) /\ x.pc \in Early
    BY <1>1, <2>2, <2>4 DEF Decided, Uploading, Early
  <2> QED BY <1>1, <2>3, <2>4, <2>5, EarlyStep DEF Early
<1> QED BY <1>2, <1>3, <1>4 DEF LoadContexts

\* The contexts file is the client's own.
LEMMA ContextsGood ==
  ASSUME ClientInv, NEW c \in Ctls, ChangeContexts(c) \/ TruncateContexts(c) \/ WriteContexts(c)
  PROVE  ClientInv'
<1> DEFINE w == ctl[c]
<1>1. /\ UNCHANGED <<upload, effects>> /\ w.pc \in {"change", "truncate", "write"}
      /\ ctl = [d \in Ctls |-> ctl[d]] /\ DOMAIN w = DOMAIN NoCommand /\ Decided(w)
  BY DEF ChangeContexts, TruncateContexts, WriteContexts, CtlAt, ClientInv, Good, WellFormed
<1>2. w.service = "none"
  BY <1>1 DEF Decided
<1>3. CASE \E result : Ends(c, result)
  BY <1>1, <1>2, <1>3, EndsStep, UploadRests DEF Uploading
<1>4. CASE \E cfg : ctl' = [ctl EXCEPT ![c].pc = "truncate", ![c].cfg = cfg]
  <2>1. PICK cfg : ctl' = [ctl EXCEPT ![c].pc = "truncate", ![c].cfg = cfg]
    BY <1>4
  <2> DEFINE x == [w EXCEPT !.pc = "truncate", !.cfg = cfg]
  <2>2. ctl' = [ctl EXCEPT ![c] = x]
    BY <1>1, <2>1
  <2>3. /\ x.pc = "truncate" /\ DOMAIN x = DOMAIN NoCommand /\ x.confirmed = w.confirmed
        /\ x.op = w.op /\ x.arg = w.arg /\ x.service = w.service
    BY <1>1 DEF NoCommand
  <2> HIDE DEF x
  <2>4. Decided(x)
    BY <1>1, <2>3 DEF Decided, Uploading
  <2> QED BY <1>1, <2>2, <2>3, <2>4, EarlyStep DEF Early
<1>5. CASE ctl' = [ctl EXCEPT ![c].pc = "write"]
  <2> DEFINE x == [w EXCEPT !.pc = "write"]
  <2>2. ctl' = [ctl EXCEPT ![c] = x]
    BY <1>1, <1>5
  <2>3. /\ x.pc = "write" /\ DOMAIN x = DOMAIN NoCommand /\ x.confirmed = w.confirmed
        /\ x.op = w.op /\ x.arg = w.arg /\ x.service = w.service
    BY <1>1 DEF NoCommand
  <2> HIDE DEF x
  <2>4. Decided(x)
    BY <1>1, <2>3 DEF Decided, Uploading
  <2> QED BY <1>1, <2>2, <2>3, <2>4, EarlyStep DEF Early
<1>6. \/ \E result : Ends(c, result)
      \/ ctl' = [ctl EXCEPT ![c].pc = "write"]
      \/ \E cfg : ctl' = [ctl EXCEPT ![c].pc = "truncate", ![c].cfg = cfg]
  <2>1. CASE ChangeContexts(c)
    <3>1. \/ Ends(c, "error")
          \/ ctl' = [ctl EXCEPT ![c].pc = "truncate",
                       ![c].cfg = normalizeContextConfig(contextChanged(@, ctl[c].arg.change, ctl[c].arg.name))]
      BY <2>1, Zenon DEF ChangeContexts
    <3> QED BY <3>1
  <2>2. CASE TruncateContexts(c)
    BY <2>2 DEF TruncateContexts
  <2>3. CASE WriteContexts(c)
    BY <2>3 DEF WriteContexts
  <2> QED BY <2>1, <2>2, <2>3
<1> QED BY <1>3, <1>4, <1>5, <1>6

\* The name means one torrent of the list, or the command ends.
LEMMA ResolveGood ==
  ASSUME ClientInv, NEW c \in Ctls, Resolve(c)
  PROVE  ClientInv'
<1> DEFINE w == ctl[c]
<1>1. /\ UNCHANGED <<upload, effects>> /\ w.pc = "resolve" /\ ctl = [d \in Ctls |-> ctl[d]]
      /\ DOMAIN w = DOMAIN NoCommand /\ Decided(w)
  BY DEF Resolve, CtlAt, ClientInv, Good, WellFormed
<1>2. CASE Ends(c, "error")
  BY <1>1, <1>2, EndsStep, UploadRests DEF Uploading
<1>3. CASE ~Ends(c, "error")
  <2>1. PICK h \in resolveTorrentID(serverTorrents, w.arg) :
          /\ w.service = "torrserver" /\ Cardinality(resolveTorrentID(serverTorrents, w.arg)) = 1
          /\ ctl' = [ctl EXCEPT ![c].pc = "request", ![c].target = h, ![c].listed = serverTorrents]
    BY <1>3 DEF Resolve
  <2>2. w.op \in ResolvedOperations /\ w.arg \in CtlIdentifiers
    BY <1>1 DEF Decided
  <2>3. resolveTorrentID(serverTorrents, w.arg) = {h}
    BY <2>1, <2>2, OneMeant
  <2> DEFINE x == [w EXCEPT !.pc = "request", !.target = h, !.listed = serverTorrents]
  <2>4. ctl' = [ctl EXCEPT ![c] = x]
    BY <1>1, <2>1
  <2>5. /\ DOMAIN x = DOMAIN NoCommand /\ x.confirmed = w.confirmed /\ x.pc = "request"
        /\ x.op = w.op /\ x.arg = w.arg /\ x.service = w.service
        /\ x.target = h /\ x.listed = serverTorrents
    BY <1>1 DEF NoCommand
  <2> HIDE DEF x
  <2>6. Decided(x)
    BY <1>1, <2>1, <2>2, <2>3, <2>5 DEF Decided, Uploading, ResolvedOperations
  <2> QED BY <1>1, <2>4, <2>5, <2>6, EarlyStep DEF Early
<1> QED BY <1>2, <1>3

\* The server answers what it has done, or does not answer.
LEMMA RequestGood ==
  ASSUME ClientInv, NEW c \in Ctls, Request(c)
  PROVE  ClientInv'
<1> DEFINE w == ctl[c]
           u == upload[c]
<1>1. PICK answer \in Answers(w.service) :
        /\ ctl' = [ctl EXCEPT ![c].pc = "answered", ![c].answer = answer]
        /\ \/ /\ w.service = "torrserver" /\ answer # "refused"
              /\ Performs(c, w.op, w.target)
           \/ /\ w.service # "torrserver" \/ answer \in {"refused", "lost"}
              /\ UNCHANGED <<serverTorrents, effects>>
  BY DEF Request
<1>2. /\ w.pc = "request" /\ upload' = upload /\ ctl = [d \in Ctls |-> ctl[d]]
      /\ effects = [d \in Ctls |-> effects[d]] /\ Good(w, u, effects[c])
  BY DEF Request, CtlAt, ClientInv
<1>3. effects[c] = {} /\ DOMAIN w = DOMAIN NoCommand
  BY <1>2 DEF Good, Requested, WellFormed, Early
<1>4. PICK e : /\ effects' = [effects EXCEPT ![c] = e]
               /\ \/ /\ \E f \in outcomes(w.op, w.target) : e = {f}
                     /\ w.service = "torrserver" /\ answer # "refused"
                  \/ e = {} /\ (w.service # "torrserver" \/ answer \in {"refused", "lost"})
  <2>1. CASE Performs(c, w.op, w.target) /\ w.service = "torrserver" /\ answer # "refused"
    <3>1. PICK f \in outcomes(w.op, w.target) : effects' = [effects EXCEPT ![c] = @ \cup {f}]
      BY <2>1 DEF Performs
    <3>2. effects' = [effects EXCEPT ![c] = {f}]
      BY <1>3, <3>1
    <3> QED BY <2>1, <3>2, Zenon
  <2>2. CASE UNCHANGED effects /\ (w.service # "torrserver" \/ answer \in {"refused", "lost"})
    <3>1. effects' = [effects EXCEPT ![c] = {}]
      BY <1>2, <1>3, <2>2
    <3> QED BY <2>2, <3>1
  <2> QED BY <1>1, <2>1, <2>2
<1>5. answer = "ok" => w.service = "torrserver"
  BY DEF Answers
<1>6. w.service = "torrserver" => answer \in {"refused", "lost", "long", "ok"}
  BY DEF Answers
<1> DEFINE x == [w EXCEPT !.pc = "answered", !.answer = answer]
<1>7. ctl' = [ctl EXCEPT ![c] = x]
  BY <1>1, <1>2
<1>8. /\ DOMAIN x = DOMAIN NoCommand /\ x.confirmed = w.confirmed /\ x.pc = "answered"
      /\ x.op = w.op /\ x.arg = w.arg /\ x.service = w.service /\ x.answer = answer
      /\ x.target = w.target /\ x.listed = w.listed
  BY <1>3 DEF NoCommand
<1>9. upload' = [upload EXCEPT ![c] = u]
  BY <1>2, Unchanged
<1> HIDE DEF x, w, u
<1>10. Good(x, u, e)
  <2>1. WellFormed(x, u) /\ Decided(x) /\ Uploaded(x, u, e)
    BY <1>2, <1>8 DEF Good, WellFormed, Decided, Uploaded, Uploading, Early
  <2>2. Requested(x, e) /\ Reported(x, e)
    BY <1>4, <1>5, <1>6, <1>8 DEF Requested, Reported, Early
  <2>3. Meant(x, e)
    <3>1. Decided(x) /\ x.pc = "answered" /\ \A f \in e : f \in outcomes(x.op, x.target)
      BY <1>4, <1>8, <2>1
    <3>2. \A f \in e : f \in outcomes(x.op, f[2]) /\ f[2] = x.target
      BY <3>1 DEF outcomes
    <3> QED BY <3>1, <3>2 DEF Decided, Meant, Uploading
  <2> QED BY <2>1, <2>2, <2>3 DEF Good
<1> QED BY <1>4, <1>7, <1>9, <1>10, OneCommand

\* Only another service answers the version request with nothing, which is no version.
LEMMA AnsweredGood ==
  ASSUME ClientInv, NEW c \in Ctls, Answered(c)
  PROVE  ClientInv'
<1>1. /\ ctl[c].pc = "answered" /\ UNCHANGED <<upload, effects>>
      /\ Good(ctl[c], upload[c], effects[c])
  BY DEF Answered, CtlAt, ClientInv
<1>2. /\ ctl[c].answer = "ok" => ctl[c].service = "torrserver" /\ effects[c] # {}
      /\ effects[c] = {} \/ \E f \in outcomes(ctl[c].op, ctl[c].target) : effects[c] = {f}
      /\ ctl[c].service = "torrserver" => ctl[c].answer \in {"refused", "lost", "long", "ok"}
      /\ ctl[c].op # "upload"
      /\ ctl[c].op \in ResolvedOperations => ctl[c].service = "torrserver"
  BY <1>1 DEF Good, Requested, Decided
<1>3. PICK result :
        /\ Ends(c, result)
        /\ result = "ok" => IF ctl[c].op = "version" THEN ctl[c].answer = "ok"
                            ELSE doJSON(ctl[c].answer, ctl[c].op)
  <2>1. CASE ctl[c].op = "version" /\ ctl[c].answer \in {"ok", "empty"}
    <3>1. PICK doc : /\ ctl[c].answer # "ok" => doc = EmptyVersion
                     /\ Ends(c, IF normalizeAndValidateVersion(doc) THEN "ok" ELSE "error")
      BY <2>1 DEF Answered
    <3>2. ~normalizeAndValidateVersion(EmptyVersion)
      BY DEF normalizeAndValidateVersion, isRecognizedLegacyVersion, EmptyVersion
    <3> QED BY <2>1, <3>1, <3>2
  <2>2. CASE ctl[c].op = "version" /\ ctl[c].answer \notin {"ok", "empty"}
    BY <2>2 DEF Answered
  <2>3. CASE ctl[c].op # "version"
    BY <2>3 DEF Answered
  <2> QED BY <2>1, <2>2, <2>3
<1>4. result = "ok" =>
        /\ ctl[c].service = "torrserver" =>
             \E f \in outcomes(ctl[c].op, IF ctl[c].op = "upload" THEN FileParts ELSE ctl[c].target) :
               effects[c] = {f}
        /\ ctl[c].service = "other" => ctl[c].op \notin ResolvedOperations \cup {"version"}
  BY <1>2, <1>3 DEF doJSON, readBounded
<1> QED BY <1>1, <1>3, <1>4, EndsStep, UploadRests DEF Uploading

-----------------------------------------------------------------------------
(* The upload.                                                              *)

LEMMA OpenGood ==
  ASSUME ClientInv, NEW c \in Ctls, OpenUpload(c)
  PROVE  ClientInv'
<1> DEFINE w == ctl[c]
           e == effects[c]
<1>1. /\ w.pc = "open" /\ effects' = effects /\ ctl = [d \in Ctls |-> ctl[d]]
      /\ Good(w, upload[c], e)
  BY DEF OpenUpload, CtlAt, ClientInv
<1>2. CASE Ends(c, "error") /\ UNCHANGED upload
  BY <1>1, <1>2, EndsStep, UploadRests DEF Uploading
<1>3. CASE ~(Ends(c, "error") /\ UNCHANGED upload)
  <2> DEFINE x == [w EXCEPT !.pc = "do"]
             u == [NoUpload EXCEPT !.writer = "content", !.readerOpen = TRUE, !.fileOpen = TRUE]
  <2>1. ctl' = [ctl EXCEPT ![c] = x] /\ upload' = [upload EXCEPT ![c] = u]
    BY <1>1, <1>3 DEF OpenUpload
  <2>2. effects' = [effects EXCEPT ![c] = e]
    BY <1>1, Unchanged
  <2>3. /\ e = {} /\ w.op = "upload" /\ DOMAIN w = DOMAIN NoCommand
    BY <1>1 DEF Good, Requested, Decided, WellFormed, Early
  <2>4. /\ DOMAIN x = DOMAIN NoCommand /\ x.pc = "do" /\ x.op = w.op
    BY <2>3 DEF NoCommand
  <2>5. /\ DOMAIN u = DOMAIN NoUpload /\ u.writer = "content" /\ u.boundary = FALSE
        /\ u.answer = "none"
    BY DEF NoUpload
  <2> HIDE DEF x, u, w, e
  <2>6. Good(x, u, e)
    BY <2>3, <2>4, <2>5
    DEF Good, WellFormed, Decided, Requested, Uploaded, Meant, Reported, Early, Uploading,
        ResolvedOperations
  <2> QED BY <2>1, <2>2, <2>6, OneCommand
<1> QED BY <1>2, <1>3

\* The writer and the pipe: what a step makes of an upload that is not at rest.
Written(u, v) ==
  /\ DOMAIN v = DOMAIN u /\ v.answer = u.answer
  /\ \/ /\ u.writer = "content" /\ v.writer = "content" /\ v.boundary = u.boundary
     \/ /\ u.writer = "content" /\ v.writer = "written" /\ v.parts = FileParts
        /\ v.fileOpen = FALSE /\ v.boundary = u.boundary
     \/ /\ u.writer = "content" /\ v.writer = "failed" /\ v.fileOpen = FALSE
        /\ v.boundary = u.boundary
     \/ /\ u.writer \in {"written", "failed"}
        /\ v.writer \in {"done", "error"} /\ (v.writer = "done" => u.writer = "written")
        /\ v.parts = u.parts /\ v.fileOpen = u.fileOpen

LEMMA WriterGood ==
  ASSUME ClientInv, NEW c \in Ctls, PipeTakes(c) \/ FileFails(c) \/ WriterStep(c)
  PROVE  ClientInv'
<1> DEFINE w == ctl[c]
           u == upload[c]
           e == effects[c]
<1>1. /\ UNCHANGED <<ctl, effects>> /\ upload = [d \in Ctls |-> upload[d]] /\ Good(w, u, e)
  BY DEF PipeTakes, FileFails, WriterStep, ClientInv
<1>2. DOMAIN u = DOMAIN NoUpload
  BY <1>1 DEF Good, WellFormed
<1>3. PICK v : upload' = [upload EXCEPT ![c] = v] /\ Written(u, v)
  <2>1. CASE u.writer = "content" /\ upload' = [upload EXCEPT ![c].parts = @ + 1]
    <3> DEFINE v == [u EXCEPT !.parts = @ + 1]
    <3>1. upload' = [upload EXCEPT ![c] = v]
      BY <1>1, <2>1
    <3>2. Written(u, v)
      BY <1>2, <2>1 DEF Written, NoUpload
    <3> HIDE DEF v
    <3> QED BY <3>1, <3>2
  <2>2. CASE /\ u.writer \in {"written", "failed"}
             /\ upload' = [upload EXCEPT ![c].boundary = TRUE,
                             ![c].writer = IF @ = "written" THEN "done" ELSE "error"]
    <3> DEFINE v == [u EXCEPT !.boundary = TRUE,
                              !.writer = IF @ = "written" THEN "done" ELSE "error"]
    <3>1. upload' = [upload EXCEPT ![c] = v]
      BY <1>1, <2>2
    <3>2. Written(u, v)
      BY <1>2, <2>2 DEF Written, NoUpload
    <3> HIDE DEF v
    <3> QED BY <3>1, <3>2
  <2>3. CASE u.writer = "content" /\ upload' = [upload EXCEPT ![c].writer = "failed", ![c].fileOpen = FALSE]
    <3> DEFINE v == [u EXCEPT !.writer = "failed", !.fileOpen = FALSE]
    <3>1. upload' = [upload EXCEPT ![c] = v]
      BY <1>1, <2>3
    <3>2. Written(u, v)
      BY <1>2, <2>3 DEF Written, NoUpload
    <3> HIDE DEF v
    <3> QED BY <3>1, <3>2
  <2>4. CASE /\ u.writer = "content" /\ u.parts = FileParts
             /\ upload' = [upload EXCEPT ![c].writer = "written", ![c].fileOpen = FALSE]
    <3> DEFINE v == [u EXCEPT !.writer = "written", !.fileOpen = FALSE]
    <3>1. upload' = [upload EXCEPT ![c] = v]
      BY <1>1, <2>4
    <3>2. Written(u, v)
      BY <1>2, <2>4 DEF Written, NoUpload
    <3> HIDE DEF v
    <3> QED BY <3>1, <3>2
  <2>5. CASE u.writer \in {"written", "failed"} /\ upload' = [upload EXCEPT ![c].writer = "error"]
    <3> DEFINE v == [u EXCEPT !.writer = "error"]
    <3>1. upload' = [upload EXCEPT ![c] = v]
      BY <1>1, <2>5
    <3>2. Written(u, v)
      BY <1>2, <2>5 DEF Written, NoUpload
    <3> HIDE DEF v
    <3> QED BY <3>1, <3>2
  <2> QED BY <2>1, <2>2, <2>3, <2>4, <2>5, Zenon DEF PipeTakes, FileFails, WriterStep
<1>4. ctl' = [ctl EXCEPT ![c] = w] /\ effects' = [effects EXCEPT ![c] = e]
  BY <1>1, Unchanged
<1> HIDE DEF w, u, e
<1>5. w.pc \in Uploading
  BY <1>1, <1>3 DEF Good, Uploaded, Written
<1>6. Uploaded(w, v, e)
  <2>1. /\ u.writer # "content" => u.fileOpen = FALSE
        /\ u.writer \in {"written", "done"} => u.parts = FileParts
        /\ u.boundary => u.writer \in {"done", "error"}
        /\ e # {} => u.boundary
        /\ u.answer = "ok" => u.boundary
        /\ w.service = "torrserver" => u.answer \in {"none", "refused", "ok"}
        /\ w.pc # "do" => w.answer \in {u.answer, "lost", "long"}
    BY <1>1, <1>5 DEF Good, Uploaded
  <2>2. ~u.boundary /\ e = {} /\ u.answer # "ok"
    BY <1>3, <2>1 DEF Written
  <2> QED BY <1>3, <1>5, <2>1, <2>2 DEF Written, Uploaded
<1>7. Good(w, v, e)
  BY <1>1, <1>2, <1>3, <1>6 DEF Good, WellFormed, Written
<1> QED BY <1>3, <1>4, <1>7, OneCommand

\* The form is taken whole, or refused.
LEMMA UploadAnsweredGood ==
  ASSUME ClientInv, NEW c \in Ctls, UploadAnswered(c)
  PROVE  ClientInv'
<1> DEFINE w == ctl[c]
           u == upload[c]
<1>1. /\ w.pc = "do" /\ u.answer = "none" /\ ctl' = ctl /\ upload = [d \in Ctls |-> upload[d]]
      /\ effects = [d \in Ctls |-> effects[d]] /\ Good(w, u, effects[c])
  BY DEF UploadAnswered, CtlAt, ClientInv
<1>2. DOMAIN u = DOMAIN NoUpload /\ w.op = "upload"
  BY <1>1 DEF Good, WellFormed, Decided, Uploading
<1>3. PICK answer, e :
        /\ upload' = [upload EXCEPT ![c].answer = answer] /\ effects' = [effects EXCEPT ![c] = e]
        /\ \/ answer = "ok" /\ u.boundary /\ e = {<<"upload", u.parts>>}
           \/ answer # "ok" /\ e = effects[c] /\ (w.service = "torrserver" => answer = "refused")
  <2> DEFINE took == {<<"upload", u.parts>>}
  <2>1. CASE /\ u.boundary /\ upload' = [upload EXCEPT ![c].answer = "ok"]
             /\ Performs(c, "upload", u.parts)
    <3>1. effects[c] \subseteq took
      BY <1>1 DEF Good, Uploaded, Uploading
    <3>2. effects' = [effects EXCEPT ![c] = took]
      <4>1. outcomes("upload", u.parts) = took
        BY DEF outcomes
      <4> QED BY <1>1, <2>1, <3>1, <4>1 DEF Performs
    <3> HIDE DEF took, u
    <3>3. upload' = [upload EXCEPT ![c].answer = "ok"] /\ u.boundary
      BY <2>1
    <3> QED BY <3>2, <3>3, Zenon DEF took
  <2>2. CASE /\ \E answer \in Answers(w.service) \ {"ok", "lost", "long"} :
                  upload' = [upload EXCEPT ![c].answer = answer]
             /\ UNCHANGED effects
    <3>1. PICK answer \in Answers(w.service) \ {"ok", "lost", "long"} :
            upload' = [upload EXCEPT ![c].answer = answer]
      BY <2>2
    <3> DEFINE e == effects[c]
    <3>2. effects' = [effects EXCEPT ![c] = e]
      BY <2>2, Unchanged
    <3>3. answer # "ok" /\ (w.service = "torrserver" => answer = "refused")
      BY <3>1 DEF Answers
    <3>4. e = effects[c]
      OBVIOUS
    <3> HIDE DEF e
    <3> QED BY <3>1, <3>2, <3>3, <3>4, Zenon
  <2> QED BY <2>1, <2>2, Zenon DEF UploadAnswered
<1> DEFINE v == [u EXCEPT !.answer = answer]
<1>4. upload' = [upload EXCEPT ![c] = v]
  BY <1>1, <1>3
<1>5. /\ DOMAIN v = DOMAIN NoUpload /\ v.answer = answer /\ v.writer = u.writer
      /\ v.fileOpen = u.fileOpen /\ v.parts = u.parts /\ v.boundary = u.boundary
  BY <1>2 DEF NoUpload
<1>6. ctl' = [ctl EXCEPT ![c] = w]
  BY <1>1, Unchanged
<1> HIDE DEF v, w, u
<1>7. Uploaded(w, v, e)
  BY <1>1, <1>3, <1>5 DEF Good, Uploaded, Uploading
<1>8. Requested(w, e) /\ Reported(w, e) /\ WellFormed(w, v) /\ Decided(w)
  BY <1>1, <1>5 DEF Good, Requested, Reported, WellFormed, Early
<1>9. Meant(w, e)
  <2>1. e \subseteq {<<"upload", v.parts>>}
    BY <1>1, <1>7 DEF Uploaded, Uploading
  <2> QED BY <1>2, <2>1 DEF Meant, ResolvedOperations, outcomes
<1>10. Good(w, v, e)
  BY <1>7, <1>8, <1>9 DEF Good
<1> QED BY <1>3, <1>4, <1>6, <1>10, OneCommand

\* http.Do brings the answer or a failure; then the pipe is closed.
LEMMA UploadReturnsGood ==
  ASSUME ClientInv, NEW c \in Ctls, UploadReturns(c) \/ FinishUpload(c)
  PROVE  ClientInv'
<1> DEFINE w == ctl[c]
           u == upload[c]
           e == effects[c]
<1>1. /\ effects' = effects /\ ctl = [d \in Ctls |-> ctl[d]]
      /\ upload = [d \in Ctls |-> upload[d]] /\ Good(w, u, e)
  BY DEF UploadReturns, FinishUpload, ClientInv
<1>2. DOMAIN w = DOMAIN NoCommand /\ DOMAIN u = DOMAIN NoUpload
  BY <1>1 DEF Good, WellFormed
<1>3. effects' = [effects EXCEPT ![c] = e]
  BY <1>1, Unchanged
<1>4. CASE UploadReturns(c)
  <2>1. PICK answer \in {u.answer, "lost", "long"} :
          ctl' = [ctl EXCEPT ![c].pc = "finish", ![c].answer = answer]
    BY <1>4 DEF UploadReturns
  <2>2. w.pc = "do" /\ upload' = [upload EXCEPT ![c] = u]
    BY <1>4, Unchanged DEF UploadReturns, CtlAt
  <2> DEFINE x == [w EXCEPT !.pc = "finish", !.answer = answer]
  <2>3. ctl' = [ctl EXCEPT ![c] = x]
    BY <1>1, <2>1
  <2>4. /\ DOMAIN x = DOMAIN NoCommand /\ x.pc = "finish" /\ x.answer = answer
        /\ x.confirmed = w.confirmed /\ x.op = w.op /\ x.arg = w.arg
        /\ x.service = w.service /\ x.listed = w.listed
    BY <1>2 DEF NoCommand
  <2> HIDE DEF x, w, u, e
  <2>5. WellFormed(x, u) /\ Decided(x) /\ Requested(x, e) /\ Reported(x, e)
    BY <1>1, <2>2, <2>4 DEF Good, WellFormed, Decided, Requested, Reported, Early, Uploading
  <2>6. Uploaded(x, u, e)
    BY <1>1, <2>1, <2>2, <2>4 DEF Good, Uploaded, Uploading
  <2>7. Meant(x, e)
    BY <1>1, <2>4, Zenon DEF Good, Meant
  <2>8. Good(x, u, e)
    BY <2>5, <2>6, <2>7 DEF Good
  <2> QED BY <1>3, <2>2, <2>3, <2>8, OneCommand
<1>5. CASE FinishUpload(c)
  <2> DEFINE x == [w EXCEPT !.pc = "wait"]
             v == [u EXCEPT !.readerOpen = FALSE]
  <2>1. w.pc = "finish" /\ ctl' = [ctl EXCEPT ![c] = x] /\ upload' = [upload EXCEPT ![c] = v]
    BY <1>1, <1>5 DEF FinishUpload, CtlAt
  <2>2. /\ DOMAIN x = DOMAIN NoCommand /\ x.pc = "wait" /\ x.answer = w.answer
        /\ x.confirmed = w.confirmed /\ x.op = w.op /\ x.arg = w.arg
        /\ x.service = w.service /\ x.listed = w.listed
    BY <1>2 DEF NoCommand
  <2>3. /\ DOMAIN v = DOMAIN NoUpload /\ v.answer = u.answer /\ v.writer = u.writer
        /\ v.fileOpen = u.fileOpen /\ v.parts = u.parts /\ v.boundary = u.boundary
    BY <1>2 DEF NoUpload
  <2> HIDE DEF x, v, w, u, e
  <2>4. WellFormed(x, v) /\ Decided(x) /\ Requested(x, e) /\ Reported(x, e)
    BY <1>1, <2>1, <2>2, <2>3
    DEF Good, WellFormed, Decided, Requested, Reported, Early, Uploading
  <2>5. Uploaded(x, v, e)
    BY <1>1, <2>1, <2>2, <2>3 DEF Good, Uploaded, Uploading
  <2>6. Meant(x, e)
    BY <1>1, <2>2, Zenon DEF Good, Meant
  <2>7. Good(x, v, e)
    BY <2>4, <2>5, <2>6 DEF Good
  <2> QED BY <1>3, <2>1, <2>7, OneCommand
<1> QED BY <1>4, <1>5

\* An upload that succeeds was taken by the server, with all its parts.
LEMMA UploadEndsGood ==
  ASSUME ClientInv, NEW c \in Ctls, UploadEnds(c)
  PROVE  ClientInv'
<1> DEFINE result == IF doJSON(ctl[c].answer, "upload") /\ upload[c].writer = "done" THEN "ok" ELSE "error"
<1>1. /\ ctl[c].pc = "wait" /\ upload[c].writer \in {"done", "error"}
      /\ Ends(c, result) /\ UNCHANGED <<upload, effects>>
      /\ Good(ctl[c], upload[c], effects[c])
  BY DEF UploadEnds, CtlAt, ClientInv
<1>2. /\ ctl[c].op = "upload" /\ upload[c].fileOpen = FALSE
      /\ upload[c].writer = "done" => upload[c].parts = FileParts
      /\ upload[c].answer = "ok" => effects[c] = {<<"upload", upload[c].parts>>}
      /\ ctl[c].service = "torrserver" => upload[c].answer \in {"none", "refused", "ok"}
      /\ ctl[c].answer \in {upload[c].answer, "lost", "long"}
  BY <1>1 DEF Good, Decided, Uploaded, Uploading
<1>3. result = "ok" =>
        /\ ctl[c].service = "torrserver" =>
             \E f \in outcomes(ctl[c].op, IF ctl[c].op = "upload" THEN FileParts ELSE ctl[c].target) :
               effects[c] = {f}
        /\ ctl[c].service = "other" => ctl[c].op \notin ResolvedOperations \cup {"version"}
  <2>1. outcomes("upload", FileParts) = {<<"upload", FileParts>>}
    BY DEF outcomes
  <2> QED BY <1>2, <2>1 DEF doJSON, readBounded, UndecodedOperations, ResolvedOperations
<1> HIDE DEF result
<1> QED BY <1>1, <1>2, <1>3, EndsStep

\* A process that is not running has done nothing and left nothing.
LEMMA IdleGood == Good(NoCommand, NoUpload, {})
BY DEF Good, WellFormed, Decided, Requested, Uploaded, Meant, Reported, NoCommand, NoUpload,
       Early, Uploading, ResolvedOperations

LEMMA ClientStep ==
  ASSUME ClientInv, [ClientNext]_clientVars
  PROVE  ClientInv'
<1>1. CASE UNCHANGED clientVars
  <2>1. ctl' = ctl /\ upload' = upload /\ effects' = effects
    BY <1>1 DEF clientVars
  <2> QED BY <2>1, Zenon DEF ClientInv
<1>2. ASSUME NEW c \in Ctls, CtlDies(c) PROVE ClientInv'
  BY <1>2, IdleGood, OneCommand DEF CtlDies
<1>3. ASSUME NEW c \in Ctls, CtlStep(c) PROVE ClientInv'
  BY <1>3, LoadGood, ContextsGood, RequestGood, AnsweredGood, ResolveGood, OpenGood,
     UploadReturnsGood, UploadEndsGood, Zenon
  DEF CtlStep
<1>4. ASSUME NEW c \in Ctls,
             \/ StartCommand(c) \/ ConfirmCommand(c) \/ WriterStep(c) \/ PipeTakes(c)
             \/ FileFails(c) \/ UploadAnswered(c)
      PROVE  ClientInv'
  BY <1>4, StartGood, ConfirmGood, WriterGood, UploadAnsweredGood, Zenon
<1> QED BY <1>1, <1>2, <1>3, <1>4, Zenon DEF ClientNext

\* A command of torrctl (internal/cliapp and internal/apiclient) that reports success to a
\* TorrServer has had exactly the effect that was asked for, on the one torrent its argument
\* meant in the list it had read, with a file that arrived whole; another service cannot
\* make it report a version or a command on a torrent; a command that fails has done no
\* other thing; a wipe was confirmed; and no command that has ended leaves the goroutine of
\* its upload at work or its file open.
THEOREM CommandsAreHonest == ClientSpec => []CommandsHonest
<1>1. ClientInit => ClientInv
  <2> SUFFICES ASSUME ClientInit PROVE ClientInv
    OBVIOUS
  <2> QED BY IdleGood DEF ClientInit, ClientInv
<1>2. ClientInv /\ [ClientNext]_clientVars => ClientInv'
  BY ClientStep
<1>3. ClientInv => CommandsHonest
  <2> SUFFICES ASSUME ClientInv, NEW c \in Ctls
               PROVE  LET done == CtlAt(c, "idle")
                          ok == done /\ ctl[c].result = "ok"
                          asked == IF ctl[c].op = "upload" THEN FileParts ELSE ctl[c].target
                      IN  /\ (ok /\ ctl[c].service = "torrserver") =>
                               \E e \in outcomes(ctl[c].op, asked) : effects[c] = {e}
                          /\ (ok /\ ctl[c].service = "other") => ctl[c].op \notin ResolvedOperations \cup {"version"}
                          /\ \A e \in effects[c] :
                               /\ e \in outcomes(ctl[c].op, e[2])
                               /\ ctl[c].op = "wipe" => ctl[c].confirmed
                               /\ ctl[c].op \in ResolvedOperations =>
                                    resolveTorrentID(ctl[c].listed, ctl[c].arg) = {e[2]}
                          /\ done => upload[c].writer \in {"none", "done", "error"} /\ ~upload[c].fileOpen
    BY DEF CommandsHonest
  <2>1. Good(ctl[c], upload[c], effects[c])
    BY DEF ClientInv
  <2>2. Meant(ctl[c], effects[c]) /\ Reported(ctl[c], effects[c])
    BY <2>1 DEF Good
  <2>3. ctl[c].pc = "idle" =>
          upload[c].writer \in {"none", "done", "error"} /\ upload[c].fileOpen = FALSE
    BY <2>1 DEF Good, Uploaded, Uploading
  <2> QED BY <2>2, <2>3, Zenon DEF CtlAt, Meant, Reported
<1> QED BY <1>1, <1>2, <1>3, PTL DEF ClientSpec

-----------------------------------------------------------------------------
(* The release directory.                                                   *)

Configs == {Config(TRUE), Config(FALSE)}

\* An expected member that nobody has filled with something else: the directory is
\* empty and the configuration is one.
MemberMade(m) ==
  /\ m = [name |-> m.name, mode |-> m.mode, directory |-> m.directory, data |-> m.data]
  /\ m.name = "top" => m.data = EmptyFile
  /\ m.name = "config" => m.data \in Configs

MembersMade(ms) == ms \in Seq(Range(ms)) /\ \A m \in Range(ms) : MemberMade(m)

BundleMade(content) == content.kind = "archive" => MembersMade(content.members)
ManifestMade(content) == content.lines \in Seq(Range(content.lines))

\* What is in the directory, whoever put it there.
DirMade(dir) ==
  /\ \A t \in TargetSet : bundleName(t) \in DOMAIN dir => BundleMade(dir[bundleName(t)])
  /\ ManifestName \in DOMAIN dir => ManifestMade(dir[ManifestName])

\* What CreateAll has at hand at each of its steps.
CreatorMade ==
  /\ DOMAIN creator = DOMAIN NotCreating
  /\ creator.pc \in {"idle", "validate", "read", "write", "publish"}
  /\ creator.next \in Nat \ {0} /\ (creator.pc = "validate" => creator.next = 1)
  /\ releaseConfig \in Configs
  /\ creator.pc # "idle" => creator.config \in Configs
  /\ creator.pc \in {"write", "publish"} =>
       IF creator.next \in DOMAIN ReleaseTargets THEN BundleMade(creator.content)
       ELSE ManifestMade(creator.content)
  /\ creatorDied \in BOOLEAN
  /\ ~creatorDied => temps = IF creator.pc = "publish" THEN 1 ELSE 0

\* What a creation is to make of the binaries collected.
Entries(config, ctlBinary, serverBinary) ==
  <<member("top", 755, TRUE, EmptyFile), member("config", 644, FALSE, config),
    member("torrctl", 755, FALSE, ctlBinary), member("torrserver", 755, FALSE, serverBinary)>>
Bundle(config) ==
  Archive(Entries(config, Binary("torrctl", ReleaseVersion, ReleaseCommit),
                  Binary("torrserver", ReleaseVersion, ReleaseCommit)))
Sums(dir) == Manifest([i \in DOMAIN expectedAssetNames |->
                         <<expectedAssetNames[i], dir[expectedAssetNames[i]]>>])

Collected(dir) ==
  \A t \in TargetSet, p \in Products :
    /\ binaryAsset(p, t) \in DOMAIN dir
    /\ dir[binaryAsset(p, t)] = Binary(p, ReleaseVersion, ReleaseCommit)
Packed(dir, t, config) == bundleName(t) \in DOMAIN dir /\ dir[bundleName(t)] = Bundle(config)

\* Until somebody else changes the directory, a creation has packed what it is past.
Undisturbed ==
  releaseChanges = 0 =>
    /\ Collected(releaseDir)
    /\ creator.pc # "idle" => creator.config = releaseConfig /\ validateVersion(ReleaseVersion)
    /\ creator.pc \in {"read", "write", "publish"} =>
         \A i \in 1 .. (creator.next - 1) :
           i \in DOMAIN ReleaseTargets => Packed(releaseDir, ReleaseTargets[i], releaseConfig)
    /\ creator.pc \in {"write", "publish"} =>
         IF creator.next \in DOMAIN ReleaseTargets THEN creator.content = Bundle(releaseConfig)
         ELSE creator.content = Sums(releaseDir)
    /\ sinceCreated = {} =>
         /\ creator.pc = "idle" /\ validateVersion(ReleaseVersion)
         /\ \A t \in TargetSet : Packed(releaseDir, t, releaseConfig)
         /\ ManifestName \in DOMAIN releaseDir /\ releaseDir[ManifestName] = Sums(releaseDir)

ReleaseInv == DirMade(releaseDir) /\ CreatorMade /\ Undisturbed /\ releaseChanges \in Nat

\* The expected names are those of the assets, every bundle's among them, and the
\* manifest is not one.
LEMMA ExpectedNames ==
  /\ DOMAIN expectedAssetNames = 1 .. 3 * Len(ReleaseTargets)
  /\ expectedAssetNames \in Seq(Range(expectedAssetNames))
  /\ Len(expectedAssetNames) = 3 * Len(ReleaseTargets) /\ Len(ReleaseTargets) \in Nat \ {0}
  /\ \A i \in DOMAIN expectedAssetNames : expectedAssetNames[i] \in Assets
  /\ \A t \in TargetSet : \E i \in DOMAIN expectedAssetNames : expectedAssetNames[i] = bundleName(t)
<1> DEFINE n == Len(ReleaseTargets)
           T(i) == ReleaseTargets[(i + 2) \div 3]
           name(i) == <<binaryAsset("torrserver", T(i)), binaryAsset("torrctl", T(i)), bundleName(T(i))>>[((i + 2) % 3) + 1]
<1>1. n \in Nat \ {0} /\ DOMAIN ReleaseTargets = 1 .. n
  BY ReleaseAssumption, EmptySeq
<1>2. \A i \in 1 .. 3 * n : (i + 2) \div 3 \in 1 .. n /\ (i + 2) % 3 \in {0, 1, 2}
  BY <1>1
<1>3. expectedAssetNames = [i \in 1 .. 3 * n |-> name(i)]
  BY DEF expectedAssetNames
<1>4. \A i \in 1 .. 3 * n : T(i) \in TargetSet
  BY <1>1, <1>2 DEF TargetSet, Range
<1>5. \A i \in 1 .. 3 * n : name(i) \in Assets
  <2> SUFFICES ASSUME NEW i \in 1 .. 3 * n PROVE name(i) \in Assets
    OBVIOUS
  <2> DEFINE t == T(i)
  <2>1. t \in TargetSet
    BY <1>4
  <2> HIDE DEF t
  <2>2. /\ binaryAsset("torrserver", t) \in Assets /\ binaryAsset("torrctl", t) \in Assets
        /\ bundleName(t) \in Assets
    BY <2>1 DEF Assets, Products
  <2>3. name(i) \in {binaryAsset("torrserver", t), binaryAsset("torrctl", t), bundleName(t)}
    BY <1>2 DEF t
  <2> QED BY <2>2, <2>3
<1>6. ASSUME NEW t \in TargetSet
      PROVE  \E i \in 1 .. 3 * n : name(i) = bundleName(t)
  <2>1. PICK j \in 1 .. n : ReleaseTargets[j] = t
    BY <1>1 DEF TargetSet, Range
  <2>2. 3 * j \in 1 .. 3 * n /\ (3 * j + 2) \div 3 = j /\ (3 * j + 2) % 3 = 2
    BY <1>1, <2>1
  <2>3. name(3 * j) = bundleName(t)
    BY <2>1, <2>2
  <2> QED BY <2>2, <2>3
<1> HIDE DEF name
<1>7. /\ DOMAIN expectedAssetNames = 1 .. 3 * n
      /\ \A i \in 1 .. 3 * n : expectedAssetNames[i] = name(i)
  BY <1>3
<1>8. 3 * n \in Nat
  BY <1>1
<1> HIDE DEF n
<1>9. /\ expectedAssetNames \in Seq(Range(expectedAssetNames))
      /\ Len(expectedAssetNames) = 3 * n
  <2>1. expectedAssetNames \in [1 .. 3 * n -> Range(expectedAssetNames)]
    BY <1>3, <1>7, Zenon DEF Range
  <2> HIDE DEF name
  <2> DEFINE S == Range(expectedAssetNames)
             N == 3 * n
             f == expectedAssetNames
  <2>2. N \in Nat /\ f \in [1 .. N -> S]
    BY <1>8, <2>1
  <2> HIDE DEF S, N, f
  <2>3. f \in Seq(S) /\ Len(f) = N
    BY <2>2, SeqDef
  <2> QED BY <2>3 DEF S, N, f
<1> QED BY <1>1, <1>5, <1>6, <1>7, <1>9 DEF n

\* The three sorts of names are distinct.
LEMMA NamesApart ==
  /\ \A t, u \in TargetSet, p \in Products : binaryAsset(p, t) # bundleName(u)
  /\ \A t \in TargetSet : bundleName(t) # ManifestName
  /\ \A t \in TargetSet, p \in Products : binaryAsset(p, t) # ManifestName
  /\ \A n \in Assets : n # ManifestName
BY DEF binaryAsset, bundleName, ManifestName, Products, Assets

LEMMA SequenceOf ==
  ASSUME NEW T, NEW s \in Seq(T)
  PROVE  s \in Seq(Range(s)) /\ Range(s) \subseteq T
<1>1. /\ Len(s) \in Nat /\ DOMAIN s = 1 .. Len(s) /\ s \in [1 .. Len(s) -> T]
  BY LenProperties
<1>2. s \in [1 .. Len(s) -> Range(s)]
  BY <1>1 DEF Range
<1>3. Range(s) \subseteq T
  BY <1>1 DEF Range
<1>4. s \in Seq(Range(s))
  BY <1>1, <1>2, SeqDef
<1> QED BY <1>3, <1>4

LEMMA MadeOf ==
  ASSUME NEW T, NEW ms \in Seq(T), \A m \in T : MemberMade(m)
  PROVE  MembersMade(ms)
BY SequenceOf DEF MembersMade

LEMMA MemberIsMade ==
  ASSUME NEW name, NEW mode, NEW isDir, NEW data, name = "top" => data = EmptyFile,
         name = "config" => data \in Configs
  PROVE  MemberMade(member(name, mode, isDir, data))
<1> DEFINE m == member(name, mode, isDir, data)
<1>1. m = [name |-> name, mode |-> mode, directory |-> isDir, data |-> data]
  BY DEF member
<1>2. m.name = name /\ m.mode = mode /\ m.directory = isDir /\ m.data = data
  BY <1>1
<1> HIDE DEF m
<1>3. m = [name |-> m.name, mode |-> m.mode, directory |-> m.directory, data |-> m.data]
  BY <1>1, <1>2
<1>4. MemberMade(m)
  BY <1>2, <1>3, Zenon DEF MemberMade
<1> QED BY <1>4 DEF m

LEMMA DirectoryChanged ==
  ASSUME NEW x, NEW isDir,
         x = [name |-> x.name, mode |-> x.mode, directory |-> x.directory, data |-> x.data]
  PROVE  [x EXCEPT !.directory = isDir] = member(x.name, x.mode, isDir, x.data)
BY DEF member

\* Whoever packs an archive by hand changes which members it has, and how, but not
\* what is in them.
LEMMA HandMade ==
  ASSUME NEW ms, MembersMade(ms), Len(ms) >= 2, NEW out \in handMade(ms)
  PROVE  MembersMade(out)
<1> DEFINE S == Range(ms)
           other == member("other", 644, FALSE, EmptyFile)
           n == Len(ms)
<1>1. ms \in Seq(S) /\ \A m \in S : MemberMade(m)
  BY DEF MembersMade
<1>2. n \in Nat /\ n >= 2 /\ DOMAIN ms = 1 .. n /\ \A i \in 1 .. n : ms[i] \in S
  BY <1>1, LenProperties, ElementOfSeq
<1>3. MemberMade(other)
  BY DEF member, MemberMade
<1> DEFINE m1 == [ms[1] EXCEPT !.directory = FALSE]
           m2 == [ms[2] EXCEPT !.mode = 755]
<1>4. MemberMade(ms[1]) /\ MemberMade(ms[2])
  BY <1>1, <1>2
<1>5. MemberMade(m1) /\ MemberMade(m2)
  <2> DEFINE x == ms[1]
             y == ms[2]
  <2>1. MemberMade(x) /\ MemberMade(y)
    BY <1>4
  <2> HIDE DEF x, y
  <2>2. /\ x.name = "top" => x.data = EmptyFile
        /\ x.name = "config" => x.data \in Configs
        /\ y.name = "top" => y.data = EmptyFile
        /\ y.name = "config" => y.data \in Configs
    BY <2>1, Zenon DEF MemberMade
  <2>3. m1 = member(x.name, x.mode, FALSE, x.data)
    <3>1. x = [name |-> x.name, mode |-> x.mode, directory |-> x.directory, data |-> x.data]
      BY <2>1, Zenon DEF MemberMade
    <3>2. [x EXCEPT !.directory = FALSE] = member(x.name, x.mode, FALSE, x.data)
      BY <3>1, DirectoryChanged
    <3> QED BY <3>2 DEF x
  <2>4. m2 = member(y.name, 755, y.directory, y.data)
    <3>1. y = [name |-> y.name, mode |-> y.mode, directory |-> y.directory, data |-> y.data]
      BY <2>1, Zenon DEF MemberMade
    <3>2. [y EXCEPT !.mode = 755] = member(y.name, 755, y.directory, y.data)
      BY <3>1 DEF member
    <3> QED BY <3>2 DEF y
  <2> HIDE DEF m1, m2
  <2>5. MemberMade(member(x.name, x.mode, FALSE, x.data))
    BY <2>2, MemberIsMade, Zenon
  <2>6. MemberMade(member(y.name, 755, y.directory, y.data))
    <3> DEFINE mode == 755
    <3> HIDE DEF mode
    <3>1. MemberMade(member(y.name, mode, y.directory, y.data))
      BY <2>2, MemberIsMade, Zenon
    <3> QED BY <3>1 DEF mode
  <2> QED BY <2>3, <2>4, <2>5, <2>6, Zenon
<1>6. [ms EXCEPT ![1].directory = FALSE] = [ms EXCEPT ![1] = m1]
  OBVIOUS
<1>7. [ms EXCEPT ![2].mode = 755] = [ms EXCEPT ![2] = m2]
  OBVIOUS
<1> DEFINE T == S \cup {other, m1, m2}
<1> HIDE DEF S, other, m1, m2, n
<1>8. \A m \in T : MemberMade(m)
  BY <1>1, <1>3, <1>5
<1>9. ms \in Seq(T) /\ ms # <<>> /\ (\A i \in 1 .. n : ms[i] \in T) /\ n = Len(ms)
  BY <1>1, <1>2, SeqMonotonic, EmptySeq DEF n
<1>10. other \in T /\ m1 \in T /\ m2 \in T
  OBVIOUS
<1> HIDE DEF T
<1>11. Tail(ms) \in Seq(T) /\ Append(ms, Last(ms)) \in Seq(T) /\ Append(ms, other) \in Seq(T)
  BY <1>2, <1>9, <1>10, HeadTailProperties, AppendProperties DEF Last
<1>12. [ms EXCEPT ![1] = m1] \in Seq(T) /\ [ms EXCEPT ![2] = m2] \in Seq(T)
  BY <1>2, <1>9, <1>10, ExceptSeq
<1>13. Reverse(ms) \in Seq(T)
  <2>1. Reverse(ms) \in [1 .. n -> T]
    BY <1>2, <1>9 DEF Reverse
  <2> QED BY <1>2, <2>1, SeqDef
<1>14. ms \o ms \o ms \in Seq(T)
  BY <1>9, ConcatProperties
<1>15. out \in Seq(T)
  <2>1. \/ out \in {Tail(ms), Append(ms, Last(ms)), Append(ms, other), Reverse(ms), ms \o ms \o ms}
        \/ out = [ms EXCEPT ![2].mode = 755] \/ out = [ms EXCEPT ![1].directory = FALSE]
    BY DEF handMade, other
  <2>2. CASE out \in {Tail(ms), Append(ms, Last(ms)), Append(ms, other), Reverse(ms), ms \o ms \o ms}
    BY <1>11, <1>13, <1>14, <2>2, Zenon
  <2>3. CASE out = [ms EXCEPT ![2].mode = 755]
    BY <1>7, <1>12, <2>3, Zenon
  <2>4. CASE out = [ms EXCEPT ![1].directory = FALSE]
    BY <1>6, <1>12, <2>4, Zenon
  <2> QED BY <2>1, <2>2, <2>3, <2>4
<1> QED BY <1>8, <1>15, MadeOf

\* What createBundle packs.
LEMMA EntriesMade ==
  ASSUME NEW config \in Configs, NEW x, NEW y, NEW content,
         content = Archive(Entries(config, x, y))
  PROVE  BundleMade(content)
<1> DEFINE a == member("top", 755, TRUE, EmptyFile)
           b == member("config", 644, FALSE, config)
           c == member("torrctl", 755, FALSE, x)
           d == member("torrserver", 755, FALSE, y)
           T == {a, b, c, d}
<1>1. MemberMade(a) /\ MemberMade(b) /\ MemberMade(c) /\ MemberMade(d)
  <2> DEFINE executable == 755
             readable == 644
  <2> HIDE DEF executable, readable
  <2>1. MemberMade(member("top", executable, TRUE, EmptyFile))
    BY MemberIsMade, Zenon
  <2>2. MemberMade(member("config", readable, FALSE, config))
    BY MemberIsMade, Zenon
  <2>3. MemberMade(member("torrctl", executable, FALSE, x))
    BY MemberIsMade, Zenon
  <2>4. MemberMade(member("torrserver", executable, FALSE, y))
    BY MemberIsMade, Zenon
  <2> QED BY <2>1, <2>2, <2>3, <2>4 DEF executable, readable
<1>2. content.members = <<a, b, c, d>>
  BY DEF Archive, Entries
<1> HIDE DEF a, b, c, d
<1>3. <<a, b, c, d>> \in Seq(T) /\ \A m \in T : MemberMade(m)
  BY <1>1
<1> DEFINE s == <<a, b, c, d>>
<1> HIDE DEF T, s
<1>4. MembersMade(s)
  BY <1>3, MadeOf DEF s
<1>5. MembersMade(content.members)
  <2>1. content.members = s
    BY <1>2 DEF s
  <2> QED BY <1>4, <2>1, Zenon
<1> QED BY <1>5 DEF BundleMade

\* A file that is put into the directory.
LEMMA Published ==
  ASSUME NEW name, NEW content
  PROVE  LET d == Publishes(name, content)
         IN  /\ DOMAIN d = DOMAIN releaseDir \cup {name} /\ d[name] = content
             /\ \A n \in DOMAIN releaseDir \ {name} : d[n] = releaseDir[n]
BY DEF Publishes

LEMMA DirMadeKept ==
  ASSUME DirMade(releaseDir), NEW name, NEW content, NEW d, d = Publishes(name, content),
         \A t \in TargetSet : name = bundleName(t) => BundleMade(content),
         name = ManifestName => ManifestMade(content)
  PROVE  DirMade(d)
<1>1. /\ DOMAIN d = DOMAIN releaseDir \cup {name} /\ d[name] = content
      /\ \A n \in DOMAIN releaseDir \ {name} : d[n] = releaseDir[n]
  BY Published
<1>2. ASSUME NEW t \in TargetSet, bundleName(t) \in DOMAIN d PROVE BundleMade(d[bundleName(t)])
  <2>1. CASE bundleName(t) = name
    BY <1>1, <2>1, Zenon
  <2>2. CASE bundleName(t) # name
    <3>1. bundleName(t) \in DOMAIN releaseDir \ {name}
      BY <1>1, <1>2, <2>2
    <3> QED BY <1>1, <3>1, Zenon DEF DirMade
  <2> QED BY <2>1, <2>2
<1>3. ASSUME ManifestName \in DOMAIN d PROVE ManifestMade(d[ManifestName])
  <2>1. CASE ManifestName = name
    BY <1>1, <2>1, Zenon
  <2>2. CASE ManifestName # name
    <3>1. ManifestName \in DOMAIN releaseDir \ {name}
      BY <1>1, <1>3, <2>2
    <3> QED BY <1>1, <3>1, Zenon DEF DirMade
  <2> QED BY <2>1, <2>2
<1> QED BY <1>2, <1>3 DEF DirMade

\* The checksums of a directory are one line per expected name.
LEMMA SumsMade ==
  ASSUME NEW dir
  PROVE  /\ Sums(dir).lines \in Seq(Range(Sums(dir).lines))
         /\ Len(Sums(dir).lines) = Len(expectedAssetNames)
         /\ DOMAIN Sums(dir).lines = DOMAIN expectedAssetNames
         /\ Len(Sums(dir).lines) >= 1
<1> DEFINE e == expectedAssetNames
           n == 3 * Len(ReleaseTargets)
           lines == [i \in 1 .. n |-> <<e[i], dir[e[i]]>>]
<1>1. DOMAIN e = 1 .. n /\ n \in Nat \ {0} /\ Len(e) = n
  BY ExpectedNames
<1>2. Sums(dir).lines = lines
  BY <1>1 DEF Sums, Manifest
<1> HIDE DEF n
<1>3. lines \in [1 .. n -> Range(lines)] /\ DOMAIN lines = 1 .. n
  BY DEF Range
<1> HIDE DEF lines
<1>4. lines \in Seq(Range(lines)) /\ Len(lines) = n
  BY <1>1, <1>3, SeqDef
<1> QED BY <1>1, <1>2, <1>3, <1>4

\* A creation that ends before its last rename leaves things as they are.
LEMMA GivesUp ==
  ASSUME ReleaseInv, creator' = NotCreating,
         UNCHANGED <<releaseDir, releaseConfig, releaseChanges>>,
         creatorDied' \in BOOLEAN, ~creatorDied' => temps' = 0,
         \/ sinceCreated' = sinceCreated /\ creator.pc # "idle"
         \/ sinceCreated' = {"never"}
  PROVE  ReleaseInv'
<1>1. /\ DOMAIN creator' = DOMAIN NotCreating
      /\ creator'.pc = "idle" /\ creator'.next = 1
  BY DEF NotCreating
<1>2. CreatorMade'
  BY <1>1 DEF ReleaseInv, CreatorMade
<1>3. Undisturbed'
  <2>1. CASE sinceCreated' = sinceCreated /\ creator.pc # "idle"
    BY <1>1, <2>1 DEF ReleaseInv, Undisturbed
  <2>2. CASE sinceCreated' = {"never"}
    BY <1>1, <2>2 DEF ReleaseInv, Undisturbed
  <2> QED BY <2>1, <2>2
<1> QED BY <1>2, <1>3 DEF ReleaseInv

\* A creation that goes on to x without a change to the directory.
LEMMA GoesAhead ==
  ASSUME ReleaseInv, NEW x, creator' = x, creator.pc # "idle",
         UNCHANGED <<releaseDir, releaseConfig, releaseChanges, sinceCreated, creatorDied>>,
         DOMAIN x = DOMAIN NotCreating,
         x.next = creator.next, x.config = creator.config,
         x.pc \in {"read", "write", "publish"},
         ~creatorDied => temps' = IF x.pc = "publish" THEN 1 ELSE 0,
         creator.pc = "validate" \/ creator.pc \in {"read", "write", "publish"},
         x.pc \in {"write", "publish"} =>
           /\ IF x.next \in DOMAIN ReleaseTargets THEN BundleMade(x.content)
              ELSE ManifestMade(x.content)
           /\ releaseChanges = 0 =>
                IF x.next \in DOMAIN ReleaseTargets THEN x.content = Bundle(releaseConfig)
                ELSE x.content = Sums(releaseDir)
  PROVE  ReleaseInv'
<1>1. CreatorMade'
  BY DEF ReleaseInv, CreatorMade
<1>2. Undisturbed'
  <2>1. SUFFICES ASSUME releaseChanges = 0
                 PROVE  Undisturbed'
    BY DEF Undisturbed
  <2>2. \A i \in 1 .. (x.next - 1) :
          i \in DOMAIN ReleaseTargets => Packed(releaseDir, ReleaseTargets[i], releaseConfig)
    BY <2>1 DEF ReleaseInv, Undisturbed, CreatorMade
  <2>3. /\ Collected(releaseDir) /\ x.config = releaseConfig /\ validateVersion(ReleaseVersion)
        /\ sinceCreated # {}
    BY <2>1 DEF ReleaseInv, Undisturbed
  <2> QED BY <2>1, <2>2, <2>3 DEF Undisturbed
<1> QED BY <1>1, <1>2 DEF ReleaseInv

LEMMA CreateGood ==
  ASSUME ReleaseInv, CreateAll
  PROVE  ReleaseInv'
<1>1. /\ creator.pc = "idle" /\ sinceCreated' = {"never"}
      /\ UNCHANGED <<releaseDir, releaseConfig, temps, releaseChanges, creatorDied>>
      /\ creatorDied \in BOOLEAN /\ (~creatorDied => temps = 0)
  BY DEF CreateAll, Creating, ReleaseInv, CreatorMade
<1>2. CASE creator' = NotCreating
  BY <1>1, <1>2, GivesUp
<1>3. CASE /\ validateVersion(ReleaseVersion)
           /\ creator' = [NotCreating EXCEPT !.pc = "validate", !.config = releaseConfig]
  <2>1. /\ DOMAIN creator' = DOMAIN NotCreating
        /\ creator'.pc = "validate" /\ creator'.next = 1 /\ creator'.config = releaseConfig
    BY <1>3 DEF NotCreating
  <2>2. CreatorMade'
    BY <1>1, <2>1 DEF ReleaseInv, CreatorMade
  <2>3. Undisturbed'
    BY <1>1, <1>3, <2>1 DEF ReleaseInv, Undisturbed
  <2> QED BY <1>1, <2>2, <2>3 DEF ReleaseInv
<1> QED BY <1>2, <1>3 DEF CreateAll

LEMMA ValidateGood ==
  ASSUME ReleaseInv, ValidateCreateInputs
  PROVE  ReleaseInv'
<1>1. /\ creator.pc = "validate"
      /\ UNCHANGED <<releaseDir, releaseConfig, temps, releaseChanges, creatorDied, sinceCreated>>
      /\ creatorDied \in BOOLEAN /\ (~creatorDied => temps = 0)
      /\ DOMAIN creator = DOMAIN NotCreating
  BY DEF ValidateCreateInputs, Creating, ReleaseInv, CreatorMade
<1>2. CASE creator' = NotCreating
  BY <1>1, <1>2, GivesUp
<1>3. CASE creator' = [creator EXCEPT !.pc = "read"]
  <2> DEFINE x == [creator EXCEPT !.pc = "read"]
  <2>1. /\ DOMAIN x = DOMAIN NotCreating
        /\ x.pc = "read" /\ x.next = creator.next /\ x.config = creator.config
    BY <1>1 DEF NotCreating
  <2>2. creator' = x
    BY <1>3
  <2> HIDE DEF x
  <2> QED BY <1>1, <2>1, <2>2, GoesAhead
<1> QED BY <1>2, <1>3 DEF ValidateCreateInputs

LEMMA ReadGood ==
  ASSUME ReleaseInv, ReadBundle \/ ReadChecksums
  PROVE  ReleaseInv'
<1>1. /\ creator.pc = "read"
      /\ UNCHANGED <<releaseDir, releaseConfig, temps, releaseChanges, creatorDied, sinceCreated>>
      /\ creatorDied \in BOOLEAN /\ (~creatorDied => temps = 0)
      /\ DOMAIN creator = DOMAIN NotCreating
      /\ creator.config \in Configs
      /\ releaseChanges = 0 => creator.config = releaseConfig /\ Collected(releaseDir)
  BY DEF ReadBundle, ReadChecksums, Creating, ReleaseInv, CreatorMade, Undisturbed
<1>2. CASE creator' = NotCreating
  BY <1>1, <1>2, GivesUp
<1>3. CASE creator' # NotCreating
  <2>1. PICK content :
          /\ creator' = [creator EXCEPT !.pc = "write", !.content = content]
          /\ IF creator.next \in DOMAIN ReleaseTargets THEN BundleMade(content)
             ELSE ManifestMade(content)
          /\ releaseChanges = 0 =>
               IF creator.next \in DOMAIN ReleaseTargets THEN content = Bundle(releaseConfig)
               ELSE content = Sums(releaseDir)
    <3>1. CASE ReadBundle
      <4> DEFINE t == ReleaseTargets[creator.next]
                 content == Archive(bundleEntries(t, creator.config))
      <4>1. creator.next \in DOMAIN ReleaseTargets /\ t \in TargetSet
        BY <3>1 DEF ReadBundle, TargetSet, Range
      <4>2. creator' = [creator EXCEPT !.pc = "write", !.content = content]
        BY <1>3, <3>1 DEF ReadBundle
      <4>3. BundleMade(content)
        <5> DEFINE a == releaseDir[binaryAsset("torrctl", t)]
                   b == releaseDir[binaryAsset("torrserver", t)]
                   config == creator.config
        <5>1. content = Archive(Entries(config, a, b))
          BY DEF bundleEntries, Entries
        <5>2. config \in Configs
          BY <1>1
        <5> HIDE DEF a, b, config, content
        <5> QED BY <5>1, <5>2, EntriesMade
      <4>4. ASSUME releaseChanges = 0 PROVE content = Bundle(releaseConfig)
        <5>1. /\ releaseDir[binaryAsset("torrctl", t)] = Binary("torrctl", ReleaseVersion, ReleaseCommit)
              /\ releaseDir[binaryAsset("torrserver", t)] = Binary("torrserver", ReleaseVersion, ReleaseCommit)
              /\ creator.config = releaseConfig
          BY <1>1, <4>1, <4>4 DEF Collected, Products
        <5> QED BY <5>1 DEF Bundle, bundleEntries, Entries
      <4> HIDE DEF content
      <4> QED BY <4>1, <4>2, <4>3, <4>4, Zenon
    <3>2. CASE ReadChecksums
      <4> DEFINE content == Sums(releaseDir)
      <4>1. creator.next \notin DOMAIN ReleaseTargets
        BY <3>2 DEF ReadChecksums
      <4>2. creator' = [creator EXCEPT !.pc = "write", !.content = content]
        BY <1>3, <3>2 DEF ReadChecksums, Sums
      <4>3. ManifestMade(content)
        BY SumsMade DEF ManifestMade
      <4>4. content = Sums(releaseDir)
        OBVIOUS
      <4> HIDE DEF content
      <4> QED BY <4>1, <4>2, <4>3, <4>4, Zenon
    <3> QED BY <3>1, <3>2
  <2> DEFINE x == [creator EXCEPT !.pc = "write", !.content = content]
  <2>2. /\ DOMAIN x = DOMAIN NotCreating
        /\ x.pc = "write" /\ x.next = creator.next /\ x.config = creator.config
        /\ x.content = content
    BY <1>1 DEF NotCreating
  <2>3. creator' = x
    BY <2>1
  <2> HIDE DEF x
  <2>4. /\ IF x.next \in DOMAIN ReleaseTargets THEN BundleMade(x.content)
           ELSE ManifestMade(x.content)
        /\ releaseChanges = 0 =>
             IF x.next \in DOMAIN ReleaseTargets THEN x.content = Bundle(releaseConfig)
             ELSE x.content = Sums(releaseDir)
    BY <2>1, <2>2, Zenon
  <2> QED BY <1>1, <2>2, <2>3, <2>4, GoesAhead
<1> QED BY <1>2, <1>3

LEMMA WriteGood ==
  ASSUME ReleaseInv, WriteTemporary
  PROVE  ReleaseInv'
<1>1. /\ creator.pc = "write"
      /\ UNCHANGED <<releaseDir, releaseConfig, releaseChanges, creatorDied, sinceCreated>>
      /\ creatorDied \in BOOLEAN /\ (~creatorDied => temps = 0)
      /\ DOMAIN creator = DOMAIN NotCreating
      /\ IF creator.next \in DOMAIN ReleaseTargets THEN BundleMade(creator.content)
         ELSE ManifestMade(creator.content)
      /\ releaseChanges = 0 =>
           IF creator.next \in DOMAIN ReleaseTargets THEN creator.content = Bundle(releaseConfig)
           ELSE creator.content = Sums(releaseDir)
  BY DEF WriteTemporary, Creating, ReleaseInv, CreatorMade, Undisturbed
<1>2. CASE creator' = NotCreating /\ UNCHANGED temps
  BY <1>1, <1>2, GivesUp
<1>3. CASE creator' = [creator EXCEPT !.pc = "publish"] /\ temps' = temps + 1
  <2> DEFINE x == [creator EXCEPT !.pc = "publish"]
  <2>1. /\ DOMAIN x = DOMAIN NotCreating
        /\ x.pc = "publish" /\ x.next = creator.next /\ x.config = creator.config
        /\ x.content = creator.content
    BY <1>1 DEF NotCreating
  <2>2. creator' = x /\ (~creatorDied => temps' = 1)
    BY <1>1, <1>3
  <2> HIDE DEF x
  <2>3. /\ IF x.next \in DOMAIN ReleaseTargets THEN BundleMade(x.content)
           ELSE ManifestMade(x.content)
        /\ releaseChanges = 0 =>
             IF x.next \in DOMAIN ReleaseTargets THEN x.content = Bundle(releaseConfig)
             ELSE x.content = Sums(releaseDir)
    BY <1>1, <2>1, Zenon
  <2> QED BY <1>1, <2>1, <2>2, <2>3, GoesAhead
<1> QED BY <1>2, <1>3 DEF WriteTemporary

\* The checksums do not depend on the manifest.
LEMMA SumsKept ==
  ASSUME NEW d, NEW dir, \A n \in Assets : d[n] = dir[n]
  PROVE  Sums(d) = Sums(dir)
<1>1. \A i \in DOMAIN expectedAssetNames : d[expectedAssetNames[i]] = dir[expectedAssetNames[i]]
  BY ExpectedNames, Zenon
<1> QED BY <1>1 DEF Sums

\* The rename of a bundle or of the manifest.
LEMMA PublishGood ==
  ASSUME ReleaseInv, Publish
  PROVE  ReleaseInv'
<1>1. /\ creator.pc = "publish" /\ temps' = temps - 1
      /\ UNCHANGED <<releaseConfig, releaseChanges, creatorDied>>
      /\ creatorDied \in BOOLEAN /\ (~creatorDied => temps = 1)
      /\ DOMAIN creator = DOMAIN NotCreating
      /\ creator.next \in Nat \ {0} /\ creator.config \in Configs /\ releaseConfig \in Configs
      /\ releaseChanges \in Nat /\ DirMade(releaseDir)
  BY DEF Publish, Creating, ReleaseInv, CreatorMade
<1>2. ~creatorDied' => temps' = 0
  BY <1>1
<1>3. ASSUME releaseChanges = 0
      PROVE  /\ Collected(releaseDir) /\ creator.config = releaseConfig
             /\ validateVersion(ReleaseVersion) /\ sinceCreated # {}
             /\ \A i \in 1 .. (creator.next - 1) :
                  i \in DOMAIN ReleaseTargets => Packed(releaseDir, ReleaseTargets[i], releaseConfig)
             /\ IF creator.next \in DOMAIN ReleaseTargets THEN creator.content = Bundle(releaseConfig)
                ELSE creator.content = Sums(releaseDir)
  BY <1>1, <1>3 DEF ReleaseInv, Undisturbed
<1>4. CASE /\ creator.next \in DOMAIN ReleaseTargets /\ UNCHANGED sinceCreated
           /\ releaseDir' = Publishes(bundleName(ReleaseTargets[creator.next]), creator.content)
           /\ creator' = [creator EXCEPT !.pc = "read", !.next = @ + 1]
  <2> DEFINE t == ReleaseTargets[creator.next]
             name == bundleName(t)
  <2>1. /\ releaseDir' = Publishes(name, creator.content) /\ sinceCreated' = sinceCreated
        /\ creator' = [creator EXCEPT !.pc = "read", !.next = @ + 1]
    BY <1>4
  <2>2. /\ DOMAIN creator' = DOMAIN NotCreating /\ creator'.pc = "read"
        /\ creator'.next = creator.next + 1 /\ creator'.config = creator.config
    BY <1>1, <2>1 DEF NotCreating
  <2>3. t \in TargetSet
    BY <1>4 DEF TargetSet, Range
  <2>4. BundleMade(creator.content)
    BY <1>1, <1>4 DEF ReleaseInv, CreatorMade
  <2> HIDE DEF t
  <2>5. DirMade(releaseDir')
    BY <1>1, <2>1, <2>3, <2>4, DirMadeKept, NamesApart
  <2>6. CreatorMade'
    BY <1>1, <1>2, <2>2 DEF CreatorMade
  <2>7. ASSUME releaseChanges = 0
        PROVE  /\ Collected(releaseDir')
               /\ \A i \in 1 .. creator.next :
                    i \in DOMAIN ReleaseTargets => Packed(releaseDir', ReleaseTargets[i], releaseConfig)
    <3> DEFINE d == releaseDir'
    <3>1. /\ DOMAIN d = DOMAIN releaseDir \cup {name} /\ d[name] = creator.content
          /\ \A n \in DOMAIN releaseDir \ {name} : d[n] = releaseDir[n]
      BY <2>1 DEF Publishes
    <3>2. d[name] = Bundle(releaseConfig)
      BY <1>3, <1>4, <2>7, <3>1
    <3> HIDE DEF d
    <3>3. Collected(d)
      <4> SUFFICES ASSUME NEW u \in TargetSet, NEW p \in Products
                   PROVE  /\ binaryAsset(p, u) \in DOMAIN d
                          /\ d[binaryAsset(p, u)] = Binary(p, ReleaseVersion, ReleaseCommit)
        BY DEF Collected
      <4>1. /\ binaryAsset(p, u) \in DOMAIN releaseDir \ {name}
            /\ releaseDir[binaryAsset(p, u)] = Binary(p, ReleaseVersion, ReleaseCommit)
        BY <1>3, <2>3, <2>7, NamesApart DEF Collected
      <4> QED BY <3>1, <4>1
    <3>4. ASSUME NEW i \in 1 .. creator.next, i \in DOMAIN ReleaseTargets
          PROVE  Packed(d, ReleaseTargets[i], releaseConfig)
      <4> DEFINE u == ReleaseTargets[i]
      <4>1. CASE bundleName(u) = name
        BY <3>1, <3>2, <4>1, Zenon DEF Packed
      <4>2. CASE bundleName(u) # name
        <5>1. i \in 1 .. (creator.next - 1)
          BY <1>1, <4>2 DEF t
        <5>2. Packed(releaseDir, u, releaseConfig)
          BY <1>3, <2>7, <3>4, <5>1
        <5> QED BY <3>1, <4>2, <5>2 DEF Packed
      <4> QED BY <4>1, <4>2
    <3> QED BY <3>3, <3>4 DEF d
  <2>8. Undisturbed'
    <3> SUFFICES ASSUME releaseChanges = 0 PROVE Undisturbed'
      BY <1>1 DEF Undisturbed
    <3>1. 1 .. (creator'.next - 1) = 1 .. creator.next
      BY <1>1, <2>2
    <3> QED BY <1>1, <1>3, <2>1, <2>2, <2>7, <3>1 DEF Undisturbed
  <2> QED BY <1>1, <2>5, <2>6, <2>8 DEF ReleaseInv
<1>5. CASE /\ creator.next \notin DOMAIN ReleaseTargets
           /\ releaseDir' = Publishes(ManifestName, creator.content)
           /\ creator' = NotCreating /\ sinceCreated' = sinceCreated \ {"never"}
  <2>1. /\ releaseDir' = Publishes(ManifestName, creator.content)
        /\ sinceCreated' = sinceCreated \ {"never"} /\ creator' = NotCreating
    BY <1>5
  <2>2. /\ DOMAIN creator' = DOMAIN NotCreating /\ creator'.pc = "idle" /\ creator'.next = 1
    BY <2>1 DEF NotCreating
  <2>3. ManifestMade(creator.content)
    BY <1>1, <1>5 DEF ReleaseInv, CreatorMade
  <2>4. DirMade(releaseDir')
    BY <1>1, <2>1, <2>3, DirMadeKept, NamesApart
  <2>5. CreatorMade'
    BY <1>1, <1>2, <2>2 DEF CreatorMade
  <2>6. ASSUME releaseChanges = 0
        PROVE  /\ Collected(releaseDir')
               /\ \A t \in TargetSet : Packed(releaseDir', t, releaseConfig)
               /\ ManifestName \in DOMAIN releaseDir' /\ releaseDir'[ManifestName] = Sums(releaseDir')
    <3> DEFINE d == releaseDir'
    <3>1. /\ DOMAIN d = DOMAIN releaseDir \cup {ManifestName} /\ d[ManifestName] = creator.content
          /\ \A n \in DOMAIN releaseDir \ {ManifestName} : d[n] = releaseDir[n]
      BY <2>1 DEF Publishes
    <3>2. d[ManifestName] = Sums(releaseDir)
      BY <1>3, <1>5, <2>6, <3>1
    <3>3. \A t \in TargetSet : Packed(releaseDir, t, releaseConfig)
      <4> SUFFICES ASSUME NEW t \in TargetSet PROVE Packed(releaseDir, t, releaseConfig)
        OBVIOUS
      <4>1. PICK i \in DOMAIN ReleaseTargets : ReleaseTargets[i] = t
        BY DEF TargetSet, Range
      <4>2. DOMAIN ReleaseTargets = 1 .. Len(ReleaseTargets) /\ Len(ReleaseTargets) \in Nat
        BY ReleaseAssumption, LenProperties
      <4>3. i \in 1 .. (creator.next - 1)
        BY <1>1, <1>5, <4>1, <4>2
      <4> QED BY <1>3, <2>6, <4>1, <4>3
    <3>4. Collected(releaseDir)
      BY <1>3, <2>6
    <3> HIDE DEF d
    <3>5. ASSUME NEW t \in TargetSet
          PROVE  Packed(d, t, releaseConfig)
      <4>1. bundleName(t) \in DOMAIN releaseDir \ {ManifestName}
        BY <3>3, NamesApart DEF Packed
      <4> QED BY <3>1, <3>3, <4>1 DEF Packed
    <3>6. ASSUME NEW t \in TargetSet, NEW p \in Products
          PROVE  /\ binaryAsset(p, t) \in DOMAIN d
                 /\ d[binaryAsset(p, t)] = Binary(p, ReleaseVersion, ReleaseCommit)
      <4>1. binaryAsset(p, t) \in DOMAIN releaseDir \ {ManifestName}
        BY <3>4, NamesApart DEF Collected
      <4> QED BY <3>1, <3>4, <4>1 DEF Collected
    <3>7. \A n \in Assets : d[n] = releaseDir[n]
      <4> SUFFICES ASSUME NEW n \in Assets PROVE d[n] = releaseDir[n]
        OBVIOUS
      <4>1. n \in DOMAIN releaseDir
        BY <3>3, <3>4 DEF Assets, Packed, Collected
      <4> QED BY <3>1, <4>1, NamesApart
    <3>8. Sums(d) = Sums(releaseDir)
      BY <3>7, SumsKept
    <3>9. Collected(d)
      BY <3>6 DEF Collected
    <3> QED BY <3>1, <3>2, <3>5, <3>8, <3>9 DEF d
  <2>7. Undisturbed'
    <3> SUFFICES ASSUME releaseChanges = 0 PROVE Undisturbed'
      BY <1>1 DEF Undisturbed
    <3> QED BY <1>1, <1>3, <2>2, <2>6 DEF Undisturbed
  <2> QED BY <1>1, <2>4, <2>5, <2>7 DEF ReleaseInv
<1>6. CASE creator' = NotCreating /\ UNCHANGED <<releaseDir, sinceCreated>>
  BY <1>1, <1>2, <1>6, GivesUp
<1> QED BY <1>4, <1>5, <1>6 DEF Publish

\* A file that somebody else puts into the directory.
LEMMA TouchGood ==
  ASSUME ReleaseInv, NEW name, NEW content, Touch(name, content),
         \A t \in TargetSet : name = bundleName(t) => BundleMade(content),
         name = ManifestName => ManifestMade(content)
  PROVE  ReleaseInv'
<1>1. /\ UNCHANGED <<releaseConfig, creator, temps, creatorDied>>
      /\ releaseChanges' = releaseChanges + 1 /\ releaseDir' = Publishes(name, content)
  BY DEF Touch
<1>2. releaseChanges' \in Nat /\ releaseChanges' # 0
  BY <1>1 DEF ReleaseInv
<1>3. DirMade(releaseDir')
  BY <1>1, DirMadeKept DEF ReleaseInv
<1>4. CreatorMade'
  BY <1>1 DEF ReleaseInv, CreatorMade
<1>5. Undisturbed'
  BY <1>2 DEF Undisturbed
<1> QED BY <1>2, <1>3, <1>4, <1>5 DEF ReleaseInv

LEMMA ByHandGood ==
  ASSUME ReleaseInv, CollectAgain \/ PackByHand \/ ChecksumsByHand
  PROVE  ReleaseInv'
<1>1. CASE CollectAgain
  <2>0. PICK p \in Products, t \in TargetSet : \E content : Touch(binaryAsset(p, t), content)
    BY <1>1 DEF CollectAgain
  <2>1. PICK content : Touch(binaryAsset(p, t), content)
    BY <2>0
  <2> DEFINE name == binaryAsset(p, t)
  <2>2. name # ManifestName /\ \A u \in TargetSet : name # bundleName(u)
    BY NamesApart, Zenon
  <2>3. Touch(name, content)
    BY <2>1
  <2> HIDE DEF name
  <2> QED BY <2>2, <2>3, TouchGood, Zenon
<1>2. CASE PackByHand
  <2>1. PICK t \in TargetSet :
          /\ bundleName(t) \in DOMAIN releaseDir /\ releaseDir[bundleName(t)].kind = "archive"
          /\ Len(releaseDir[bundleName(t)].members) >= 2
          /\ \/ \E ms \in handMade(releaseDir[bundleName(t)].members) : Touch(bundleName(t), Archive(ms))
             \/ Touch(bundleName(t), Garbage)
    BY <1>2, Zenon DEF PackByHand
  <2> DEFINE name == bundleName(t)
             members == releaseDir[name].members
  <2>2. MembersMade(members) /\ name # ManifestName
    BY <2>1, NamesApart DEF ReleaseInv, DirMade, BundleMade
  <2>3. PICK content : Touch(name, content) /\ BundleMade(content)
    <3>1. CASE \E ms \in handMade(members) : Touch(name, Archive(ms))
      <4>1. PICK ms \in handMade(members) : Touch(name, Archive(ms))
        BY <3>1
      <4>2. Len(members) >= 2
        BY <2>1
      <4> HIDE DEF members
      <4>3. MembersMade(ms)
        BY <2>2, <4>1, <4>2, HandMade
      <4>4. Archive(ms).members = ms
        BY DEF Archive
      <4>5. BundleMade(Archive(ms))
        BY <4>3, <4>4, Zenon DEF BundleMade
      <4> QED BY <4>1, <4>5, Zenon
    <3>2. CASE Touch(name, Garbage)
      <4>1. BundleMade(Garbage)
        BY DEF BundleMade, Garbage
      <4> QED BY <3>2, <4>1, Zenon
    <3> QED BY <2>1, <3>1, <3>2
  <2> HIDE DEF name
  <2> QED BY <2>2, <2>3, TouchGood, Zenon
<1>3. CASE ChecksumsByHand
  <2> DEFINE lines == Sums(releaseDir).lines
  <2>1. PICK ls \in {lines, Tail(lines), Reverse(lines), Append(lines, Last(lines))} :
          Touch(ManifestName, Manifest(ls))
    BY <1>3 DEF ChecksumsByHand, Sums, Manifest
  <2>2. lines \in Seq(Range(lines)) /\ Len(lines) >= 1
    BY SumsMade
  <2> HIDE DEF lines
  <2> DEFINE S == Range(lines)
             n == Len(lines)
  <2>3. lines \in Seq(S) /\ n \in Nat /\ DOMAIN lines = 1 .. n /\ lines # <<>> /\ n >= 1
        /\ \A i \in 1 .. n : lines[i] \in S
    BY <2>2, LenProperties, ElementOfSeq, EmptySeq
  <2> HIDE DEF S
  <2>4. Tail(lines) \in Seq(S) /\ Append(lines, Last(lines)) \in Seq(S)
    BY <2>3, HeadTailProperties, AppendProperties DEF Last
  <2>5. Reverse(lines) \in Seq(S)
    <3>1. Reverse(lines) \in [1 .. n -> S]
      BY <2>3 DEF Reverse
    <3> QED BY <2>3, <3>1, SeqDef
  <2>6. ls \in Seq(S)
    BY <2>1, <2>3, <2>4, <2>5
  <2>7. ls \in Seq(Range(ls))
    BY <2>6, SequenceOf
  <2>8. ManifestMade(Manifest(ls))
    <3>1. Manifest(ls).lines = ls
      BY DEF Manifest
    <3> QED BY <2>7, <3>1, Zenon DEF ManifestMade
  <2>9. \A t \in TargetSet : ManifestName # bundleName(t)
    BY NamesApart
  <2> DEFINE content == Manifest(ls)
  <2>10. Touch(ManifestName, content) /\ ManifestMade(content)
    BY <2>1, <2>8
  <2> HIDE DEF content
  <2> QED BY <2>9, <2>10, TouchGood, Zenon
<1> QED BY <1>1, <1>2, <1>3

LEMMA ReleaseStep ==
  ASSUME ReleaseInv, [ReleaseNext]_releaseVars
  PROVE  ReleaseInv'
<1>1. CASE CreatorDies
  <2>1. /\ creator' = NotCreating /\ creatorDied' = TRUE /\ creator.pc # "idle"
        /\ UNCHANGED <<releaseDir, releaseConfig, temps, releaseChanges, sinceCreated>>
    BY <1>1 DEF CreatorDies, Creating
  <2>2. creatorDied' \in BOOLEAN /\ creatorDied'
    BY <2>1
  <2> QED BY <2>1, <2>2, GivesUp
<1>2. CASE UNCHANGED releaseVars
  <2>1. /\ releaseDir' = releaseDir /\ releaseConfig' = releaseConfig /\ creator' = creator
        /\ temps' = temps /\ releaseChanges' = releaseChanges /\ creatorDied' = creatorDied
        /\ sinceCreated' = sinceCreated
    BY <1>2 DEF releaseVars
  <2>2. CreatorMade'
    BY <2>1 DEF ReleaseInv, CreatorMade
  <2>3. Undisturbed'
    BY <2>1 DEF ReleaseInv, Undisturbed
  <2> QED BY <2>1, <2>2, <2>3 DEF ReleaseInv
<1> QED
  BY <1>1, <1>2, CreateGood, ValidateGood, ReadGood, WriteGood, PublishGood, ByHandGood, Zenon
  DEF ReleaseNext

\* At the start the binaries have been collected, and nothing else is there.
LEMMA ReleaseStarts == ReleaseInit => ReleaseInv
<1> SUFFICES ASSUME ReleaseInit PROVE ReleaseInv
  OBVIOUS
<1> DEFINE names == {binaryAsset(p, t) : p \in Products, t \in TargetSet}
<1>1. releaseDir = [n \in names |-> Binary(n[2], ReleaseVersion, ReleaseCommit)]
  BY DEF ReleaseInit
<1>2. DirMade(releaseDir)
  <2>1. \A t \in TargetSet : bundleName(t) \notin names
    BY NamesApart
  <2>2. ManifestName \notin names
    BY NamesApart
  <2>3. DOMAIN releaseDir = names
    BY <1>1
  <2> HIDE DEF names
  <2> QED BY <2>1, <2>2, <2>3 DEF DirMade
<1>3. Collected(releaseDir)
  <2> SUFFICES ASSUME NEW t \in TargetSet, NEW p \in Products
               PROVE  /\ binaryAsset(p, t) \in DOMAIN releaseDir
                      /\ releaseDir[binaryAsset(p, t)] = Binary(p, ReleaseVersion, ReleaseCommit)
    BY DEF Collected
  <2>1. binaryAsset(p, t) \in names /\ binaryAsset(p, t)[2] = p
    BY DEF binaryAsset
  <2> QED BY <1>1, <2>1
<1>4. /\ DOMAIN creator = DOMAIN NotCreating /\ creator.pc = "idle" /\ creator.next = 1
      /\ temps = 0 /\ releaseChanges = 0 /\ sinceCreated = {"never"} /\ creatorDied = FALSE
  BY DEF ReleaseInit, NotCreating
<1>5. releaseConfig \in Configs
  BY DEF ReleaseInit, Configs
<1>6. CreatorMade
  <2>1. creatorDied \in BOOLEAN /\ temps = (IF creator.pc = "publish" THEN 1 ELSE 0)
    BY <1>4
  <2> QED BY <1>4, <1>5, <2>1 DEF CreatorMade
<1>7. Undisturbed
  BY <1>3, <1>4 DEF Undisturbed
<1> QED BY <1>2, <1>4, <1>6, <1>7 DEF ReleaseInv

-----------------------------------------------------------------------------
(* What VerifyAll accepts.                                                  *)

LEMMA FourMembers ==
  /\ DOMAIN expectedMembers = {"top", "config", "torrctl", "torrserver"}
  /\ IsFiniteSet(DOMAIN expectedMembers) /\ Cardinality(DOMAIN expectedMembers) = 4
<1> DEFINE N == {"top", "config", "torrctl", "torrserver"}
<1>1. DOMAIN expectedMembers = N
  BY DEF expectedMembers
<1>2. IsFiniteSet({}) /\ Cardinality({}) = 0
  BY FS_EmptySet
<1>3. IsFiniteSet({"top"}) /\ Cardinality({"top"}) = 1
  BY FS_Singleton
<1>4. IsFiniteSet({"top"} \cup {"config"}) /\ Cardinality({"top"} \cup {"config"}) = 2
  BY <1>3, FS_AddElement
<1>5. /\ IsFiniteSet(({"top"} \cup {"config"}) \cup {"torrctl"})
      /\ Cardinality(({"top"} \cup {"config"}) \cup {"torrctl"}) = 3
  BY <1>4, FS_AddElement
<1>6. /\ IsFiniteSet((({"top"} \cup {"config"}) \cup {"torrctl"}) \cup {"torrserver"})
      /\ Cardinality((({"top"} \cup {"config"}) \cup {"torrctl"}) \cup {"torrserver"}) = 4
  BY <1>5, FS_AddElement
<1>7. N = (({"top"} \cup {"config"}) \cup {"torrctl"}) \cup {"torrserver"}
  OBVIOUS
<1> QED BY <1>1, <1>6, <1>7

Executable == 755
Readable == 644
IsDir == TRUE
NotDir == FALSE
DebugOff == Config(FALSE)

\* The member of each name in what CreateAll packs.
Packs(name) ==
  IF name = "top" THEN member("top", Executable, IsDir, EmptyFile)
  ELSE IF name = "config" THEN member("config", Readable, NotDir, DebugOff)
  ELSE member(name, Executable, NotDir, Binary(name, ReleaseVersion, ReleaseCommit))

LEMMA MemberFields ==
  ASSUME NEW name, NEW mode, NEW isDir, NEW data, NEW m, m = member(name, mode, isDir, data)
  PROVE  m.name = name /\ m.mode = mode /\ m.directory = isDir /\ m.data = data
BY DEF member

LEMMA PackedByName ==
  \A n \in DOMAIN expectedMembers : Packs(n).name = n
<1> SUFFICES ASSUME NEW n \in DOMAIN expectedMembers PROVE Packs(n).name = n
  OBVIOUS
<1> DEFINE g == Packs(n)
<1>1. \/ g = member("top", Executable, IsDir, EmptyFile) /\ n = "top"
      \/ g = member("config", Readable, NotDir, DebugOff) /\ n = "config"
      \/ g = member(n, Executable, NotDir, Binary(n, ReleaseVersion, ReleaseCommit))
  BY Zenon DEF Packs
<1> HIDE DEF g
<1>2. CASE g = member("top", Executable, IsDir, EmptyFile) /\ n = "top"
  BY <1>2, MemberFields DEF g
<1>3. CASE g = member("config", Readable, NotDir, DebugOff) /\ n = "config"
  BY <1>3, MemberFields DEF g
<1>4. CASE g = member(n, Executable, NotDir, Binary(n, ReleaseVersion, ReleaseCommit))
  BY <1>4, MemberFields DEF g
<1> QED BY <1>1, <1>2, <1>3, <1>4

LEMMA ExpectedFields ==
  /\ expectedMembers["top"].mode = Executable /\ expectedMembers["top"].directory = IsDir
  /\ expectedMembers["config"].mode = Readable /\ expectedMembers["config"].directory = NotDir
  /\ expectedMembers["torrctl"].mode = Executable /\ expectedMembers["torrctl"].directory = NotDir
  /\ expectedMembers["torrserver"].mode = Executable /\ expectedMembers["torrserver"].directory = NotDir
BY DEF expectedMembers, Executable, Readable, IsDir, NotDir

LEMMA MemberAccepted ==
  ASSUME NEW ms, NEW i, NEW m, ms[i] = m, \A j \in 1 .. (i - 1) : ms[j].name # m.name,
         m.name \in DOMAIN expectedMembers, m = Packs(m.name)
  PROVE  verifyArchiveMember(ms, i)
<1>1. m.name \in {"top", "config", "torrctl", "torrserver"}
  BY FourMembers
<1>2. /\ m.directory = expectedMembers[m.name].directory /\ m.mode = expectedMembers[m.name].mode
      /\ m.name \in Products => m.data = Binary(m.name, ReleaseVersion, ReleaseCommit)
      /\ m.name = "config" => m.data = DebugOff
  <2>1. CASE m.name = "top"
    <3>1. m = member("top", Executable, IsDir, EmptyFile)
      BY <2>1 DEF Packs
    <3>2. m.mode = Executable /\ m.directory = IsDir
      BY <3>1, MemberFields
    <3> QED BY <2>1, <3>2, ExpectedFields DEF Products
  <2>2. CASE m.name = "config"
    <3>1. m = member("config", Readable, NotDir, DebugOff)
      BY <2>2 DEF Packs
    <3>2. m.mode = Readable /\ m.directory = NotDir /\ m.data = DebugOff
      BY <3>1, MemberFields
    <3> QED BY <2>2, <3>2, ExpectedFields DEF Products
  <2>3. CASE m.name \in {"torrctl", "torrserver"}
    <3>1. m = member(m.name, Executable, NotDir, Binary(m.name, ReleaseVersion, ReleaseCommit))
      BY <2>3 DEF Packs
    <3>2. m.mode = Executable /\ m.directory = NotDir /\ m.data = Binary(m.name, ReleaseVersion, ReleaseCommit)
      BY <3>1, MemberFields
    <3> QED BY <2>3, <3>2, ExpectedFields
  <2> QED BY <1>1, <2>1, <2>2, <2>3
<1>3. m.name \in Products => inspectBuildInfo(m.data, m.name)
  BY <1>2, ReleaseAssumption DEF inspectBuildInfo, Binary
<1>4. m.name = "config" => ~m.data.debug
  BY <1>2 DEF Config, DebugOff
<1> QED BY <1>2, <1>3, <1>4, Zenon DEF verifyArchiveMember

\* A bundle that is accepted has the four members and no other.
LEMMA AcceptedIsGood ==
  ASSUME NEW content, BundleMade(content), verifyBundle(content)
  PROVE  GoodBundle(content)
<1> DEFINE ms == content.members
           n == Len(ms)
           N == DOMAIN expectedMembers
           names == {ms[i].name : i \in DOMAIN ms}
           f == [i \in 1 .. n |-> ms[i].name]
<1>1. content.kind = "archive" /\ MembersMade(ms)
  BY DEF verifyBundle, readArchive, BundleMade
<1>2. /\ n \in Nat /\ DOMAIN ms = 1 .. n /\ Range(ms) = {ms[i] : i \in 1 .. n}
      /\ \A i \in 1 .. n : MemberMade(ms[i])
  BY <1>1, LenProperties, ElementOfSeq DEF MembersMade, Range
<1>3. \A i \in 1 .. n : verifyArchiveMember(ms, i)
  BY <1>2 DEF verifyBundle
<1>4. \A i, j \in 1 .. n : ms[i].name = ms[j].name => i = j
  <2> SUFFICES ASSUME NEW i \in 1 .. n, NEW j \in 1 .. n, i < j PROVE ms[i].name # ms[j].name
    BY <1>2
  <2>1. i \in 1 .. (j - 1)
    BY <1>2
  <2> QED BY <1>3, <2>1 DEF verifyArchiveMember
<1>5. \A i \in 1 .. n : ms[i].name \in N
  BY <1>3 DEF verifyArchiveMember
<1>6. names \in SUBSET N /\ Cardinality(names) = Cardinality(N)
  BY <1>2, <1>5 DEF verifyBundle, verifyExpectedMembers
<1>7. names = N
  BY <1>6, FourMembers, FS_Subset
<1>8. n = 4
  <2> HIDE DEF n, ms
  <2>1. f \in Surjection(1 .. n, N)
    BY <1>2, <1>5, <1>7 DEF Surjection
  <2>2. f \in Injection(1 .. n, N)
    BY <1>2, <1>4, <1>5 DEF Injection, IsInjective
  <2>3. IsFiniteSet(1 .. n) /\ Cardinality(1 .. n) = n
    BY <1>2, FS_Interval
  <2>4. Cardinality(N) = Cardinality(1 .. n)
    BY <2>1, <2>2, <2>3, FS_Surjection
  <2> QED BY <2>3, <2>4, FourMembers
<1>9. ASSUME NEW i \in 1 .. n PROVE GoodMember(ms[i])
  <2> DEFINE m == ms[i]
  <2>1. MemberMade(m)
    BY <1>2
  <2>2. /\ m.name \in N /\ m.directory = expectedMembers[m.name].directory
        /\ m.mode = expectedMembers[m.name].mode
        /\ m.name \in Products => inspectBuildInfo(m.data, m.name)
        /\ m.name = "config" => ~m.data.debug
    BY <1>3 DEF verifyArchiveMember
  <2> HIDE DEF m
  <2>3. m = member(m.name, m.mode, m.directory, m.data)
    BY <2>1, Zenon DEF MemberMade, member
  <2>4. m.name \in {"top", "config", "torrctl", "torrserver"}
    BY <2>2, FourMembers
  <2>5. GoodMember(m)
    <3>1. CASE m.name = "top"
      <4>1. m.mode = Executable /\ m.directory = IsDir /\ m.data = EmptyFile
        BY <2>1, <2>2, <3>1, ExpectedFields DEF MemberMade
      <4>2. m = member("top", Executable, IsDir, EmptyFile)
        BY <2>3, <3>1, <4>1, Zenon
      <4> QED BY <4>2, Zenon DEF GoodMember, Executable, IsDir
    <3>2. CASE m.name = "config"
      <4>1. m.mode = Readable /\ m.directory = NotDir
        BY <2>2, <3>2, ExpectedFields
      <4>2. m.data = DebugOff
        BY <2>1, <2>2, <3>2 DEF MemberMade, Configs, Config, DebugOff
      <4>3. m = member("config", Readable, NotDir, DebugOff)
        BY <2>3, <3>2, <4>1, <4>2, Zenon
      <4> QED BY <4>3, Zenon DEF GoodMember, Readable, NotDir, DebugOff
    <3>3. CASE m.name \in Products
      <4>1. m.mode = Executable /\ m.directory = NotDir
        BY <2>2, <3>3, ExpectedFields DEF Products
      <4>2. Stamped(m.data, m.name)
        BY <2>2, <3>3 DEF inspectBuildInfo, Stamped
      <4>3. m = member(m.name, Executable, NotDir, m.data)
        BY <2>3, <4>1, Zenon
      <4> QED BY <3>3, <4>2, <4>3, Zenon DEF GoodMember, Executable, NotDir
    <3> QED BY <2>4, <3>1, <3>2, <3>3 DEF Products
  <2> QED BY <2>5 DEF m
<1>10. names = {"top", "config"} \cup Products
  BY <1>7, FourMembers DEF Products
<1> QED BY <1>1, <1>2, <1>8, <1>9, <1>10 DEF GoodBundle

\* What a creation makes, with debug off, is accepted.
LEMMA MadeIsAccepted == verifyBundle(Bundle(Config(FALSE)))
<1> DEFINE a == Packs("top")
           b == Packs("config")
           c == Packs("torrctl")
           d == Packs("torrserver")
           ms == <<a, b, c, d>>
<1>1. /\ Bundle(Config(FALSE)).kind = "archive" /\ Bundle(Config(FALSE)).members = ms
  <2> DEFINE entries == Entries(Config(FALSE), Binary("torrctl", ReleaseVersion, ReleaseCommit),
                                Binary("torrserver", ReleaseVersion, ReleaseCommit))
  <2>1. Bundle(Config(FALSE)) = Archive(entries)
    BY DEF Bundle
  <2> DEFINE a1 == member("top", 755, TRUE, EmptyFile)
             b1 == member("config", 644, FALSE, Config(FALSE))
             c1 == member("torrctl", 755, FALSE, Binary("torrctl", ReleaseVersion, ReleaseCommit))
             d1 == member("torrserver", 755, FALSE, Binary("torrserver", ReleaseVersion, ReleaseCommit))
  <2>2. a = a1 /\ b = b1 /\ c = c1 /\ d = d1
    BY DEF Packs, Executable, Readable, IsDir, NotDir, DebugOff
  <2>3. entries = ms
    <3>1. entries = <<a1, b1, c1, d1>>
      BY Zenon DEF Entries
    <3> HIDE DEF a, b, c, d, a1, b1, c1, d1, entries
    <3> QED BY <2>2, <3>1
  <2> HIDE DEF entries, ms
  <2>4. Archive(entries).kind = "archive" /\ Archive(entries).members = entries
    BY DEF Archive
  <2> QED BY <2>1, <2>3, <2>4, Zenon
<1>2. a.name = "top" /\ b.name = "config" /\ c.name = "torrctl" /\ d.name = "torrserver"
  BY PackedByName, FourMembers
<1>3. a = Packs(a.name) /\ b = Packs(b.name) /\ c = Packs(c.name) /\ d = Packs(d.name)
  BY <1>2
<1>4. {a.name, b.name, c.name, d.name} = DOMAIN expectedMembers
  BY <1>2, FourMembers
<1> HIDE DEF a, b, c, d
<1>5. Len(ms) = 4 /\ DOMAIN ms = 1 .. 4 /\ ms[1] = a /\ ms[2] = b /\ ms[3] = c /\ ms[4] = d
  OBVIOUS
<1> HIDE DEF ms
<1>6. verifyArchiveMember(ms, 1)
  BY <1>3, <1>4, <1>5, MemberAccepted
<1>7. verifyArchiveMember(ms, 2)
  <2>1. \A j \in 1 .. (2 - 1) : ms[j].name # b.name
    BY <1>2, <1>5
  <2> QED BY <1>3, <1>4, <1>5, <2>1, MemberAccepted
<1>8. verifyArchiveMember(ms, 3)
  <2>1. \A j \in 1 .. (3 - 1) : ms[j].name # c.name
    BY <1>2, <1>5
  <2> QED BY <1>3, <1>4, <1>5, <2>1, MemberAccepted
<1>9. verifyArchiveMember(ms, 4)
  <2>1. \A j \in 1 .. (4 - 1) : ms[j].name # d.name
    BY <1>2, <1>5
  <2> QED BY <1>3, <1>4, <1>5, <2>1, MemberAccepted
<1>10. {ms[i].name : i \in DOMAIN ms} = DOMAIN expectedMembers
  BY <1>4, <1>5
<1>11. verifyExpectedMembers(ms)
  BY <1>10, Zenon DEF verifyExpectedMembers
<1>12. \A i \in DOMAIN ms : verifyArchiveMember(ms, i)
  BY <1>5, <1>6, <1>7, <1>8, <1>9
<1>13. readArchive(Bundle(Config(FALSE)))
  BY <1>1, <1>5, ReleaseAssumption DEF readArchive
<1> QED BY <1>1, <1>11, <1>12, <1>13 DEF verifyBundle

\* VerifyAll (internal/releasebundle) accepts a directory only if every bundle in it has
\* exactly the four members, debug off and binaries of a version and a commit that start
\* as those asked for, whoever packed it;
\* a creation that nobody has disturbed is accepted; and CreateAll leaves a temporary file
\* only by dying; for any targets, versions and changes by others.
THEOREM ReleasesAreExact == ReleaseSpec => []ReleaseExact
<1>1. ReleaseInv => ReleaseExact
  <2> SUFFICES ASSUME ReleaseInv PROVE ReleaseExact
    OBVIOUS
  <2>1. ASSUME VerifyAll(releaseDir), NEW t \in TargetSet
        PROVE  GoodBundle(releaseDir[bundleName(t)])
    <3> DEFINE lines == releaseDir[ManifestName].lines
    <3>1. ManifestMade(releaseDir[ManifestName])
      BY <2>1 DEF VerifyAll, verifyChecksumManifest, ReleaseInv, DirMade
    <3>2. /\ Len(lines) = Len(expectedAssetNames)
          /\ \A i \in DOMAIN lines : /\ lines[i][1] = expectedAssetNames[i]
                                     /\ lines[i][1] \in DOMAIN releaseDir
      BY <2>1 DEF VerifyAll, verifyChecksumManifest
    <3>3. DOMAIN lines = 1 .. Len(lines)
      BY <3>1, LenProperties DEF ManifestMade
    <3>4. PICK i \in DOMAIN expectedAssetNames : expectedAssetNames[i] = bundleName(t)
      BY ExpectedNames
    <3>5. i \in DOMAIN lines
      BY <3>2, <3>3, <3>4, ExpectedNames
    <3>6. bundleName(t) \in DOMAIN releaseDir
      BY <3>2, <3>4, <3>5
    <3>7. BundleMade(releaseDir[bundleName(t)])
      BY <3>6 DEF ReleaseInv, DirMade
    <3>8. verifyBundle(releaseDir[bundleName(t)])
      BY <2>1 DEF VerifyAll
    <3> QED BY <3>7, <3>8, AcceptedIsGood
  <2>2. ASSUME sinceCreated = {}, releaseConfig = Config(FALSE), releaseChanges = 0
        PROVE  VerifyAll(releaseDir)
    <3>1. /\ validateVersion(ReleaseVersion) /\ Collected(releaseDir)
          /\ \A t \in TargetSet : Packed(releaseDir, t, Config(FALSE))
          /\ ManifestName \in DOMAIN releaseDir /\ releaseDir[ManifestName] = Sums(releaseDir)
      BY <2>2 DEF ReleaseInv, Undisturbed
    <3>2. ASSUME NEW t \in TargetSet PROVE verifyBundle(releaseDir[bundleName(t)])
      BY <3>1, MadeIsAccepted, Zenon DEF Packed
    <3>3. \A n \in Assets : n \in DOMAIN releaseDir
      <4>1. \A t \in TargetSet : bundleName(t) \in DOMAIN releaseDir
        BY <3>1, Zenon DEF Packed
      <4>2. \A t \in TargetSet, p \in Products : binaryAsset(p, t) \in DOMAIN releaseDir
        BY <3>1, Zenon DEF Collected
      <4> QED BY <4>1, <4>2 DEF Assets
    <3>4. verifyChecksumManifest(releaseDir)
      <4> DEFINE lines == Sums(releaseDir).lines
      <4>1. Len(lines) = Len(expectedAssetNames) /\ DOMAIN lines = DOMAIN expectedAssetNames
        BY SumsMade
      <4>2. \A i \in DOMAIN expectedAssetNames :
              lines[i] = <<expectedAssetNames[i], releaseDir[expectedAssetNames[i]]>>
        BY DEF Sums, Manifest
      <4>3. \A i \in DOMAIN expectedAssetNames : expectedAssetNames[i] \in DOMAIN releaseDir
        BY <3>3, ExpectedNames
      <4>4. releaseDir[ManifestName].lines = lines
        BY <3>1
      <4> HIDE DEF lines
      <4>5. \A i \in DOMAIN lines : /\ lines[i][1] = expectedAssetNames[i]
                                    /\ lines[i][1] \in DOMAIN releaseDir
                                    /\ lines[i][2] = releaseDir[lines[i][1]]
        BY <4>1, <4>2, <4>3
      <4> QED BY <3>1, <4>1, <4>4, <4>5 DEF verifyChecksumManifest
    <3> QED BY <3>1, <3>2, <3>4 DEF VerifyAll
  <2>3. creator.pc = "idle" /\ ~creatorDied => temps = 0
    BY DEF ReleaseInv, CreatorMade
  <2> QED BY <2>1, <2>2, <2>3 DEF ReleaseExact, Creating
<1>2. ReleaseInv /\ [ReleaseNext]_releaseVars => ReleaseInv'
  BY ReleaseStep
<1> QED BY ReleaseStarts, <1>1, <1>2, PTL DEF ReleaseSpec
=============================================================================
