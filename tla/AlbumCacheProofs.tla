-------------------------- MODULE AlbumCacheProofs --------------------------
(***************************************************************************)
(* For any number of lookups and of changes, the album cache never labels  *)
(* a state newer than it is, and only a lookup that joined the flight of   *)
(* another one can be given a state older than its own view.               *)
(***************************************************************************)
EXTENDS AlbumCache, TLAPS

\* Nobody has seen an mtime, or a listing, of the future.
NothingFromTheFuture ==
  /\ \A c \in Callers : caller[c].dirFi <= mtime
  /\ flight # None => flight.state.first <= mtime
  /\ dirs # None => dirs.state.first <= mtime

\* The leader of a flight is in it, and everybody else in it has joined.
FlightHasLeader ==
  /\ flight # None =>
       caller[flight.leader].pc = "inFlight" /\ ~caller[flight.leader].joined
  /\ \A c \in Callers : caller[c].pc = "inFlight" =>
       flight # None /\ (~caller[c].joined => c = flight.leader)

\* Only callers that are in a flight, or come out of one, have joined.
OnlyFlightsAreJoined ==
  \A c \in Callers : caller[c].pc \in {"idle", "statted", "missed"} => ~caller[c].joined

\* What a flight has read is no older than its leader's mtime.
FlightIsFresh ==
  flight # None /\ (flight.at \in {"rest", "store"} \/ (flight.at = "landed" /\ ~flight.failed))
    => flight.state.first >= caller[flight.leader].dirFi

\* The inductive invariant.
IInv ==
  /\ TypeOK
  /\ NothingFromTheFuture
  /\ FlightHasLeader
  /\ OnlyFlightsAreJoined
  /\ FlightIsFresh
  /\ LabelIsHonest
  /\ FreshUnlessJoined

-----------------------------------------------------------------------------
LEMMA VersionsAreNat == Versions \subseteq Nat /\ 0 \in Versions
  BY AlbumAssumption DEF AlbumAssumption, Versions

LEMMA InitIInv == Init => IInv
<1> SUFFICES ASSUME Init PROVE IInv
  OBVIOUS
<1>1. TypeOK
  BY VersionsAreNat DEF Init, TypeOK, Caller, Idle, Unread, DirState
<1> QED
  BY <1>1 DEF Init, IInv, NothingFromTheFuture, FlightHasLeader, OnlyFlightsAreJoined,
              FlightIsFresh, LabelIsHonest, FreshUnlessJoined, Idle

-----------------------------------------------------------------------------
(* Each action preserves the invariant *)

\* What the invariant says of numbers and records, ready for use.
LEMMA Facts ==
  ASSUME IInv
  PROVE  /\ mtime \in Nat /\ mtime \in Versions
         /\ \A c \in Callers : caller[c] \in Caller /\ caller[c].dirFi \in Nat
         /\ dirs # None => /\ dirs \in CachedDir /\ dirs.dirModTime \in Nat
                           /\ dirs.state \in DirState /\ dirs.state.first \in Nat
         /\ flight # None => /\ flight \in Flight /\ flight.leader \in Callers
                             /\ flight.state \in DirState /\ flight.state.first \in Nat
  BY VersionsAreNat DEF IInv, TypeOK, Caller, CachedDir, Flight, DirState

LEMMA ChangeDirStep ==
  ASSUME IInv, ChangeDir
  PROVE  IInv'
<1> USE DEF ChangeDir
<1>1. mtime' \in Versions /\ mtime' = mtime + 1
  BY Facts, AlbumAssumption DEF AlbumAssumption, Versions
<1>2. TypeOK'
  BY <1>1 DEF IInv, TypeOK
<1>3. NothingFromTheFuture'
  BY <1>1, Facts DEF IInv, NothingFromTheFuture
<1> QED
  BY <1>2, <1>3 DEF IInv, FlightHasLeader, OnlyFlightsAreJoined, FlightIsFresh,
                    LabelIsHonest, FreshUnlessJoined, Hit

\* The steps of one caller alone: the cache and the flight stay.
LEMMA OneCaller ==
  ASSUME IInv, NEW c \in Callers, NEW r \in Caller, caller' = [caller EXCEPT ![c] = r],
         UNCHANGED <<mtime, dirs, flight>>,
         caller[c].pc # "inFlight", r.pc # "inFlight", r.dirFi <= mtime,
         r.pc \in {"idle", "statted", "missed"} => ~r.joined,
         r.pc = "answered" /\ ~r.failed /\ ~r.joined => r.state.first >= r.dirFi
  PROVE  IInv'
<1>1. caller'[c] = r /\ \A d \in Callers \ {c} : caller'[d] = caller[d]
  BY DEF IInv, TypeOK
<1>2. TypeOK'
  BY DEF IInv, TypeOK
<1>3. flight # None => flight.leader \in Callers \ {c}
  BY Facts DEF IInv, FlightHasLeader
<1>4. NothingFromTheFuture'
  BY <1>1 DEF IInv, NothingFromTheFuture
<1>5. FlightHasLeader'
  BY <1>1, <1>3 DEF IInv, FlightHasLeader
<1>6. OnlyFlightsAreJoined' /\ FlightIsFresh' /\ LabelIsHonest'
  BY <1>1, <1>3 DEF IInv, OnlyFlightsAreJoined, FlightIsFresh, LabelIsHonest
<1>7. FreshUnlessJoined'
  BY <1>1 DEF IInv, FreshUnlessJoined
<1> QED
  BY <1>2, <1>4, <1>5, <1>6, <1>7 DEF IInv

LEMMA CallerSteps ==
  ASSUME IInv, NEW c \in Callers, Stat(c) \/ StatError(c) \/ Lookup(c) \/ Return(c)
  PROVE  IInv'
<1>1. CASE Stat(c)
  <2> DEFINE r == [Idle EXCEPT !.pc = "statted", !.dirFi = mtime]
  <2>0. mtime \in Nat /\ mtime <= mtime
    BY Facts
  <2>1. r \in Caller /\ r.pc = "statted" /\ ~r.joined /\ r.dirFi = mtime
    BY Facts, VersionsAreNat DEF Idle, Caller, Unread, DirState
  <2> HIDE DEF r
  <2>2. caller' = [caller EXCEPT ![c] = r] /\ caller[c].pc = "idle"
    BY <1>1 DEF Stat, r
  <2> QED
    BY <1>1, <2>0, <2>1, <2>2, OneCaller DEF Stat
<1>2. CASE StatError(c)
  BY <1>2 DEF StatError, vars, IInv, TypeOK, NothingFromTheFuture, FlightHasLeader,
              OnlyFlightsAreJoined, FlightIsFresh, LabelIsHonest, FreshUnlessJoined
<1>3. CASE Lookup(c)
  <2>1. /\ caller[c] \in Caller /\ caller[c].pc = "statted" /\ ~caller[c].joined
        /\ caller[c].dirFi <= mtime
    BY <1>3, Facts DEF Lookup, IInv, OnlyFlightsAreJoined, NothingFromTheFuture
  <2>2. CASE Hit(c)
    <3> DEFINE r == [caller[c] EXCEPT !.pc = "answered", !.state = dirs.state]
    <3>1. dirs \in CachedDir /\ dirs.state.first >= caller[c].dirFi
      BY <2>2, Facts DEF Hit, IInv, LabelIsHonest
    <3>2. /\ r \in Caller /\ r.pc = "answered" /\ r.dirFi = caller[c].dirFi
          /\ r.state = dirs.state
      BY <2>1, <3>1 DEF Caller, CachedDir
    <3> HIDE DEF r
    <3>3. caller' = [caller EXCEPT ![c] = r]
      BY <1>3, <2>2 DEF Lookup, r
    <3> QED
      BY <1>3, <2>1, <3>1, <3>2, <3>3, OneCaller DEF Lookup
  <2>3. CASE ~Hit(c)
    <3> DEFINE r == [caller[c] EXCEPT !.pc = "missed"]
    <3>1. /\ r \in Caller /\ r.pc = "missed" /\ r.dirFi = caller[c].dirFi
          /\ r.joined = caller[c].joined
      BY <2>1 DEF Caller
    <3> HIDE DEF r
    <3>2. caller' = [caller EXCEPT ![c] = r]
      BY <1>3, <2>3 DEF Lookup, r
    <3> QED
      BY <1>3, <2>1, <3>1, <3>2, OneCaller DEF Lookup
  <2> QED
    BY <2>2, <2>3
<1>4. CASE Return(c)
  <2>1. Idle \in Caller /\ Idle.pc = "idle" /\ ~Idle.joined /\ Idle.dirFi <= mtime
    BY Facts, VersionsAreNat DEF Idle, Caller, Unread, DirState
  <2> QED
    BY <1>4, <2>1, OneCaller DEF Return
<1> QED
  BY <1>1, <1>2, <1>3, <1>4

\* A caller that finds no flight leads one; it begins with nothing read.
LEMMA LeadStep ==
  ASSUME IInv, NEW c \in Callers, Lead(c)
  PROVE  IInv'
<1> USE DEF Lead
<1>0. Unread \in DirState /\ Unread.first = 0
  BY VersionsAreNat DEF Unread, DirState
<1>1. /\ flight' \in Flight /\ flight' # None /\ flight'.leader = c
      /\ flight'.at = "check" /\ flight'.state.first = 0
  <2>1. flight' \in Flight
    BY <1>0 DEF Flight
  <2> QED
    BY <1>0, <2>1, NoneAssumption DEF NoneAssumption
<1>2. /\ caller' \in [Callers -> Caller]
      /\ caller'[c].pc = "inFlight" /\ ~caller'[c].joined /\ caller'[c].dirFi = caller[c].dirFi
      /\ \A d \in Callers \ {c} : caller'[d] = caller[d]
  BY Facts DEF IInv, TypeOK, Caller, OnlyFlightsAreJoined
<1>3. TypeOK' /\ NothingFromTheFuture'
  BY <1>1, <1>2, Facts DEF IInv, TypeOK, NothingFromTheFuture
<1>4. FlightHasLeader' /\ OnlyFlightsAreJoined'
  BY <1>1, <1>2 DEF IInv, FlightHasLeader, OnlyFlightsAreJoined
<1>5. FlightIsFresh' /\ LabelIsHonest' /\ FreshUnlessJoined'
  BY <1>1, <1>2 DEF IInv, FlightIsFresh, LabelIsHonest, FreshUnlessJoined
<1> QED
  BY <1>3, <1>4, <1>5 DEF IInv

LEMMA JoinStep ==
  ASSUME IInv, NEW c \in Callers, Join(c)
  PROVE  IInv'
<1> USE DEF Join
<1>1. flight.leader \in Callers \ {c}
  BY Facts DEF IInv, FlightHasLeader
<1>2. /\ caller' \in [Callers -> Caller]
      /\ caller'[c].pc = "inFlight" /\ caller'[c].joined /\ caller'[c].dirFi = caller[c].dirFi
      /\ \A d \in Callers \ {c} : caller'[d] = caller[d]
  BY Facts DEF IInv, TypeOK, Caller
<1>3. TypeOK' /\ NothingFromTheFuture'
  BY <1>2 DEF IInv, TypeOK, NothingFromTheFuture
<1>4. FlightHasLeader' /\ OnlyFlightsAreJoined'
  BY <1>1, <1>2 DEF IInv, FlightHasLeader, OnlyFlightsAreJoined
<1>5. FlightIsFresh' /\ LabelIsHonest' /\ FreshUnlessJoined'
  BY <1>1, <1>2 DEF IInv, FlightIsFresh, LabelIsHonest, FreshUnlessJoined
<1> QED
  BY <1>3, <1>4, <1>5 DEF IInv

\* The steps of a flight that leave the callers and the cache alone.
LEMMA OneFlight ==
  ASSUME IInv, flight # None, flight' \in Flight, flight'.leader = flight.leader,
         UNCHANGED <<mtime, dirs, caller>>, flight'.state.first <= mtime,
         FlightIsFresh'
  PROVE  IInv'
<1>1. flight' # None
  BY NoneAssumption DEF NoneAssumption
<1>2. TypeOK' /\ NothingFromTheFuture' /\ FlightHasLeader'
  BY <1>1 DEF IInv, TypeOK, NothingFromTheFuture, FlightHasLeader
<1> QED
  BY <1>2 DEF IInv, OnlyFlightsAreJoined, LabelIsHonest, FreshUnlessJoined

LEMMA FlightSteps ==
  ASSUME IInv, Recheck \/ ReadCues \/ NoAlbums \/ ReadNames \/ BuildError
  PROVE  IInv'
<1>0. /\ flight # None /\ flight \in Flight /\ flight.state.first <= mtime
      /\ flight.leader \in Callers /\ caller[flight.leader].dirFi <= mtime
  BY Facts DEF Recheck, ReadCues, NoAlbums, ReadNames, BuildError, IInv, NothingFromTheFuture
<1>1. CASE Recheck
  <2>1. CASE Hit(flight.leader)
    <3>1. /\ dirs \in CachedDir /\ dirs.state.first <= mtime
          /\ dirs.state.first >= caller[flight.leader].dirFi
      BY <2>1, Facts DEF Hit, IInv, LabelIsHonest, NothingFromTheFuture
    <3>2. /\ flight' \in Flight /\ flight'.leader = flight.leader
          /\ flight'.at = "landed" /\ flight'.state = dirs.state
      BY <1>0, <1>1, <2>1, <3>1 DEF Recheck, Flight, CachedDir
    <3> QED
      BY <1>0, <1>1, <3>1, <3>2, OneFlight DEF Recheck, FlightIsFresh
  <2>2. CASE ~Hit(flight.leader)
    <3>1. /\ flight' \in Flight /\ flight'.leader = flight.leader
          /\ flight'.at = "list" /\ flight'.state = flight.state
      BY <1>0, <1>1, <2>2 DEF Recheck, Flight
    <3> QED
      BY <1>0, <1>1, <3>1, OneFlight DEF Recheck, FlightIsFresh
  <2> QED
    BY <2>1, <2>2
<1>2. CASE ReadCues
  <2>1. /\ flight' \in Flight /\ flight'.leader = flight.leader
        /\ flight'.at = "rest" /\ flight'.state.first = mtime
    BY <1>0, <1>2, Facts DEF ReadCues, Flight, DirState
  <2> QED
    BY <1>0, <1>2, <2>1, Facts, OneFlight DEF ReadCues, FlightIsFresh
<1>3. CASE ReadNames
  <2>1. /\ flight' \in Flight /\ flight'.leader = flight.leader
        /\ flight'.at = "store" /\ flight'.state.first = flight.state.first
    <3>1. PICK last \in Versions \cup {None} :
            flight' = [flight EXCEPT !.at = "store", !.state.last = last]
      BY <1>3, Facts DEF ReadNames
    <3> QED
      BY <1>0, <3>1, Facts DEF Flight, DirState
  <2>2. flight.state.first >= caller[flight.leader].dirFi
    BY <1>3 DEF ReadNames, IInv, FlightIsFresh
  <2> QED
    BY <1>0, <1>3, <2>1, <2>2, OneFlight DEF ReadNames, FlightIsFresh
<1>4. CASE NoAlbums
  <2>1. /\ flight' \in Flight /\ flight'.leader = flight.leader
        /\ flight'.at = "store" /\ flight'.state = flight.state
    BY <1>0, <1>4 DEF NoAlbums, Flight
  <2>2. flight.state.first >= caller[flight.leader].dirFi
    BY <1>4 DEF NoAlbums, IInv, FlightIsFresh
  <2> QED
    BY <1>0, <1>4, <2>1, <2>2, OneFlight DEF NoAlbums, FlightIsFresh
<1>5. CASE BuildError
  <2>1. /\ flight' \in Flight /\ flight'.leader = flight.leader
        /\ flight'.at = "landed" /\ flight'.failed /\ flight'.state = flight.state
    BY <1>0, <1>5 DEF BuildError, Flight
  <2> QED
    BY <1>0, <1>5, <2>1, OneFlight DEF BuildError, FlightIsFresh
<1> QED
  BY <1>1, <1>2, <1>3, <1>4, <1>5

\* What is stored is no older than its label, the leader's mtime.
LEMMA StoreStep ==
  ASSUME IInv, Store
  PROVE  IInv'
<1> USE DEF Store
<1>0. /\ flight \in Flight /\ flight.leader \in Callers
      /\ flight.state.first <= mtime
  BY Facts DEF IInv, NothingFromTheFuture
<1>1. flight.state.first >= caller[flight.leader].dirFi
  BY DEF IInv, FlightIsFresh
<1>2. /\ flight' \in Flight /\ flight' # None /\ flight'.leader = flight.leader
      /\ flight'.state = flight.state
  BY <1>0, NoneAssumption DEF NoneAssumption, Flight
<1>3. dirs' \in CachedDir
  BY <1>0, Facts DEF CachedDir, Caller, Flight
<1>4. TypeOK' /\ NothingFromTheFuture' /\ FlightHasLeader'
  BY <1>0, <1>2, <1>3 DEF IInv, TypeOK, NothingFromTheFuture, FlightHasLeader
<1>5. FlightIsFresh' /\ LabelIsHonest'
  BY <1>0, <1>1, <1>2, Facts DEF FlightIsFresh, LabelIsHonest
<1> QED
  BY <1>4, <1>5 DEF IInv, OnlyFlightsAreJoined, FreshUnlessJoined

\* Of those that come out of a flight only its leader has not joined.
LEMMA LandStep ==
  ASSUME IInv, Land
  PROVE  IInv'
<1> USE DEF Land
<1>0. flight \in Flight /\ flight.leader \in Callers
  BY Facts
<1>1. ASSUME NEW c \in Callers
      PROVE  /\ caller'[c] \in Caller /\ caller'[c].pc # "inFlight"
             /\ caller'[c].dirFi = caller[c].dirFi /\ caller'[c].joined = caller[c].joined
             /\ caller'[c].pc = caller[c].pc => caller'[c] = caller[c]
             /\ caller'[c].pc # caller[c].pc =>
                  /\ caller[c].pc = "inFlight" /\ caller'[c].pc = "answered"
                  /\ caller'[c].state = flight.state /\ caller'[c].failed = flight.failed
  BY <1>0, Facts DEF Caller, Flight
<1>2. caller' = [c \in Callers |-> caller'[c]]
  OBVIOUS
<1>3. TypeOK'
  BY <1>1, <1>2 DEF IInv, TypeOK
<1>4. NothingFromTheFuture' /\ FlightHasLeader' /\ FlightIsFresh'
  BY <1>1 DEF IInv, NothingFromTheFuture, FlightHasLeader, FlightIsFresh
<1>5. OnlyFlightsAreJoined' /\ LabelIsHonest'
  BY <1>1 DEF IInv, OnlyFlightsAreJoined, LabelIsHonest
<1>6. FreshUnlessJoined'
  <2> SUFFICES ASSUME NEW c \in Callers, caller'[c].pc = "answered",
                      ~caller'[c].failed, ~caller'[c].joined
               PROVE  caller'[c].state.first >= caller'[c].dirFi
    BY DEF FreshUnlessJoined
  <2>1. CASE caller[c].pc = "inFlight"
    <3>1. /\ caller'[c].state = flight.state /\ caller'[c].failed = flight.failed
          /\ caller'[c].dirFi = caller[c].dirFi /\ caller'[c].joined = caller[c].joined
      BY <1>1, <2>1
    <3>2. c = flight.leader
      BY <2>1, <3>1 DEF IInv, FlightHasLeader
    <3>3. flight.state.first >= caller[flight.leader].dirFi
      BY <3>1 DEF IInv, FlightIsFresh
    <3> QED
      BY <3>1, <3>2, <3>3
  <2>2. CASE caller[c].pc # "inFlight"
    BY <1>1, <2>2 DEF IInv, FreshUnlessJoined
  <2> QED
    BY <2>1, <2>2
<1> QED
  BY <1>3, <1>4, <1>5, <1>6 DEF IInv

-----------------------------------------------------------------------------
(* The invariant *)

LEMMA NextIInv == IInv /\ [Next]_vars => IInv'
<1> SUFFICES ASSUME IInv, [Next]_vars PROVE IInv'
  OBVIOUS
<1>1. ASSUME NEW c \in Callers, CallerStep(c) PROVE IInv'
  BY <1>1, CallerSteps, LeadStep, JoinStep DEF CallerStep, EnterFlight
<1>2. CASE UNCHANGED vars
  BY <1>2 DEF vars, IInv, TypeOK, NothingFromTheFuture, FlightHasLeader,
              OnlyFlightsAreJoined, FlightIsFresh, LabelIsHonest, FreshUnlessJoined
<1> QED
  BY <1>1, <1>2, ChangeDirStep, FlightSteps, StoreStep, LandStep DEF Next, Build

\* IInv holds in every reachable state of the album cache.
THEOREM AlbumInvariance == Spec => []IInv
  BY InitIInv, NextIInv, PTL DEF Spec

\* The cached entry, the flight and the callers keep their types.
THEOREM TypeCorrect == Spec => []TypeOK
<1>1. IInv => TypeOK
  BY DEF IInv
<1> QED
  BY <1>1, AlbumInvariance, PTL

\* A cached state was read after its label, however the directory changes
\* during builds and however many builds overlap.
THEOREM CacheLabelHonest == Spec => []LabelIsHonest
<1>1. IInv => LabelIsHonest
  BY DEF IInv
<1> QED
  BY <1>1, AlbumInvariance, PTL

\* Only a lookup that joined another one's flight can be given a state from
\* before its own view of the directory.
THEOREM AnswersFresh == Spec => []FreshUnlessJoined
<1>1. IInv => FreshUnlessJoined
  BY DEF IInv
<1> QED
  BY <1>1, AlbumInvariance, PTL
=============================================================================
