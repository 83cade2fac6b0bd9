----------------------------- MODULE AlbumCache -----------------------------
(***************************************************************************)
(* AlbumCache.GetDirState of internal/vfs/cache.go for one directory: the  *)
(* parsed state is cached under the modification time that its builder had *)
(* seen, and concurrent builders share one flight of a singleflight.Group. *)
(* Directories do not interact: the cache and the flights are per path.    *)
(*                                                                         *)
(* Every change of a directory's entries gives it a new mtime, here the    *)
(* number of changes so far. (Files rewritten in place, and changes within *)
(* one tick of the file system's clock, do not: see the README.)           *)
(***************************************************************************)
EXTENDS Naturals

CONSTANTS
  Callers,    \* FUSE threads that look the directory up
  MaxChanges, \* bound on the changes of the directory
  None        \* no cached state, no flight, no listing

ASSUME AlbumAssumption == MaxChanges \in Nat

VARIABLES
  mtime,   \* the directory's modification time, and the version of its entries
  dirs,    \* c.dirs[dirPath]
  flight,  \* the singleflight call of dirPath
  caller   \* the calls of GetDirState

vars == <<mtime, dirs, flight, caller>>

-----------------------------------------------------------------------------
(* A DirState is known by the versions of the directory that its build saw *)
(* first (findAllCueFiles) and last (the listing for names and artwork;    *)
(* None when that listing failed, which the build ignores).                *)
Versions == 0 .. MaxChanges
DirState == [first : Versions, last : Versions \cup {None}]
Unread == [first |-> 0, last |-> 0]

CachedDir == [dirModTime : Versions, state : DirState]

\* The leader of a flight checks the cache again, reads the directory twice,
\* stores what it built, and lands; `failed` if the build returned an error.
Flight ==
  [leader : Callers, at : {"check", "list", "rest", "store", "landed"},
   state : DirState, failed : BOOLEAN]

ASSUME NoneAssumption == None \notin CachedDir \cup Flight

Caller ==
  [pc : {"idle", "statted", "missed", "inFlight", "answered"},
   dirFi : Versions, joined : BOOLEAN, failed : BOOLEAN, state : DirState]

Idle ==
  [pc |-> "idle", dirFi |-> 0, joined |-> FALSE, failed |-> FALSE, state |-> Unread]

\* The cache holds a state for the mtime that c has seen.
Hit(c) == dirs # None /\ dirs.dirModTime = caller[c].dirFi

\* NewAlbumCache
Init ==
  /\ mtime = 0
  /\ dirs = None
  /\ flight = None
  /\ caller = [c \in Callers |-> Idle]

\* An entry of the directory is added, removed or renamed.
ChangeDir ==
  /\ mtime < MaxChanges
  /\ mtime' = mtime + 1
  /\ UNCHANGED <<dirs, flight, caller>>

\* statPath
Stat(c) ==
  /\ caller[c].pc = "idle"
  /\ caller' = [caller EXCEPT ![c] = [Idle EXCEPT !.pc = "statted", !.dirFi = mtime]]
  /\ UNCHANGED <<mtime, dirs, flight>>

StatError(c) == caller[c].pc = "idle" /\ UNCHANGED vars

BadLookup(c) ==
  /\ caller[c].pc = "statted"
  /\ caller' = [caller EXCEPT ![c] =
       IF dirs # None THEN [@ EXCEPT !.pc = "answered", !.state = dirs.state]
                      ELSE [@ EXCEPT !.pc = "missed"]]
  /\ UNCHANGED <<mtime, dirs, flight>>

\* The first look into the cache.
Lookup(c) ==
  /\ caller[c].pc = "statted"
  /\ caller' = [caller EXCEPT ![c] =
       IF Hit(c) THEN [@ EXCEPT !.pc = "answered", !.state = dirs.state]
                 ELSE [@ EXCEPT !.pc = "missed"]]
  /\ UNCHANGED <<mtime, dirs, flight>>

-----------------------------------------------------------------------------
(* singleflight.Group.Do                                                   *)

Lead(c) ==
  /\ caller[c].pc = "missed"
  /\ flight = None
  /\ flight' = [leader |-> c, at |-> "check", state |-> Unread, failed |-> FALSE]
  /\ caller' = [caller EXCEPT ![c].pc = "inFlight"]
  /\ UNCHANGED <<mtime, dirs>>

Join(c) ==
  /\ caller[c].pc = "missed"
  /\ flight # None
  /\ caller' = [caller EXCEPT ![c].pc = "inFlight", ![c].joined = TRUE]
  /\ UNCHANGED <<mtime, dirs, flight>>

BadRecheck ==
  /\ flight # None
  /\ flight.at = "check"
  /\ flight' = IF dirs # None
                 THEN [flight EXCEPT !.at = "landed", !.state = dirs.state]
                 ELSE [flight EXCEPT !.at = "list"]
  /\ UNCHANGED <<mtime, dirs, caller>>

\* The leader looks into the cache again, with the mtime it has seen.
Recheck ==
  /\ flight # None
  /\ flight.at = "check"
  /\ flight' = IF Hit(flight.leader)
                 THEN [flight EXCEPT !.at = "landed", !.state = dirs.state]
                 ELSE [flight EXCEPT !.at = "list"]
  /\ UNCHANGED <<mtime, dirs, caller>>

\* buildDirState: the directory is listed for cue sheets ...
ReadCues ==
  /\ flight # None
  /\ flight.at = "list"
  /\ flight' = [flight EXCEPT !.at = "rest", !.state = [first |-> mtime, last |-> mtime]]
  /\ UNCHANGED <<mtime, dirs, caller>>

\* ... it has no sheet, or none becomes an album: nothing else is read ...
NoAlbums ==
  /\ flight # None
  /\ flight.at = "rest"
  /\ flight' = [flight EXCEPT !.at = "store"]
  /\ UNCHANGED <<mtime, dirs, caller>>

\* ... or, after the sheets were parsed, it is listed for the names taken and the
\* artwork. The error of this listing is dropped and the build goes on without.
ReadNames ==
  /\ flight # None
  /\ flight.at = "rest"
  /\ \E last \in {mtime, None} :
       flight' = [flight EXCEPT !.at = "store", !.state.last = last]
  /\ UNCHANGED <<mtime, dirs, caller>>

BadBuildError ==
  /\ flight # None
  /\ flight.at = "list"
  /\ flight' = [flight EXCEPT !.at = "landed", !.failed = TRUE]
  /\ dirs' = [dirModTime |-> None, state |-> Unread]
  /\ UNCHANGED <<mtime, caller>>

\* buildDirState returns an error when it cannot list the directory at first.
BuildError ==
  /\ flight # None
  /\ flight.at = "list"
  /\ flight' = [flight EXCEPT !.at = "landed", !.failed = TRUE]
  /\ UNCHANGED <<mtime, dirs, caller>>

BadStore ==
  /\ flight # None
  /\ flight.at = "store"
  /\ dirs' = [dirModTime |-> mtime, state |-> flight.state]
  /\ flight' = [flight EXCEPT !.at = "landed"]
  /\ UNCHANGED <<mtime, caller>>

\* The state is stored with the leader's mtime, seen before the build.
Store ==
  /\ flight # None
  /\ flight.at = "store"
  /\ dirs' = [dirModTime |-> caller[flight.leader].dirFi, state |-> flight.state]
  /\ flight' = [flight EXCEPT !.at = "landed"]
  /\ UNCHANGED <<mtime, caller>>

BadLand ==
  /\ flight # None
  /\ flight.at = "landed"
  /\ ~flight.failed
  /\ caller' = [c \in Callers |->
       IF caller[c].pc = "inFlight"
         THEN [caller[c] EXCEPT !.pc = "answered", !.state = flight.state]
         ELSE caller[c]]
  /\ flight' = None
  /\ UNCHANGED <<mtime, dirs>>

\* The flight is over: everybody in it has the leader's result.
Land ==
  /\ flight # None
  /\ flight.at = "landed"
  /\ caller' = [c \in Callers |->
       IF caller[c].pc = "inFlight"
         THEN [caller[c] EXCEPT !.pc = "answered", !.state = flight.state,
                                !.failed = flight.failed]
         ELSE caller[c]]
  /\ flight' = None
  /\ UNCHANGED <<mtime, dirs>>

\* GetDirState returns.
Return(c) ==
  /\ caller[c].pc = "answered"
  /\ caller' = [caller EXCEPT ![c] = Idle]
  /\ UNCHANGED <<mtime, dirs, flight>>

-----------------------------------------------------------------------------
Build == ReadCues \/ NoAlbums \/ ReadNames \/ BuildError \/ Store
EnterFlight(c) == Lead(c) \/ Join(c)

CallerStep(c) ==
  \/ Stat(c)
  \/ StatError(c)
  \/ Lookup(c)
  \/ EnterFlight(c)
  \/ Return(c)

Next ==
  \/ ChangeDir
  \/ \E c \in Callers : CallerStep(c)
  \/ Recheck
  \/ Build
  \/ Land

Spec == Init /\ [][Next]_vars

\* The goroutine of a call runs on; nobody has to call, or change the directory.
Fairness ==
  /\ \A c \in Callers :
       /\ WF_vars(Lookup(c))
       /\ WF_vars(EnterFlight(c))
       /\ WF_vars(Return(c))
  /\ WF_vars(Recheck)
  /\ WF_vars(Build)
  /\ WF_vars(Land)

FairSpec == Spec /\ Fairness

-----------------------------------------------------------------------------
(* Properties *)

\* The variables keep the shape of the code's data: what is cached is labelled by
\* an mtime and was read from the directory, so a build that failed (72), which has
\* neither, is never put there.
TypeOK ==
  /\ mtime \in Versions
  /\ dirs \in CachedDir \cup {None}
  /\ flight \in Flight \cup {None}
  /\ caller \in [Callers -> Caller]

\* The cached mtime never claims more than the build has read: a directory that
\* changed during the build has another mtime than the cache (76-80 must store
\* the mtime of before the build).
LabelIsHonest ==
  dirs # None => dirs.dirModTime <= dirs.state.first

\* A caller that was answered by the cache or by its own build has a state that
\* is no older than the directory was when it called.
FreshUnlessJoined ==
  \A c \in Callers :
    caller[c].pc = "answered" /\ ~caller[c].failed /\ ~caller[c].joined
      => caller[c].state.first >= caller[c].dirFi

\* Every lookup returns: also those that joined a flight whose build failed.
EveryLookupReturns ==
  \A c \in Callers : caller[c].pc = "statted" ~> caller[c].pc = "answered"

\* Old states do not survive: once the directory rests, the answers given show
\* it as it is, whatever slow callers with an old mtime put into the cache. All
\* that may be missing is what a failed second listing would have shown.
StalenessEnds ==
  <>[](\A c \in Callers :
         caller[c].pc = "answered" /\ ~caller[c].failed
           => /\ caller[c].state.first = mtime
              /\ caller[c].state.last \in {mtime, None})
=============================================================================
