------------------------------- MODULE Sessions -------------------------------
(***************************************************************************)
(* The sessions of one project on a shared machine: the registry's session *)
(* leases (storage_registry.py), the driver lease of the coordinator       *)
(* (storage_coordinator.py), which lets one session at a time work on the  *)
(* project's storage, and the temporary workspaces of a session            *)
(* (storage_ephemeral.py).  A life is one process on one boot: its pid,    *)
(* start time and boot id.                                                 *)
(***************************************************************************)
EXTENDS Naturals, FiniteSets

CONSTANTS Proc, Session, Workspace,
          MaxLives, MaxSequence, MaxFaults      \* bounds

ASSUME SessionsAssumption ==
    /\ MaxLives \in Nat /\ MaxSequence \in Nat /\ MaxFaults \in Nat
    /\ "free" \notin Proc /\ "none" \notin Workspace

VARIABLES
    life,       \* the life each process is, 0 when it is down
    lives,      \* lives used
    mine,       \* the lease, with its token, a process has in hand
    step,       \* where a process is
    lease,      \* LEASE.json per session
    sequence,   \* SEQUENCE.json of the project
    driver,     \* DRIVER.json
    drvLock,    \* the flock of the coordinator's project directory
    root,       \* the scratch root "tmp" of each session
    dir,        \* what lies under a workspace's name
    filled,     \* workspaces that hold content
    ws,         \* the record beside a workspace, its creator, and its reservation
    misjudged,  \* history: whether a failing reader let a live lease be taken
    robbed,     \* history: workspaces somebody else's content was removed from
    unreturned, \* history: workspaces whose reservation could not be given back
    failures    \* faults so far

sessVars == <<life, lives, mine, step, lease, sequence, driver, drvLock, root, dir,
              filled, ws, misjudged, robbed, unreturned, failures>>
leases == <<lease, sequence, misjudged>>
driving == <<driver, drvLock>>
histories == <<robbed, unreturned>>
scratch == <<root, dir, filled, ws, robbed, unreturned>>

NoLease == [life |-> 0, seq |-> 0]
NoDriver == [sess |-> "none", life |-> 0, seq |-> 0, released |-> FALSE]
\* ws: the workspace it makes, holds (then create has returned it) or cleans; fd: what the
\* cleanup's descriptor is open on; n: the sequence of the driver lease it is writing.
NoStep == [at |-> "idle", sess |-> "none", ws |-> "none", held |-> FALSE, fd |-> "none",
           n |-> 0]
NoWs == [state |-> "none", life |-> 0, reserved |-> FALSE]
Free == "free"

SessInit ==
    /\ life = [p \in Proc |-> 0] /\ lives = 0 /\ mine = [p \in Proc |-> NoLease]
    /\ step = [p \in Proc |-> NoStep]
    /\ lease = [s \in Session |-> NoLease] /\ sequence = 0
    /\ driver = NoDriver /\ drvLock = Free
    /\ root = [s \in Session |-> "none"] /\ dir = [w \in Workspace |-> "none"]
    /\ filled = {} /\ ws = [w \in Workspace |-> NoWs]
    /\ misjudged = FALSE /\ robbed = {} /\ unreturned = {} /\ failures = 0

IsAt(p, at) == step[p].at = at
Go(p, at) == step' = [step EXCEPT ![p].at = at]
Living(l) == l # 0 /\ \E p \in Proc : life[p] = l
Fault == failures < MaxFaults /\ failures' = failures + 1

-----------------------------------------------------------------------------
(* Session leases                                                          *)

\* lease_is_live: a reader that fails proves nothing, and the lease is not live.
LeaseIsLive(l, seen) == Living(l.life) /\ seen

\* One more than the sequence of the lease that was on file.
NextOfLease(s) == lease[s].seq + 1

\* _next_sequence: one more than the persisted sequence, never below any record's.
NextSequence(s) == sequence + 1
\* open_session: whatever is on file and not live is renamed, and a new lease written.
OpenSession(p, s, seen) ==
    /\ life[p] # 0 /\ IsAt(p, "idle") /\ mine[p] = NoLease /\ sequence < MaxSequence
    /\ ~seen => Fault
    /\ seen => failures' = failures
    /\ ~LeaseIsLive(lease[s], seen)
    /\ sequence' = NextSequence(s)
    /\ lease' = [lease EXCEPT ![s] = [life |-> life[p], seq |-> NextSequence(s)]]
    /\ mine' = [mine EXCEPT ![p] = lease'[s]]
    /\ misjudged' = (misjudged \/ Living(lease[s].life))
    /\ step' = [step EXCEPT ![p].sess = s]
    /\ UNCHANGED <<life, lives, driving, scratch>>

\* open_session dies after the rename, or after the sequence was drawn.
OpenTorn(p, s, drawn) ==
    /\ life[p] # 0 /\ IsAt(p, "idle") /\ mine[p] = NoLease /\ ~LeaseIsLive(lease[s], TRUE)
    /\ sequence < MaxSequence /\ Fault
    /\ sequence' = IF drawn THEN NextSequence(s) ELSE sequence
    /\ lease' = [lease EXCEPT ![s] = NoLease]
    /\ life' = [life EXCEPT ![p] = 0] /\ step' = [step EXCEPT ![p] = NoStep]
    /\ UNCHANGED <<lives, mine, misjudged, driving, scratch>>

\* close_session of the registry: only with the token of the lease on file.
CloseSession(p) ==
    /\ IsAt(p, "idle") /\ mine[p] # NoLease
    /\ ~(driver.life = life[p] /\ driver.sess = step[p].sess /\ ~driver.released)
    /\ lease' = IF lease[step[p].sess] = mine[p]
                THEN [lease EXCEPT ![step[p].sess] = NoLease] ELSE lease
    /\ mine' = [mine EXCEPT ![p] = NoLease]
    /\ step' = [step EXCEPT ![p].sess = "none"]
    /\ UNCHANGED <<life, lives, sequence, misjudged, driving, scratch, failures>>

-----------------------------------------------------------------------------
(* The driver lease                                                        *)

NamesLease(d, p) == d.sess = step[p].sess /\ d.life = life[p]

\* _driver_liveness: what cannot be judged is neither live nor dead.
DriverLiveness(d, seen) ==
    CASE ~Living(d.life) -> "DEAD"
      [] Living(d.life) /\ ~seen -> "UNKNOWN"
      [] Living(d.life) /\ seen /\ lease[d.sess] = NoLease -> "DEAD"
      [] Living(d.life) /\ seen /\ lease[d.sess].life = d.life -> "LIVE"
      [] OTHER -> "UNKNOWN"

\* What cannot be judged is superseded, too.
SupersededUnlessLive(d, seen) == d.released \/ DriverLiveness(d, seen) # "LIVE"

\* _advance_driver: whose record may be superseded.
Superseded(d, seen) == d.released \/ DriverLiveness(d, seen) = "DEAD"

\* coordinate: the session's lease is the one in hand; this is checked without the lock.
Coordinate(p) ==
    /\ IsAt(p, "idle") /\ mine[p] # NoLease /\ lease[step[p].sess] = mine[p]
    /\ Go(p, "checked")
    /\ UNCHANGED <<life, lives, mine, leases, driving, scratch, failures>>

\* coordinate: lock, and refuse, keep or supersede the driver lease.  A superseded
\* record is renamed first; the new one is published over the free name.
Advance(p, seen) ==
    /\ IsAt(p, "checked") /\ drvLock = Free
    /\ driver # NoDriver => driver.seq < MaxSequence
    /\ ~seen => Fault
    /\ seen => failures' = failures
    /\ \/ /\ driver = NoDriver
          /\ driver' = [sess |-> step[p].sess, life |-> life[p], seq |-> 1, released |-> FALSE]
          /\ Go(p, "working") /\ UNCHANGED drvLock
       \/ /\ driver # NoDriver /\ ~Superseded(driver, seen)
          /\ IF DriverLiveness(driver, seen) = "LIVE" /\ NamesLease(driver, p)
             THEN /\ driver' = [driver EXCEPT !.seq = @ + 1]
                  /\ Go(p, "working")
             ELSE /\ Go(p, "idle") /\ UNCHANGED driver
          /\ UNCHANGED drvLock
       \/ /\ driver # NoDriver /\ Superseded(driver, seen)
          /\ drvLock' = p /\ step' = [step EXCEPT ![p].at = "publishing", ![p].n = driver.seq + 1]
          /\ driver' = NoDriver
    /\ UNCHANGED <<life, lives, mine, leases, scratch>>

Publish(p) ==
    /\ IsAt(p, "publishing")
    /\ driver' = [sess |-> step[p].sess, life |-> life[p], seq |-> step[p].n,
                  released |-> FALSE]
    /\ drvLock' = Free
    /\ step' = [step EXCEPT ![p].at = "working", ![p].n = 0]
    /\ UNCHANGED <<life, lives, mine, leases, scratch, failures>>

\* fn runs after the lock is given back.
Work(p) ==
    /\ IsAt(p, "working") /\ Go(p, "idle")
    /\ UNCHANGED <<life, lives, mine, leases, driving, scratch, failures>>

\* release_driver: the record is renamed, then written again as released.
ReleaseDriver(p) ==
    /\ IsAt(p, "idle") /\ mine[p] # NoLease /\ drvLock = Free
    /\ NamesLease(driver, p) /\ ~driver.released
    /\ drvLock' = p
    /\ step' = [step EXCEPT ![p].at = "releasing", ![p].n = driver.seq]
    /\ driver' = NoDriver
    /\ UNCHANGED <<life, lives, mine, leases, scratch, failures>>
Released(p) ==
    /\ IsAt(p, "releasing")
    /\ driver' = [sess |-> step[p].sess, life |-> life[p], seq |-> step[p].n, released |-> TRUE]
    /\ drvLock' = Free /\ step' = [step EXCEPT ![p].at = "idle", ![p].n = 0]
    /\ UNCHANGED <<life, lives, mine, leases, scratch, failures>>

-----------------------------------------------------------------------------
(* Temporary workspaces                                                    *)

\* create: the session's live lease is this process's own; then the reservation.
ReserveWs(p, w) ==
    /\ IsAt(p, "idle") /\ mine[p] # NoLease /\ lease[step[p].sess].life = life[p]
    /\ ws[w] = NoWs /\ dir[w] = "none" /\ step[p].ws = "none"
    /\ ws' = [ws EXCEPT ![w] = [state |-> "none", life |-> life[p], reserved |-> TRUE]]
    /\ step' = [step EXCEPT ![p].at = "rooting", ![p].ws = w]
    /\ UNCHANGED <<life, lives, mine, leases, driving, root, dir, filled, histories, failures>>

\* scratch_dir: made, recorded, indexed; one that exists unregistered is refused.
Root(p) ==
    /\ IsAt(p, "rooting") /\ root[step[p].sess] \in {"none", "indexed"}
    /\ lease[step[p].sess].life = life[p]
    /\ root' = [root EXCEPT ![step[p].sess] = "indexed"] /\ Go(p, "making")
    /\ UNCHANGED <<life, lives, mine, leases, driving, dir, filled, ws, histories, failures>>
\* The process dies between the directory and its index entry.
RootTorn(p) ==
    /\ IsAt(p, "rooting") /\ root[step[p].sess] = "none" /\ Fault
    /\ root' = [root EXCEPT ![step[p].sess] = "made"]
    /\ life' = [life EXCEPT ![p] = 0]
    /\ step' = [step EXCEPT ![p] = NoStep] /\ mine' = [mine EXCEPT ![p] = NoLease]
    /\ UNCHANGED <<lives, leases, driving, dir, filled, ws, histories>>

\* mkdtemp, durable_create of the record, and the record made ACTIVE; then the caller has it.
Make(p) ==
    /\ IsAt(p, "making") /\ dir' = [dir EXCEPT ![step[p].ws] = "own"] /\ Go(p, "recording")
    /\ UNCHANGED <<life, lives, mine, leases, driving, root, filled, ws, histories, failures>>
RecordWs(p) ==
    /\ IsAt(p, "recording") /\ ws' = [ws EXCEPT ![step[p].ws].state = "REGISTERED"]
    /\ Go(p, "activating")
    /\ UNCHANGED <<life, lives, mine, leases, driving, root, dir, filled, histories, failures>>
Activate(p) ==
    /\ IsAt(p, "activating") /\ ws' = [ws EXCEPT ![step[p].ws].state = "ACTIVE"]
    /\ step' = [step EXCEPT ![p].at = "idle", ![p].held = TRUE]
    /\ UNCHANGED <<life, lives, mine, leases, driving, root, dir, filled, histories, failures>>

Creating == {"rooting", "making", "recording", "activating"}
\* create fails on the way, whether or not the call that failed did its work; what is known
\* to be its own is cleaned, and the reservation given back.
CreateFails(p, did) ==
    /\ \/ IsAt(p, "rooting") /\ failures' = failures
          /\ (root[step[p].sess] = "made" \/ lease[step[p].sess].life # life[p])
       \/ step[p].at \in Creating /\ Fault
    /\ Go(p, IF step[p].at \in {"rooting", "making"} THEN "returning" ELSE "checking")
    /\ dir' = IF IsAt(p, "making") /\ did THEN [dir EXCEPT ![step[p].ws] = "own"] ELSE dir
    /\ ws' = CASE IsAt(p, "recording") /\ did -> [ws EXCEPT ![step[p].ws].state = "REGISTERED"]
               [] IsAt(p, "activating") /\ did -> [ws EXCEPT ![step[p].ws].state = "ACTIVE"]
               [] OTHER -> ws
    /\ UNCHANGED <<life, lives, mine, leases, driving, root, filled, histories>>

Fill(p) ==
    /\ IsAt(p, "idle") /\ step[p].ws # "none" /\ dir[step[p].ws] = "own"
    /\ filled' = filled \cup {step[p].ws}
    /\ UNCHANGED <<life, lives, mine, step, leases, driving, root, dir, ws, histories, failures>>

\* release: what is to be kept is only measured.
ReleaseWs(p, keep) ==
    /\ IsAt(p, "idle") /\ step[p].ws # "none"
    /\ Go(p, IF keep THEN "noting" ELSE "checking")
    /\ UNCHANGED <<life, lives, mine, leases, driving, scratch, failures>>

-----------------------------------------------------------------------------
(* _clean_workspace, and what release and a failed create do after it      *)

\* Where the cleanup's caller goes on.
Cleaned(p, removed) ==
    CASE step[p].held -> "noting" [] ~step[p].held /\ removed -> "discarding"
      [] OTHER -> "returning"

\* The name still is the directory that was registered.
Registered(w) == dir[w] = "own"
\* By name, then on the descriptor: what is not it, or cannot be judged, is left alone.
CheckWs(p) ==
    /\ IsAt(p, "checking")
    /\ LET w == step[p].ws IN
       \/ dir[w] = "none" /\ failures' = failures /\ Go(p, Cleaned(p, TRUE))
       \/ dir[w] # "none" /\ ~Registered(w) /\ failures' = failures /\ Go(p, Cleaned(p, FALSE))
       \/ Fault /\ Go(p, Cleaned(p, FALSE))
       \/ /\ dir[w] # "none" /\ Registered(w) /\ failures' = failures
          /\ step' = [step EXCEPT ![p].at = "emptying", ![p].fd = dir[w]]
    /\ UNCHANGED <<life, lives, mine, leases, driving, scratch>>

\* The tree under the path is emptied.
ReachesByPath(p, w) == TRUE

\* _remove_tree goes through the descriptor: the name may be somebody else's by now.
Reaches(p, w) == dir[w] = step[p].fd
EmptyWs(p) ==
    /\ IsAt(p, "emptying")
    /\ LET w == step[p].ws IN
       \/ /\ filled' = IF Reaches(p, w) THEN filled \ {w} ELSE filled
          /\ robbed' = IF Reaches(p, w) /\ dir[w] = "foreign" /\ w \in filled
                       THEN robbed \cup {w} ELSE robbed
          /\ step' = [step EXCEPT ![p].at = "unlinking", ![p].fd = "none"]
          /\ failures' = failures
       \/ /\ Fault /\ UNCHANGED <<filled, robbed>>
          /\ step' = [step EXCEPT ![p].at = Cleaned(p, FALSE), ![p].fd = "none"]
    /\ UNCHANGED <<life, lives, mine, leases, driving, root, dir, ws, unreturned>>

\* rmdir by the name: whatever empty directory lies there goes, and only an empty one.
RemoveWs(p) ==
    /\ IsAt(p, "unlinking")
    /\ LET w == step[p].ws IN
       \/ /\ dir[w] # "none" /\ w \notin filled
          /\ dir' = [dir EXCEPT ![w] = "none"] /\ Go(p, Cleaned(p, TRUE))
          /\ failures' = failures
       \/ /\ dir[w] = "none" \/ w \in filled
          /\ Go(p, Cleaned(p, FALSE)) /\ UNCHANGED <<dir, failures>>
       \/ Fault /\ Go(p, Cleaned(p, FALSE)) /\ UNCHANGED dir
    /\ UNCHANGED <<life, lives, mine, leases, driving, root, filled, ws, histories>>

\* _discard_own_record of a failed create; RELEASED in the record of a release.  Either may
\* fail, and that is at most noted.
EndRecord(p) ==
    /\ step[p].at \in {"discarding", "noting"} /\ Go(p, "returning")
    /\ \/ /\ ws' = [ws EXCEPT ![step[p].ws].state =
                       IF IsAt(p, "noting") THEN "RELEASED" ELSE "none"]
          /\ failures' = failures
       \/ Fault /\ UNCHANGED ws
    /\ UNCHANGED <<life, lives, mine, leases, driving, root, dir, filled, histories>>

\* _release_reservation: a ledger that fails is ignored, and the reservation stays.
GiveBack(p, w) ==
    \/ /\ ws' = [ws EXCEPT ![w].reserved = FALSE] /\ failures' = failures
       /\ UNCHANGED unreturned
    \/ /\ Fault /\ unreturned' = unreturned \cup {w} /\ UNCHANGED ws
ReturnWs(p) ==
    /\ IsAt(p, "returning") /\ GiveBack(p, step[p].ws)
    /\ step' = [step EXCEPT ![p] = [NoStep EXCEPT !.sess = step[p].sess]]
    /\ UNCHANGED <<life, lives, mine, leases, driving, root, dir, filled, robbed>>

-----------------------------------------------------------------------------
\* A process starts; one dies.
Begin(p) ==
    /\ life[p] = 0 /\ lives < MaxLives /\ lives' = lives + 1
    /\ life' = [life EXCEPT ![p] = lives + 1]
    /\ mine' = [mine EXCEPT ![p] = NoLease] /\ step' = [step EXCEPT ![p] = NoStep]
    /\ UNCHANGED <<leases, driving, scratch, failures>>
Die(p) ==
    /\ life[p] # 0 /\ Fault
    /\ life' = [life EXCEPT ![p] = 0] /\ mine' = [mine EXCEPT ![p] = NoLease]
    /\ step' = [step EXCEPT ![p] = NoStep] /\ drvLock' = IF drvLock = p THEN Free ELSE drvLock
    /\ UNCHANGED <<lives, leases, driver, scratch>>
\* Somebody renames the workspace away, and may put a directory of his own in its place.
Swap(w, by, full) ==
    /\ dir[w] = "own" /\ Fault /\ (full => by = "foreign")
    /\ dir' = [dir EXCEPT ![w] = by]
    /\ filled' = IF full THEN filled \cup {w} ELSE filled \ {w}
    /\ UNCHANGED <<life, lives, mine, step, leases, driving, root, ws, histories>>

CreateStep(p) == \/ Root(p) \/ Make(p) \/ RecordWs(p) \/ Activate(p)
                 \/ \E did \in BOOLEAN : CreateFails(p, did)
CleanStep(p) == CheckWs(p) \/ EmptyWs(p) \/ RemoveWs(p) \/ EndRecord(p) \/ ReturnWs(p)
DriverStep(p) == \/ \E seen \in BOOLEAN : Advance(p, seen)
                 \/ Publish(p) \/ Work(p) \/ Released(p)

SessNext ==
    \/ \E p \in Proc, s \in Session : \/ \E seen \in BOOLEAN : OpenSession(p, s, seen)
                                      \/ \E drawn \in BOOLEAN : OpenTorn(p, s, drawn)
    \/ \E p \in Proc : \/ CloseSession(p) \/ Coordinate(p) \/ DriverStep(p)
                       \/ ReleaseDriver(p) \/ CreateStep(p) \/ RootTorn(p) \/ Fill(p)
                       \/ CleanStep(p) \/ Begin(p) \/ Die(p)
    \/ \E p \in Proc, w \in Workspace : ReserveWs(p, w)
    \/ \E p \in Proc, keep \in BOOLEAN : ReleaseWs(p, keep)
    \/ \E w \in Workspace, by \in {"none", "foreign"}, full \in BOOLEAN : Swap(w, by, full)

SessSpec == SessInit /\ [][SessNext]_sessVars

-----------------------------------------------------------------------------
(* Properties                                                              *)

Lease == [life : Nat, seq : Nat]
DriverRecord == [sess : Session \cup {"none"}, life : Nat, seq : Nat, released : BOOLEAN]
Cleaning == {"checking", "emptying", "unlinking", "discarding", "noting", "returning"}
Driving == {"checked", "working", "publishing", "releasing"}
Dir == {"none", "own", "foreign"}
Place == [at : {"idle"} \cup Driving \cup Creating \cup Cleaning,
          sess : Session \cup {"none"}, ws : Workspace \cup {"none"}, held : BOOLEAN,
          fd : Dir, n : Nat]
WsRecord == [state : {"none", "REGISTERED", "ACTIVE", "RELEASED"}, life : Nat,
             reserved : BOOLEAN]

SessTypeOK ==
    /\ life \in [Proc -> Nat] /\ lives \in Nat /\ mine \in [Proc -> Lease]
    /\ step \in [Proc -> Place]
    /\ lease \in [Session -> Lease] /\ sequence \in Nat /\ misjudged \in BOOLEAN
    /\ driver \in DriverRecord /\ drvLock \in Proc \cup {Free}
    /\ root \in [Session -> {"none", "made", "indexed"}]
    /\ dir \in [Workspace -> Dir] /\ filled \subseteq Workspace
    /\ ws \in [Workspace -> WsRecord]

\* One driving session per project: no two live processes work at the same time,
\* whatever leases were taken over or closed meanwhile.  A driver lease that cannot be
\* judged is left alone; a session lease that cannot be judged is taken, and then two may.
OneDriver ==
    ~misjudged => \A p, q \in Proc : IsAt(p, "working") /\ IsAt(q, "working") => p = q

\* The lease of a session never goes back: a later lease has a higher sequence, also
\* after an open_session that died between its writes.
LeasesGrow ==
    [][\A s \in Session : lease'[s] # lease[s] /\ lease'[s] # NoLease
                             => \A t \in Session : lease'[s].seq > lease[t].seq]_sessVars

\* A workspace is its creator's from its first byte to its last.  Whatever is put under its
\* name between the checks of a cleanup and its removals, somebody else's content stays (an
\* empty directory may go with the name).  Content never lies where no record says whose it
\* is.  And a reservation of a live process is that of the workspace it makes, holds or
\* cleans, also when the creation fails or the cleanup stops, except for those the ledger
\* failed to take back: that failure is swallowed, and they stay until the process ends.
NothingForeignRemoved == robbed = {}
ContentIsRecorded ==
    \A w \in filled : dir[w] = "own" => ws[w].state \in {"ACTIVE", "RELEASED"}
ReservationsAreInUse ==
    \A w \in Workspace \ unreturned :
       ws[w].reserved /\ Living(ws[w].life)
          => \E p \in Proc : life[p] = ws[w].life /\ step[p].ws = w
WorkspacesAreOwned == NothingForeignRemoved /\ ContentIsRecorded /\ ReservationsAreInUse

\* One session drives a project, and each directory is one session's.
OwnershipIsKept == OneDriver /\ WorkspacesAreOwned

-----------------------------------------------------------------------------
(* Why it is so: an invariant that every step keeps                        *)

\* No two processes are one life, and none is a life that was not begun.
LivesInv ==
    \A p \in Proc : /\ life[p] <= lives
                    /\ \A q \in Proc : life[p] # 0 /\ life[p] = life[q] => p = q
\* Who is down has nothing in hand and is nowhere; who is under way has a lease of its own.
HandsInv ==
    \A p \in Proc :
       /\ life[p] = 0 => step[p] = NoStep
       /\ step[p].at \in Driving \cup Creating => mine[p] # NoLease
       /\ mine[p] # NoLease => /\ life[p] # 0 /\ mine[p].life = life[p]
                               /\ step[p].sess \in Session
SequenceInv == \A s \in Session : lease[s].seq <= sequence
\* A lease in hand is the one on file, as long as nobody took a live one.
LeaseInHand ==
    ~misjudged => \A p \in Proc : mine[p] # NoLease => lease[step[p].sess] = mine[p]
\* The free name of the driver lease is guarded by the lock of whoever renamed it.
RenamedUnderLock ==
    \A p \in Proc : step[p].at \in {"publishing", "releasing"}
                        => drvLock = p /\ driver = NoDriver
\* Who works is the driver on file.
WorkerIsDriver ==
    ~misjudged => \A p \in Proc : IsAt(p, "working") => NamesLease(driver, p) /\ ~driver.released
\* Where a creation is, and what lies there by then.
CreationInv ==
    \A p \in Proc : \A w \in Workspace : step[p].ws = w =>
       /\ ws[w].reserved /\ ws[w].life = life[p]
       /\ step[p].at \in {"rooting", "making"} => dir[w] = "none"
       /\ step[p].held => ws[w].state \in {"ACTIVE", "RELEASED"}
       /\ ~step[p].held => (dir[w] = "own" => w \notin filled)
\* Where a process is and what it has in hand; a cleanup is in its own directory.
PlaceInv ==
    \A p \in Proc :
       /\ step[p].at \in Creating \cup Cleaning => step[p].ws \in Workspace
       /\ step[p].at \in Creating => ~step[p].held
       /\ step[p].at \notin Creating \cup Cleaning /\ step[p].ws # "none" => step[p].held
       /\ step[p].at = "discarding" => ~step[p].held
       /\ step[p].at = "emptying" => step[p].fd = "own"
ReservedInv ==
    \A w \in Workspace :
       /\ ws[w].life <= lives /\ (dir[w] = "none" => w \notin filled)
       /\ ws[w].reserved => ws[w].life # 0
       /\ ws[w].reserved /\ w \notin unreturned
             => \A p \in Proc : life[p] = ws[w].life => step[p].ws = w
\* The leases; the driver; the workspaces.
LeasesInv == LivesInv /\ HandsInv /\ SequenceInv /\ LeaseInHand
DriverInv == RenamedUnderLock /\ WorkerIsDriver
ScratchInv ==
    CreationInv /\ PlaceInv /\ ReservedInv /\ NothingForeignRemoved /\ ContentIsRecorded
SessInv == SessTypeOK /\ LeasesInv /\ DriverInv /\ ScratchInv
=============================================================================
