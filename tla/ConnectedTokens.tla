--------------------------- MODULE ConnectedTokens ---------------------------
(***************************************************************************)
(* The advisory lock file (src/file-lock.ts), the store of connected       *)
(* providers that is only written under it (connected-providers/store.ts)  *)
(* and the refresh of their tokens (connected-providers/tokens.ts).        *)
(*                                                                         *)
(* A client is one caller of withLock: a process, a provider and whether   *)
(* it refreshes or edits; the refreshes of one process and provider are    *)
(* coalesced, so they are one client. A record is the number of its        *)
(* credentials, 0 for no record; eligibility and wording are left out. A   *)
(* provider whose list of models may be outdated (pendingCatalogRefresh)   *)
(* is refreshed although its token is fresh when it does not rotate. The   *)
(* issuers are external.                                                   *)
(***************************************************************************)
EXTENDS Integers, FiniteSets

CONSTANTS
  Proc, Provider,
  Rotating,     (* providers whose issuer spends a refresh token by its use *)
  Client,       (* <<process, provider, kind>>                             *)
  MaxMinted,    (* bound: credentials an issuer hands out per provider     *)
  MaxCrashes,   (* bound: processes that die                               *)
  MaxOverstays  (* bound: operations that outlive DEFAULT_STALE_LOCK_MS    *)

Kind == {"refresh", "edit"}

ASSUME TokensAssumption ==
  /\ Rotating \subseteq Provider
  /\ Client \subseteq Proc \X Provider \X Kind
  /\ MaxMinted \in Nat \ {0} /\ MaxCrashes \in Nat /\ MaxOverstays \in Nat

VARIABLES
  lock,         (* the lock file: who created it and whether it is stale   *)
  store,        (* connected-providers.json                                *)
  live,         (* refresh tokens the issuers still take                   *)
  minted,       (* the latest credentials of each provider                 *)
  expired,      (* access tokens up to this one are not fresh              *)
  up,           (* each process: not started, running or dead              *)
  stage, doc, next,   (* each client: its place, the document, its change  *)
  cache,        (* each process: the token manager's cache                 *)
  lost,         (* history: tokens spent for an answer that was not stored *)
  overstays,    (* history: locks that got stale while their holder worked *)
  without,      (* clients at work whose lock file is gone                 *)
  robbed        (* history: a lock file was unlinked under its holder      *)

issuer == <<live, minted>>
clients == <<stage, doc, next>>
robbery == <<overstays, without, robbed>>
vars == <<lock, store, issuer, expired, up, clients, cache, lost, robbery>>

Credentials == 0 .. MaxMinted
Keep == -1      (* the change of an edit that rewrites what it reads *)
Document == [Provider -> Credentials]
NoDocument == [v \in Provider |-> 0]
NoLock == [by |-> <<>>, stale |-> FALSE]

(* "try" and "again" are the two attempts of acquireFileLock, "found" and  *)
(* "found again" are between isStaleLock and unlinkSync; an operation that *)
(* brings nothing for the cache is "rewriting" and "leaving" instead of    *)
(* "writing" and "releasing".                                              *)
Synchronous == {"found", "again", "found again"}
Critical == {"reading", "asking", "writing", "rewriting", "releasing", "leaving"}
Stages == {"idle", "try"} \cup Synchronous \cup Critical

Fresh(v, g) == g > expired[v]

Init ==
  /\ lock = NoLock
  /\ store \in [Provider -> {0, 1}]
  /\ live = {<<v, 1>> : v \in Provider}
  /\ minted = [v \in Provider |-> 1]
  /\ expired = [v \in Provider |-> 0]
  /\ up = [p \in Proc |-> "new"]
  /\ stage = [c \in Client |-> "idle"]
  /\ doc = [c \in Client |-> NoDocument]
  /\ next = [c \in Client |-> 0]
  /\ cache = [p \in Proc |-> NoDocument]
  /\ lost = {}
  /\ overstays = 0 /\ without = {} /\ robbed = FALSE

(* loadSnapshot at boot, without the lock: fresh tokens are cached.        *)
LoadSnapshot(p) ==
  /\ up[p] = "new" /\ up' = [up EXCEPT ![p] = "up"]
  /\ cache' = [cache EXCEPT ![p] =
       [v \in Provider |-> IF Fresh(v, store[v]) THEN store[v] ELSE 0]]
  /\ UNCHANGED <<lock, store, issuer, expired, clients, lost, robbery>>

(***************************************************************************)
(* Calls of withLock.                                                      *)
(***************************************************************************)
To(c, s) == stage' = [stage EXCEPT ![c] = s]

(* ensureFreshToken: what is cached and fresh needs no lock.               *)
EnsureFreshToken(c) ==
  LET p == c[1]
      v == c[2]
      cached == cache[p][v] # 0 /\ Fresh(v, cache[p][v])
  IN /\ c[3] = "refresh" /\ (cached => v \notin Rotating)
     /\ UNCHANGED issuer /\ next' = [next EXCEPT ![c] = Keep]

(* A pass that the provider refused marks the record of the token it used. *)
MarkReconnectNeeded(c) ==
  /\ c[3] = "edit" /\ cache[c[1]][c[2]] # 0
  /\ UNCHANGED issuer /\ next' = [next EXCEPT ![c] = Keep]

(* connect logs in first and takes its credentials to the lock.            *)
Connect(c) ==
  /\ c[3] = "edit" /\ minted[c[2]] < MaxMinted
  /\ minted' = [minted EXCEPT ![c[2]] = @ + 1]
  /\ live' = live \cup {<<c[2], minted[c[2]] + 1>>}
  /\ next' = [next EXCEPT ![c] = minted[c[2]] + 1]

Disconnect(c) ==
  c[3] = "edit" /\ UNCHANGED issuer /\ next' = [next EXCEPT ![c] = 0]

Call(c) ==
  /\ up[c[1]] = "up" /\ stage[c] = "idle" /\ To(c, "try")
  /\ EnsureFreshToken(c) \/ MarkReconnectNeeded(c) \/ Connect(c) \/ Disconnect(c)
  /\ UNCHANGED <<lock, store, expired, up, doc, cache, lost, robbery>>

(***************************************************************************)
(* acquireFileLock, one system call a step; it does not await, so no other *)
(* client of its process runs between them.                                *)
(***************************************************************************)
MayRun(c) ==
  \A d \in Client : d # c /\ d[1] = c[1] => stage[d] \notin Synchronous

LockStep == UNCHANGED <<store, issuer, expired, up, doc, next, cache, lost, overstays>>

(* Whose file a client removes that unlinks the lock: that of a holder who *)
(* still works under it, or one nobody works under.                        *)
RobbedBy(c) == {d \in Client \ {c} : d = lock.by /\ stage[d] \in Critical}
Unlink(c) ==
  /\ lock' = NoLock
  /\ without' = (without \cup RobbedBy(c)) \ {c} /\ robbed' = (robbed \/ RobbedBy(c) # {})

(* openSync(lockPath, "wx") creates the file.                              *)
Acquire(c) ==
  /\ stage[c] \in {"try", "again"} /\ MayRun(c)
  /\ lock = NoLock /\ lock' = [by |-> c, stale |-> FALSE]
  /\ To(c, "reading") /\ LockStep /\ UNCHANGED <<without, robbed>>

AlwaysStale == lock # NoLock
IsStaleLock == lock.stale

(* EEXIST: a fresh lock is waited for, a stale one is to be unlinked.      *)
Busy(c) ==
  /\ stage[c] \in {"try", "again"} /\ MayRun(c)
  /\ lock # NoLock /\ ~IsStaleLock
  /\ To(c, "try") /\ LockStep /\ UNCHANGED <<lock, without, robbed>>

FindStale(c) ==
  /\ stage[c] \in {"try", "again"} /\ MayRun(c) /\ IsStaleLock
  /\ To(c, IF stage[c] = "try" THEN "found" ELSE "found again")
  /\ LockStep /\ UNCHANGED <<lock, without, robbed>>

(* unlinkSync removes whatever file has the name by now; if there is none, *)
(* or if this was the second attempt, the caller polls.                    *)
Reclaim(c) ==
  /\ stage[c] \in {"found", "found again"} /\ Unlink(c)
  /\ To(c, IF stage[c] = "found" /\ lock # NoLock THEN "again" ELSE "try")
  /\ LockStep

(***************************************************************************)
(* Under the lock.                                                         *)
(***************************************************************************)
Under(c, s) == stage[c] = s /\ MayRun(c)

(* The refresh looks again at what is stored now: another process may have *)
(* refreshed.                                                              *)
ReadToRefresh(c, current) ==
  \E outdated \in IF c[2] \in Rotating THEN {FALSE} ELSE BOOLEAN :
    To(c, IF current = 0 \/ (Fresh(c[2], current) /\ ~outdated) THEN "writing" ELSE "asking")

ReadIgnored(c) ==
  /\ Under(c, "reading") /\ doc' = [doc EXCEPT ![c] = store]
  /\ IF c[3] = "refresh" THEN ReadToRefresh(c, store[c[2]])
     ELSE To(c, "rewriting")
  /\ UNCHANGED <<lock, store, issuer, expired, up, next, cache, lost, robbery>>

(* withLock reads the whole document and gives mutate its record.          *)
ReadDocument(c) ==
  /\ Under(c, "reading") /\ doc' = [doc EXCEPT ![c] = store]
  /\ next' = [next EXCEPT ![c] = IF @ = Keep THEN store[c[2]] ELSE @]
  /\ IF c[3] = "refresh" THEN ReadToRefresh(c, store[c[2]])
     ELSE To(c, "rewriting")
  /\ UNCHANGED <<lock, store, issuer, expired, up, cache, lost, robbery>>

(* What a client refreshes with.                                           *)
Grant(c) == <<c[2], doc[c][c[2]]>>

PatchAccessOnly(c) ==
  /\ Under(c, "asking") /\ Grant(c) \in live /\ minted[c[2]] < MaxMinted
  /\ minted' = [minted EXCEPT ![c[2]] = @ + 1]
  /\ live' = (IF c[2] \in Rotating THEN live \ {Grant(c)} ELSE live)
                \cup {<<c[2], minted[c[2]] + 1>>}
  /\ To(c, "writing")
  /\ UNCHANGED <<lock, store, expired, up, doc, next, cache, lost, robbery>>

(* The issuer answers with complete credentials; a rotating one spends the *)
(* token it was asked with.                                                *)
Refreshed(c) ==
  /\ Under(c, "asking") /\ Grant(c) \in live /\ minted[c[2]] < MaxMinted
  /\ minted' = [minted EXCEPT ![c[2]] = @ + 1]
  /\ live' = (IF c[2] \in Rotating THEN live \ {Grant(c)} ELSE live)
                \cup {<<c[2], minted[c[2]] + 1>>}
  /\ next' = [next EXCEPT ![c] = minted[c[2]] + 1]
  /\ To(c, "writing")
  /\ UNCHANGED <<lock, store, expired, up, doc, cache, lost, robbery>>

(* The issuer refuses the token: the record is rewritten as "unknown" and  *)
(* the caller gets the error.                                              *)
Refused(c) ==
  /\ Under(c, "asking") /\ Grant(c) \notin live
  /\ To(c, "rewriting")
  /\ UNCHANGED <<lock, store, issuer, expired, up, doc, next, cache, lost, robbery>>

(* No answer: withLock throws; the issuer may have spent the token.        *)
Unanswered(c) ==
  /\ Under(c, "asking") /\ To(c, "leaving")
  /\ \/ UNCHANGED <<live, lost>>
     \/ /\ c[2] \in Rotating /\ Grant(c) \in live
        /\ live' = live \ {Grant(c)} /\ lost' = lost \cup {Grant(c)}
  /\ UNCHANGED <<lock, store, minted, expired, up, doc, next, cache, robbery>>

(* writeDocument renames a complete document into place, or fails before;  *)
(* when the chmod after the rename throws, the document stays.             *)
WriteDocument(c) ==
  /\ stage[c] \in {"writing", "rewriting"} /\ MayRun(c)
  /\ store' = [doc[c] EXCEPT ![c[2]] = next[c]]
  /\ \/ To(c, IF stage[c] = "writing" THEN "releasing" ELSE "leaving")
     \/ To(c, "leaving")
  /\ UNCHANGED <<lock, issuer, expired, up, doc, next, cache, lost, robbery>>

(* What is lost with a client that does not write the answer it got.       *)
Unwritten(c) ==
  IF stage[c] = "writing" /\ Grant(c)[2] # 0 /\ Grant(c) \notin live THEN {Grant(c)} ELSE {}

WriteFails(c) ==
  /\ stage[c] \in {"writing", "rewriting"} /\ MayRun(c)
  /\ lost' = lost \cup Unwritten(c) /\ To(c, "leaving")
  /\ UNCHANGED <<lock, store, issuer, expired, up, doc, next, cache, robbery>>

Ended(cs) ==
  /\ stage' = [c \in Client |-> IF c \in cs THEN "idle" ELSE stage[c]]
  /\ doc' = [c \in Client |-> IF c \in cs THEN NoDocument ELSE doc[c]]
  /\ next' = [c \in Client |-> IF c \in cs THEN 0 ELSE next[c]]

(* releaseFileLock unlinks the name, whoever's file it is by now; then a   *)
(* refresh caches its token, or forgets the one of a removed record.       *)
Release(c) ==
  /\ stage[c] \in {"releasing", "leaving"} /\ MayRun(c)
  /\ cache' = IF stage[c] = "leaving" THEN cache
              ELSE [cache EXCEPT ![c[1]][c[2]] = next[c]]
  /\ Unlink(c) /\ Ended({c})
  /\ UNCHANGED <<store, issuer, expired, up, lost, overstays>>

(***************************************************************************)
(* The environment: tokens expire, processes die, an abandoned lock ages.  *)
(***************************************************************************)
Expire(v) ==
  /\ expired[v] < minted[v] /\ expired' = [expired EXCEPT ![v] = @ + 1]
  /\ UNCHANGED <<lock, store, issuer, up, clients, cache, lost, robbery>>

Crashes == {p \in Proc : up[p] = "dead"}

Crash(p) ==
  LET own == {c \in Client : c[1] = p}
  IN /\ up[p] = "up" /\ Cardinality(Crashes) < MaxCrashes
     /\ up' = [up EXCEPT ![p] = "dead"]
     /\ Ended(own) /\ lost' = lost \cup UNION {Unwritten(c) : c \in own}
     /\ cache' = [cache EXCEPT ![p] = NoDocument]
     /\ without' = without \ own
     /\ UNCHANGED <<lock, store, issuer, expired, overstays, robbed>>

NeverAges == FALSE /\ UNCHANGED vars

(* By its payload or, when that is unreadable, by the age of the file: the *)
(* lock of a process that died, or of a holder that takes too long, as no  *)
(* request to an issuer has a timeout.                                     *)
Age ==
  LET slow == up[lock.by[1]] # "dead"
  IN /\ lock # NoLock /\ ~lock.stale /\ (slow => overstays < MaxOverstays)
     /\ lock' = [by |-> lock.by, stale |-> TRUE]
     /\ overstays' = IF slow THEN overstays + 1 ELSE overstays
     /\ UNCHANGED <<store, issuer, expired, up, clients, cache, lost, without, robbed>>

AcquireFileLock(c) == Acquire(c) \/ Busy(c) \/ FindStale(c) \/ Reclaim(c)
Ask(c) == Refreshed(c) \/ Refused(c) \/ Unanswered(c)
Operation(c) == ReadDocument(c) \/ Ask(c) \/ WriteDocument(c) \/ WriteFails(c) \/ Release(c)

Next ==
  \/ \E c \in Client : Call(c) \/ AcquireFileLock(c) \/ Operation(c)
  \/ \E p \in Proc : LoadSnapshot(p) \/ Crash(p)
  \/ \E v \in Provider : Expire(v)
  \/ Age

Spec == Init /\ [][Next]_vars

(* A process runs on, an issuer answers or fails, a lock nobody owns gets  *)
(* old; a client that polls finds the lock free at times.                  *)
FairSpec ==
  /\ Spec /\ WF_vars(Age)
  /\ \A c \in Client : WF_vars(Operation(c)) /\ SF_vars(AcquireFileLock(c))

(***************************************************************************)
(* Properties.                                                             *)
(***************************************************************************)

(* The type invariant of the store, its lock and its clients.              *)
TypeOK ==
  /\ lock \in [by : Client \cup {<<>>}, stale : BOOLEAN]
  /\ store \in Document /\ lost \subseteq Provider \X Credentials
  /\ live \subseteq Provider \X Credentials
  /\ minted \in Document /\ expired \in Document
  /\ up \in [Proc -> {"new", "up", "dead"}]
  /\ stage \in [Client -> Stages]
  /\ doc \in [Client -> Document] /\ next \in [Client -> Credentials \cup {Keep}]
  /\ cache \in [Proc -> Document]
  /\ overstays \in 0 .. MaxOverstays /\ without \subseteq Client /\ robbed \in BOOLEAN

(* A holder died and two other processes were there to reclaim its file.   *)
TwoReclaimers ==
  \E p, q, r \in Proc :
    up[p] = "dead" /\ up[q] # "new" /\ up[r] # "new" /\ p # q /\ p # r /\ q # r

(* Between the read and the write of the store one client works alone, in  *)
(* whatever process (withLock, acquireFileLock), but beside one whose lock *)
(* file was unlinked under it. And that takes more than a crash: a holder  *)
(* that outlived the limit, or a dead one and two processes at its file    *)
(* (src/file-lock.ts:44).                                                  *)
OneHolder ==
  /\ \A c, d \in Client :
       c # d /\ {stage[c], stage[d]} \subseteq Critical => without \cap {c, d} # {}
  /\ robbed => overstays > 0 \/ TwoReclaimers

(* As long as no lock file is unlinked under its holder, crashes, failed   *)
(* writes and takeovers do not cost a connection: the stored refresh token *)
(* is one its issuer still takes, unless it was spent for an answer that   *)
(* never arrived or was never written; meanwhile its successor is on the   *)
(* way (ensureFreshToken).                                                 *)
GrantKept ==
  robbed \/ \A v \in Provider :
    \/ store[v] = 0
    \/ <<v, store[v]>> \in live \cup lost
    \/ \E c \in Client : stage[c] = "writing" /\ Grant(c) = <<v, store[v]>>

(* Every call of withLock returns, unless its process dies: also the ones  *)
(* that wait behind a holder that died (withLock, isStaleLock).            *)
CallsReturn == \A c \in Client : stage[c] = "try" ~> stage[c] = "idle"
==============================================================================
