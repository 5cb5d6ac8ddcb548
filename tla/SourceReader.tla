---------------------------- MODULE SourceReader ----------------------------
(***************************************************************************)
(* dashboard/server.py: how a request of the public API assembles one       *)
(* answer from several published files that are replaced under it, without *)
(* a lock on them.  The signature of all files is taken before and after;  *)
(* parts are kept in caches keyed by a signature; the warm-up at start      *)
(* builds the first answer and the health check reports whether it is good. *)
(*                                                                         *)
(* Files are replaced by the publications of CollectionCycle, DailyImport  *)
(* and AtomicBundle, also rolled back by them.  A file's stamp (modification*)
(* and change time, size, inode) is never used twice.                      *)
(***************************************************************************)
EXTENDS Naturals, FiniteSets

CONSTANTS
  N,         \* published files, in the order their stamps are taken
  Contents,  \* what a file can say
  Requests,  \* HTTP requests of the public API
  Warmups,   \* threads that warm the summary
  Probes,    \* requests of /health
  Route,     \* the route of a request or a warm-up
  Attempts,  \* of a request to find its sources unchanged, 3 in the code
  Changes,   \* publications of single files
  None       \* nothing yet

Threads  == Requests \cup Warmups
Files    == 1 .. N

ASSUME ReaderOK ==
  /\ N \in Nat \ {0}
  /\ Contents # {}
  /\ Changes \in Nat
  /\ Attempts \in Nat \ {0}
  /\ Requests \cap Warmups = {}
  /\ Probes \cap Threads = {}
  /\ None \notin Contents \cup Threads
  /\ None \notin [Files -> Nat]

VARIABLES
  now,         \* publications so far
  stamp,       \* of every file, unique
  content,     \* of every file
  loaded,      \* parsed files: <<file, stamp, content>>
  payloads,    \* assembled payloads: <<signature, contents>>
  responses,   \* encoded responses: <<route, signature, contents>>
  generation,  \* the signature the caches are kept for
  pc, at,      \* where a thread is, and at which file
  attempt,
  signature,   \* the stamps a thread has collected for its attempt
  seen,        \* the stamp of the file it is about to open
  got,         \* the contents its answer is made of
  token,       \* the stamps a warm-up or probe has collected
  warmRun, warmStatus, warmToken, warmGeneration,  \* the warm-up state
  expected, reported,  \* what a probe read from the warm-up state
  snapshot,    \* the contents when the signature was complete (auxiliary)
  moment,      \* the stamps when a probe read the warm-up state (auxiliary)
  since        \* the publications before a request began (auxiliary)

sources == <<now, stamp, content>>
caches  == <<loaded, payloads, responses, generation>>
probe   == <<expected, reported>>
build   == <<signature, seen, got, snapshot>>
warm    == <<warmRun, warmStatus, warmToken, warmGeneration>>
vars == <<sources, caches, pc, at, attempt, build, token, warm, probe, moment, since>>

Unknown == [f \in Files |-> 0]
Unread  == [f \in Files |-> None]

Init ==
  /\ now = 0
  /\ stamp = Unknown
  /\ content \in [Files -> Contents]
  /\ loaded = {} /\ payloads = {} /\ responses = {}
  /\ generation = None
  /\ pc = [t \in Threads \cup Probes |-> "idle"]
  /\ at = [t \in Threads \cup Probes |-> 1]
  /\ attempt = [t \in Threads |-> 1]
  /\ signature = [t \in Threads |-> Unknown]
  /\ seen = [t \in Threads |-> 0]
  /\ got = [t \in Threads |-> Unread]
  /\ token = [t \in Warmups \cup Probes |-> Unknown]
  /\ warmRun = None /\ warmStatus = "warming"
  /\ warmToken = Unknown /\ warmGeneration = None
  /\ expected = [t \in Probes |-> Unknown]
  /\ reported = [t \in Probes |-> None]
  /\ snapshot = [t \in Threads |-> Unread]
  /\ moment = [t \in Probes |-> Unknown]
  /\ since = [t \in Threads |-> 0]

-----------------------------------------------------------------------------
(* Publications: a new file, or the old bytes in a new file.               *)

Publish(f) ==
  /\ now < Changes
  /\ now' = now + 1
  /\ stamp' = [stamp EXCEPT ![f] = now + 1]
  /\ \E c \in Contents \ {content[f]} : content' = [content EXCEPT ![f] = c]
  /\ UNCHANGED <<caches, pc, at, attempt, build, token, warm, probe, moment, since>>

\* Faulty variant: modification time and size, which a rollback restores.
StampOfBytes(f) == content[f]

StampOf(f) == stamp[f]

Goto(t, step) == pc' = [pc EXCEPT ![t] = step] /\ at' = [at EXCEPT ![t] = 1]

\* One file after the other; the step after the last one.
Onward(t, step) ==
  IF at[t] = N THEN Goto(t, step)
               ELSE at' = [at EXCEPT ![t] = @ + 1] /\ UNCHANGED pc

-----------------------------------------------------------------------------
(* One answer.                                                             *)

Building == {"sign", "ensure", "stat", "open", "recheck", "check"}

\* single-flight per route
RouteFree(t) == \A u \in Threads : Route[u] = Route[t] => pc[u] \notin Building

Enter(t) ==
  /\ pc[t] = IF t \in Warmups THEN "warming" ELSE "idle"
  /\ RouteFree(t)
  /\ Goto(t, "sign")
  /\ since' = [since EXCEPT ![t] = now]
  /\ UNCHANGED <<sources, caches, attempt, build, token, warm, probe, moment>>

Sign(t) ==
  /\ pc[t] = "sign"
  /\ signature' = [signature EXCEPT ![t][at[t]] = StampOf(at[t])]
  /\ Onward(t, "ensure")
  /\ snapshot' = IF at[t] = N THEN [snapshot EXCEPT ![t] = content] ELSE snapshot
  /\ UNCHANGED <<sources, caches, attempt, seen, got, token, warm, probe, moment, since>>

\* The caches are kept for one generation, and then the answer or its payload may
\* already be there.
Kept(cache, s) == IF generation \in {None, s} THEN cache ELSE {}

Ensure(t) ==
  /\ pc[t] = "ensure"
  /\ LET s == signature[t] IN
       /\ generation' = s
       /\ loaded' = Kept(loaded, s)
       /\ payloads' = Kept(payloads, s)
       /\ responses' = Kept(responses, s)
       /\ \/ \E r \in responses' :
               /\ r[1] = Route[t] /\ r[2] = s
               /\ got' = [got EXCEPT ![t] = r[3]]
               /\ Goto(t, "check")
          \/ /\ \A r \in responses' : r[1] # Route[t] \/ r[2] # s
             /\ \E p \in payloads' :
                  /\ p[1] = s
                  /\ got' = [got EXCEPT ![t] = p[2]]
                  /\ Goto(t, "recheck")
          \/ /\ \A r \in responses' : r[1] # Route[t] \/ r[2] # s
             /\ \A p \in payloads' : p[1] # s
             /\ Goto(t, "stat")
             /\ UNCHANGED got
  /\ UNCHANGED <<sources, attempt, signature, seen, snapshot, token, warm, probe, moment, since>>

\* All files are read: the payload is kept for the signature of the attempt.  Its cache key
\* is made of stamps taken once more, behind that signature; a change between the two is
\* found by the recheck of the attempt, so that no response tells the keys apart.
Assemble(t, contents) ==
  /\ got' = [got EXCEPT ![t] = contents]
  /\ IF at[t] = N
     THEN payloads' = payloads \cup {<<signature[t], contents>>} /\ Goto(t, "recheck")
     ELSE UNCHANGED payloads /\ at' = [at EXCEPT ![t] = @ + 1] /\ pc' = [pc EXCEPT ![t] = "stat"]

Stat(t) ==
  /\ pc[t] = "stat"
  /\ \/ \E l \in loaded :
          /\ l[1] = at[t] /\ l[2] = StampOf(at[t])
          /\ UNCHANGED seen
          /\ Assemble(t, [got[t] EXCEPT ![at[t]] = l[3]])
     \/ /\ \A l \in loaded : l[1] # at[t] \/ l[2] # StampOf(at[t])
        /\ seen' = [seen EXCEPT ![t] = StampOf(at[t])]
        /\ pc' = [pc EXCEPT ![t] = "open"]
        /\ UNCHANGED <<at, got, payloads>>
  /\ UNCHANGED <<sources, loaded, responses, generation, attempt, signature, snapshot, token,
                 warm, probe, moment, since>>

\* The file may be a newer one than the stamp it is cached under.
Open(t) ==
  /\ pc[t] = "open"
  /\ loaded' = loaded \cup {<<at[t], seen[t], content[at[t]]>>}
  /\ seen' = [seen EXCEPT ![t] = 0]
  /\ Assemble(t, [got[t] EXCEPT ![at[t]] = content[at[t]]])
  /\ UNCHANGED <<sources, responses, generation, attempt, signature, snapshot, token,
                 warm, probe, moment, since>>

Forget(t) ==
  /\ signature' = [signature EXCEPT ![t] = Unknown]
  /\ got' = [got EXCEPT ![t] = Unread]
  /\ snapshot' = [snapshot EXCEPT ![t] = Unread]

\* Faulty variant: the next attempt keeps the signature of the first.
RetryUnsigned(t) ==
  /\ IF attempt[t] = Attempts
     THEN Goto(t, "failed") /\ UNCHANGED attempt
     ELSE Goto(t, "ensure") /\ attempt' = [attempt EXCEPT ![t] = @ + 1]
  /\ UNCHANGED <<signature, got, snapshot>>

\* Faulty variant: the loop has no bound.
RetryEndlessly(t) ==
  /\ Goto(t, "sign")
  /\ attempt' = [attempt EXCEPT ![t] = @ + 1]
  /\ Forget(t)

\* SourceGenerationChanged
Retry(t) ==
  /\ IF attempt[t] = Attempts
     THEN Goto(t, "failed") /\ UNCHANGED attempt
     ELSE Goto(t, "sign") /\ attempt' = [attempt EXCEPT ![t] = @ + 1]
  /\ Forget(t)

Unmoved(t) == StampOf(at[t]) = signature[t][at[t]]

\* A response is encoded and kept only for sources that did not move.
Recheck(t) ==
  /\ pc[t] = "recheck"
  /\ IF Unmoved(t)
     THEN /\ Onward(t, "check")
          /\ responses' = IF at[t] = N THEN responses \cup {<<Route[t], signature[t], got[t]>>}
                                       ELSE responses
          /\ UNCHANGED <<attempt, signature, got, snapshot>>
     ELSE Retry(t) /\ UNCHANGED responses
  /\ UNCHANGED <<sources, loaded, payloads, generation, seen, token, warm, probe, moment, since>>

Check(t) ==
  /\ pc[t] = "check"
  /\ IF Unmoved(t) THEN Onward(t, "answered") /\ UNCHANGED <<attempt, signature, got, snapshot>>
                   ELSE Retry(t)
  /\ UNCHANGED <<sources, caches, seen, token, warm, probe, moment, since>>

\* The next request.
Reply(t) ==
  /\ t \in Requests
  /\ pc[t] \in {"answered", "failed"}
  /\ Goto(t, "idle")
  /\ Forget(t)
  /\ attempt' = [attempt EXCEPT ![t] = 1]
  /\ since' = [since EXCEPT ![t] = 0]
  /\ UNCHANGED <<sources, caches, seen, token, warm, probe, moment>>

-----------------------------------------------------------------------------
(* The warm-up and the health check.                                       *)

Collect(t, from, to) ==
  /\ pc[t] = from
  /\ token' = [token EXCEPT ![t][at[t]] = StampOf(at[t])]
  /\ Onward(t, to)
  /\ UNCHANGED <<sources, caches, attempt, build, warm, probe, moment, since>>

Begin(w) ==
  /\ pc[w] = "begin"
  /\ warmRun' = w
  /\ warmStatus' = "warming"
  /\ warmToken' = token[w]
  /\ warmGeneration' = None
  /\ Goto(w, "warming")
  /\ UNCHANGED <<sources, caches, attempt, build, token, probe, moment, since>>

\* Faulty variant: an answer that was built is taken for ready.
FinishBuilt(w) ==
  /\ pc[w] = "finish"
  /\ warmStatus' = "ready"
  /\ warmGeneration' = signature[w]
  /\ warmToken' = token[w]
  /\ Goto(w, "done")
  /\ Forget(w)
  /\ UNCHANGED <<sources, caches, attempt, seen, token, warmRun, probe, moment, since>>

\* Only the newest warm-up is recorded, and ready only for the sources it began with.
Finish(w) ==
  /\ pc[w] = "finish"
  /\ Goto(w, "done")
  /\ Forget(w)
  /\ IF warmRun = w
     THEN /\ IF token[w] = warmToken
             THEN warmStatus' = "ready" /\ warmGeneration' = signature[w]
             ELSE warmStatus' = "failed" /\ warmGeneration' = None
          /\ warmToken' = token[w]
     ELSE UNCHANGED <<warmStatus, warmToken, warmGeneration>>
  /\ UNCHANGED <<sources, caches, attempt, seen, token, warmRun, probe, moment, since>>

WarmupFails(w) ==
  /\ w \in Warmups
  /\ pc[w] = "failed"
  /\ Goto(w, "done")
  /\ Forget(w)
  /\ IF warmRun = w THEN warmStatus' = "failed" /\ warmGeneration' = None
                    ELSE UNCHANGED <<warmStatus, warmGeneration>>
  /\ UNCHANGED <<sources, caches, attempt, seen, token, warmRun, warmToken, probe, moment, since>>

\* The state is read at once, the sources after it.  A probe that finds no warm summary
\* says so.
Peek(p) ==
  /\ pc[p] = "idle"
  /\ warmStatus = "ready"
  /\ expected' = [expected EXCEPT ![p] = warmToken]
  /\ reported' = [reported EXCEPT ![p] = warmGeneration]
  /\ Goto(p, "probing")
  /\ moment' = [moment EXCEPT ![p] = stamp]
  /\ UNCHANGED <<sources, caches, attempt, build, token, warm, since>>

Report(p) ==
  /\ pc[p] = "compare"
  /\ Goto(p, "reported")
  /\ IF token[p] = expected[p] THEN UNCHANGED reported
                              ELSE reported' = [reported EXCEPT ![p] = None]
  /\ UNCHANGED <<sources, caches, attempt, build, token, warm, expected, moment, since>>

\* The next probe.
Respond(p) ==
  /\ pc[p] = "reported"
  /\ Goto(p, "idle")
  /\ expected' = [expected EXCEPT ![p] = Unknown]
  /\ reported' = [reported EXCEPT ![p] = None]
  /\ moment' = [moment EXCEPT ![p] = Unknown]
  /\ token' = [token EXCEPT ![p] = Unknown]
  /\ UNCHANGED <<sources, caches, attempt, build, warm, since>>

Answer(t) == Enter(t) \/ Sign(t) \/ Ensure(t) \/ Stat(t) \/ Open(t) \/ Recheck(t) \/ Check(t) \/ Reply(t)

Warm(w) ==
  \/ Collect(w, "idle", "begin") \/ Begin(w)
  \/ Collect(w, "answered", "finish") \/ Finish(w) \/ WarmupFails(w)

Health(p) == Peek(p) \/ Collect(p, "probing", "compare") \/ Report(p) \/ Respond(p)

Next ==
  \/ \E f \in Files : Publish(f)
  \/ \E t \in Threads : Answer(t)
  \/ \E w \in Warmups : Warm(w)
  \/ \E p \in Probes : Health(p)

Spec == Init /\ [][Next]_vars

-----------------------------------------------------------------------------

Vectors   == [Files -> Contents]
Stamps    == [Files -> Nat]
Steps     == Building \cup {"idle", "begin", "warming", "answered", "failed", "finish", "done",
                           "probing", "compare", "reported"}

\* The variables have their types.
TypeOK ==
  /\ now \in Nat
  /\ stamp \in Stamps
  /\ content \in Vectors
  /\ loaded \subseteq Files \X Nat \X Contents
  /\ payloads \subseteq Stamps \X Vectors
  /\ responses \subseteq {Route[t] : t \in Threads} \X Stamps \X Vectors
  /\ generation \in Stamps \cup {None}
  /\ pc \in [Threads \cup Probes -> Steps]
  /\ at \in [Threads \cup Probes -> Files]
  /\ attempt \in [Threads -> 1 .. Attempts]
  /\ signature \in [Threads -> Stamps]
  /\ seen \in [Threads -> Nat]
  /\ got \in [Threads -> [Files -> Contents \cup {None}]]
  /\ token \in [Warmups \cup Probes -> Stamps]
  /\ warmRun \in Warmups \cup {None}
  /\ warmStatus \in {"warming", "ready", "failed"}
  /\ warmToken \in Stamps
  /\ warmGeneration \in Stamps \cup {None}
  /\ expected \in [Probes -> Stamps]
  /\ reported \in [Probes -> Stamps \cup {None}]
  /\ snapshot \in [Threads -> Vectors \cup {Unread}]
  /\ moment \in [Probes -> Stamps]
  /\ since \in [Threads -> Nat]

\* An answer consists of what all files said at one moment of the request, although the
\* files are read one by one, from caches that other requests fill, while they are
\* replaced and rolled back.
AnswerIsSnapshot ==
  \A t \in Threads : pc[t] = "answered" => got[t] = snapshot[t]

\* A request gives up only after as many publications during it as it has attempts.
GivesUpOnlyWhenBusy ==
  \A t \in Threads : pc[t] = "failed" => now - since[t] >= Attempts

\* The health check reports the summary as ready only for the sources that were
\* published when it was asked, whatever older warm-ups do.
ReadyIsCurrent ==
  \A p \in Probes : pc[p] = "reported" /\ reported[p] # None => reported[p] = moment[p]
=============================================================================
