------------------------ MODULE SourceReader_proofs ------------------------
(***************************************************************************)
(* Theorems about SourceReader, for any number of files, requests,         *)
(* warm-ups, health checks, attempts and publications.                     *)
(***************************************************************************)
EXTENDS SourceReader, TLAPS

\* What an answer is made of so far is content of files.
ReadSoFar ==
  \A t \in Threads :
    /\ pc[t] \in {"stat", "open"} => \A f \in Files : f < at[t] => got[t][f] \in Contents
    /\ pc[t] \in {"recheck", "check"} => got[t] \in Vectors

TInv == TypeOK /\ ReadSoFar

-----------------------------------------------------------------------------
(* Types.                                                                  *)

LEMMA FilesNat == \A f \in Files : f \in Nat /\ 1 <= f /\ f <= N
BY ReaderOK DEF Files

LEMMA OneIsFile == 1 \in Files /\ N \in Files
BY ReaderOK DEF Files

LEMMA MoveType ==
  ASSUME TypeOK, NEW t \in Threads \cup Probes, NEW step \in Steps,
         Goto(t, step) \/ Onward(t, step)
  PROVE  pc' \in [Threads \cup Probes -> Steps] /\ at' \in [Threads \cup Probes -> Files]
<1> USE DEF TypeOK
<1>1. CASE Goto(t, step)
  BY <1>1, OneIsFile DEF Goto
<1>2. CASE at[t] # N /\ Onward(t, step)
  <2>1. at[t] \in Files /\ at[t] + 1 \in Files
    BY <1>2, ReaderOK DEF Files
  <2> QED BY <1>2, <2>1 DEF Onward
<1>3. CASE at[t] = N /\ Onward(t, step)
  BY <1>3, OneIsFile DEF Onward, Goto
<1> QED BY <1>1, <1>2, <1>3

LEMMA ForgetType ==
  ASSUME TypeOK, NEW t \in Threads, Forget(t)
  PROVE  /\ signature' \in [Threads -> Stamps]
         /\ got' \in [Threads -> [Files -> Contents \cup {None}]]
         /\ snapshot' \in [Threads -> Vectors \cup {Unread}]
<1>1. Unknown \in Stamps /\ Unread \in [Files -> Contents \cup {None}]
  BY DEF Unknown, Unread, Stamps
<1> QED BY <1>1 DEF TypeOK, Forget

LEMMA RetryType ==
  ASSUME TypeOK, NEW t \in Threads, Retry(t)
  PROVE  /\ pc' \in [Threads \cup Probes -> Steps] /\ at' \in [Threads \cup Probes -> Files]
         /\ attempt' \in [Threads -> 1 .. Attempts]
         /\ signature' \in [Threads -> Stamps]
         /\ got' \in [Threads -> [Files -> Contents \cup {None}]]
         /\ snapshot' \in [Threads -> Vectors \cup {Unread}]
<1>0. attempt[t] \in 1 .. Attempts
  BY DEF TypeOK
<1>1. attempt[t] # Attempts => attempt[t] + 1 \in 1 .. Attempts
  BY <1>0, ReaderOK
<1>2. attempt' \in [Threads -> 1 .. Attempts]
  BY <1>0, <1>1 DEF TypeOK, Retry
<1>3. t \in Threads \cup Probes /\ "failed" \in Steps /\ "sign" \in Steps
  BY DEF Steps, Building
<1>4. Goto(t, "failed") \/ Goto(t, "sign")
  BY DEF Retry
<1>5. pc' \in [Threads \cup Probes -> Steps] /\ at' \in [Threads \cup Probes -> Files]
  BY <1>3, <1>4, MoveType
<1>6. Forget(t)
  BY DEF Retry
<1> QED BY <1>2, <1>5, <1>6, ForgetType

LEMMA InitType == Init => TInv
<1> SUFFICES ASSUME Init PROVE TInv
  OBVIOUS
<1> USE ReaderOK, OneIsFile
<1>1. Unknown \in Stamps /\ Unread \in [Files -> Contents \cup {None}]
  BY DEF Unknown, Unread, Stamps
<1>2. "idle" \in Steps
  BY DEF Steps
<1>3. TypeOK
  BY <1>1, <1>2 DEF TypeOK, Init, Vectors
<1>4. ReadSoFar
  BY DEF Init, ReadSoFar
<1> QED BY <1>3, <1>4 DEF TInv

\* One thread's new contents, the others keep theirs.
LEMMA VectorUpdate ==
  ASSUME TypeOK, NEW t \in Threads, NEW f \in Files, NEW c \in Contents
  PROVE  [got[t] EXCEPT ![f] = c] \in [Files -> Contents \cup {None}]
BY DEF TypeOK

\* At the last file the contents are complete.
LEMMA Complete ==
  ASSUME TInv, NEW t \in Threads, NEW c \in Contents, pc[t] \in {"stat", "open"}, at[t] = N
  PROVE  [got[t] EXCEPT ![at[t]] = c] \in Vectors
<1>1. \A f \in Files : f < N \/ f = N
  BY FilesNat, ReaderOK
<1>2. got[t] \in [Files -> Contents \cup {None}]
  BY DEF TInv, TypeOK
<1>3. \A f \in Files : f < N => got[t][f] \in Contents
  BY DEF TInv, ReadSoFar
<1> QED BY <1>1, <1>2, <1>3, OneIsFile DEF Vectors

LEMMA AssembleType ==
  ASSUME TInv, NEW t \in Threads, NEW c \in Contents, pc[t] \in {"stat", "open"},
         Assemble(t, [got[t] EXCEPT ![at[t]] = c])
  PROVE  /\ got' \in [Threads -> [Files -> Contents \cup {None}]]
         /\ payloads' \subseteq Stamps \X Vectors
         /\ pc' \in [Threads \cup Probes -> Steps] /\ at' \in [Threads \cup Probes -> Files]
<1> DEFINE v == [got[t] EXCEPT ![at[t]] = c]
<1>1. at[t] \in Files
  BY DEF TInv, TypeOK
<1>2. v \in [Files -> Contents \cup {None}]
  BY <1>1, VectorUpdate DEF TInv
<1>3. got' = [got EXCEPT ![t] = v]
  BY DEF Assemble
<1>4. at[t] = N => v \in Vectors
  BY Complete
<1>5. Assemble(t, v)
  OBVIOUS
<1> HIDE DEF v
<1>6. got' \in [Threads -> [Files -> Contents \cup {None}]]
  BY <1>2, <1>3 DEF TInv, TypeOK
<1>7. signature[t] \in Stamps /\ payloads \subseteq Stamps \X Vectors
  BY DEF TInv, TypeOK
<1>8. payloads' \subseteq Stamps \X Vectors
  BY <1>4, <1>5, <1>7 DEF Assemble
<1>9. t \in Threads \cup Probes /\ "recheck" \in Steps /\ "stat" \in Steps
  BY DEF Steps, Building
<1>10. CASE at[t] = N
  <2>1. Goto(t, "recheck")
    BY <1>5, <1>10 DEF Assemble
  <2> QED BY <1>6, <1>8, <1>9, <2>1, MoveType DEF TInv
<1>11. CASE at[t] # N
  <2>1. at[t] + 1 \in Files
    BY <1>1, <1>11, ReaderOK DEF Files
  <2>2. at' \in [Threads \cup Probes -> Files]
    BY <1>5, <1>11, <2>1 DEF Assemble, TInv, TypeOK
  <2>3. pc' \in [Threads \cup Probes -> Steps]
    BY <1>5, <1>9, <1>11 DEF Assemble, TInv, TypeOK
  <2> QED BY <1>6, <1>8, <2>2, <2>3
<1> QED BY <1>10, <1>11

LEMMA TypeStep ==
  ASSUME TInv, [Next]_vars
  PROVE  TypeOK'
<1> USE DEF TInv
<1>1. TypeOK
  OBVIOUS
<1> DEFINE P == Threads \cup Probes
<1>2. ASSUME NEW f \in Files, Publish(f) PROVE TypeOK'
  <2>1. now' \in Nat /\ stamp' \in Stamps
    BY <1>2 DEF Publish, TypeOK, Stamps
  <2>2. content' \in Vectors
    BY <1>2 DEF Publish, TypeOK, Vectors
  <2> QED BY <1>2, <2>1, <2>2 DEF Publish, TypeOK, caches, build, warm, probe
<1>3. ASSUME NEW t \in Threads, Enter(t) PROVE TypeOK'
  <2>1. pc' \in [P -> Steps] /\ at' \in [P -> Files]
    BY <1>3, MoveType DEF Enter, Steps, Building
  <2>2. since' \in [Threads -> Nat]
    BY <1>3 DEF Enter, TypeOK
  <2> QED BY <1>3, <2>1, <2>2 DEF Enter, TypeOK, sources, caches, build, warm, probe
<1>4. ASSUME NEW t \in Threads, Sign(t) PROVE TypeOK'
  <2>1. pc' \in [P -> Steps] /\ at' \in [P -> Files]
    BY <1>4, MoveType DEF Sign, Steps, Building
  <2>2. signature' \in [Threads -> Stamps]
    <3>1. at[t] \in Files /\ StampOf(at[t]) \in Nat
      BY DEF TypeOK, StampOf, Stamps
    <3>2. [signature[t] EXCEPT ![at[t]] = StampOf(at[t])] \in Stamps
      BY <3>1 DEF TypeOK, Stamps
    <3> QED BY <1>4, <3>2 DEF Sign, TypeOK
  <2>3. snapshot' \in [Threads -> Vectors \cup {Unread}]
    BY <1>4 DEF Sign, TypeOK
  <2> QED BY <1>4, <2>1, <2>2, <2>3 DEF Sign, TypeOK, sources, caches, warm, probe
<1>5. ASSUME NEW t \in Threads, Ensure(t) PROVE TypeOK'
  <2> DEFINE s == signature[t]
  <2>1. s \in Stamps
    BY DEF TypeOK
  <2>2. /\ generation' = s /\ loaded' = Kept(loaded, s)
        /\ payloads' = Kept(payloads, s) /\ responses' = Kept(responses, s)
    BY <1>5 DEF Ensure
  <2>3. /\ loaded' \subseteq Files \X Nat \X Contents
        /\ payloads' \subseteq Stamps \X Vectors
        /\ responses' \subseteq {Route[u] : u \in Threads} \X Stamps \X Vectors
    BY <2>2 DEF Kept, TypeOK
  <2>4. got' \in [Threads -> [Files -> Contents \cup {None}]]
    <3>1. \/ \E r \in responses' : got' = [got EXCEPT ![t] = r[3]]
          \/ \E p \in payloads' : got' = [got EXCEPT ![t] = p[2]]
          \/ UNCHANGED got
      BY <1>5 DEF Ensure
    <3>2. \A r \in responses' : r[3] \in [Files -> Contents \cup {None}]
      BY <2>3 DEF Vectors
    <3>3. \A p \in payloads' : p[2] \in [Files -> Contents \cup {None}]
      BY <2>3 DEF Vectors
    <3> QED BY <3>1, <3>2, <3>3 DEF TypeOK
  <2>5. Goto(t, "check") \/ Goto(t, "recheck") \/ Goto(t, "stat")
    BY <1>5 DEF Ensure
  <2>6. pc' \in [P -> Steps] /\ at' \in [P -> Files]
    BY <2>5, MoveType DEF Steps, Building
  <2>7. UNCHANGED <<sources, attempt, signature, seen, snapshot, token, warm, probe, moment, since>>
    BY <1>5 DEF Ensure
  <2> QED BY <2>1, <2>2, <2>3, <2>4, <2>6, <2>7 DEF TypeOK, sources, warm, probe
<1>6. ASSUME NEW t \in Threads, Stat(t) PROVE TypeOK'
  <2>1. pc[t] = "stat"
    BY <1>6 DEF Stat
  <2>2. UNCHANGED <<sources, loaded, responses, generation, attempt, signature, snapshot, token,
                    warm, probe, moment, since>>
    BY <1>6 DEF Stat
  <2>3. CASE \E l \in loaded : UNCHANGED seen /\ Assemble(t, [got[t] EXCEPT ![at[t]] = l[3]])
    <3>1. PICK l \in loaded : UNCHANGED seen /\ Assemble(t, [got[t] EXCEPT ![at[t]] = l[3]])
      BY <2>3
    <3>2. l[3] \in Contents
      BY DEF TypeOK
    <3>3. /\ got' \in [Threads -> [Files -> Contents \cup {None}]]
          /\ payloads' \subseteq Stamps \X Vectors
          /\ pc' \in [P -> Steps] /\ at' \in [P -> Files]
      BY <2>1, <3>1, <3>2, AssembleType
    <3> QED BY <2>2, <3>1, <3>3 DEF TypeOK, sources, warm, probe
  <2>4. CASE /\ seen' = [seen EXCEPT ![t] = StampOf(at[t])] /\ pc' = [pc EXCEPT ![t] = "open"]
             /\ UNCHANGED <<at, got, payloads>>
    <3>1. StampOf(at[t]) \in Nat
      BY DEF TypeOK, StampOf, Stamps
    <3>2. seen' \in [Threads -> Nat]
      BY <2>4, <3>1 DEF TypeOK
    <3>3. pc' \in [P -> Steps]
      BY <2>4 DEF TypeOK, Steps, Building
    <3> QED BY <2>2, <2>4, <3>2, <3>3 DEF TypeOK, sources, warm, probe
  <2> QED BY <1>6, <2>3, <2>4 DEF Stat
<1>7. ASSUME NEW t \in Threads, Open(t) PROVE TypeOK'
  <2>1. pc[t] = "open" /\ at[t] \in Files /\ seen[t] \in Nat /\ content[at[t]] \in Contents
    BY <1>7 DEF Open, TypeOK, Vectors
  <2>2. loaded' = loaded \cup {<<at[t], seen[t], content[at[t]]>>}
    BY <1>7 DEF Open
  <2>3. loaded' \subseteq Files \X Nat \X Contents
    BY <2>1, <2>2 DEF TypeOK
  <2>4. seen' \in [Threads -> Nat]
    BY <1>7 DEF Open, TypeOK
  <2>5. Assemble(t, [got[t] EXCEPT ![at[t]] = content[at[t]]])
    BY <1>7 DEF Open
  <2>6. /\ got' \in [Threads -> [Files -> Contents \cup {None}]]
        /\ payloads' \subseteq Stamps \X Vectors
        /\ pc' \in [P -> Steps] /\ at' \in [P -> Files]
    BY <2>1, <2>5, AssembleType
  <2>7. UNCHANGED <<sources, responses, generation, attempt, signature, snapshot, token,
                    warm, probe, moment, since>>
    BY <1>7 DEF Open
  <2> QED BY <2>3, <2>4, <2>6, <2>7 DEF TypeOK, sources, warm, probe
<1>8. ASSUME NEW t \in Threads, Recheck(t) PROVE TypeOK'
  <2>1. UNCHANGED <<sources, loaded, payloads, generation, seen, token, warm, probe, moment, since>>
    BY <1>8 DEF Recheck
  <2>2. CASE Unmoved(t)
    <3>1. Onward(t, "check") /\ UNCHANGED <<attempt, signature, got, snapshot>>
      BY <1>8, <2>2 DEF Recheck
    <3>2. pc' \in [P -> Steps] /\ at' \in [P -> Files]
      BY <3>1, MoveType DEF Steps, Building
    <3>3. got[t] \in Vectors /\ signature[t] \in Stamps
      BY <1>8 DEF Recheck, ReadSoFar, TypeOK
    <3>4. \/ responses' = responses
          \/ responses' = responses \cup {<<Route[t], signature[t], got[t]>>}
      BY <1>8, <2>2 DEF Recheck
    <3>5. responses' \subseteq {Route[u] : u \in Threads} \X Stamps \X Vectors
      BY <3>3, <3>4 DEF TypeOK
    <3> QED BY <2>1, <3>1, <3>2, <3>5 DEF TypeOK, sources, warm, probe
  <2>3. CASE ~ Unmoved(t)
    <3>1. Retry(t) /\ UNCHANGED responses
      BY <1>8, <2>3 DEF Recheck
    <3> QED BY <2>1, <3>1, RetryType DEF TypeOK, sources, warm, probe
  <2> QED BY <2>2, <2>3
<1>9. ASSUME NEW t \in Threads, Check(t) PROVE TypeOK'
  <2>1. UNCHANGED <<sources, caches, seen, token, warm, probe, moment, since>>
    BY <1>9 DEF Check
  <2>2. CASE Unmoved(t)
    <3>1. Onward(t, "answered") /\ UNCHANGED <<attempt, signature, got, snapshot>>
      BY <1>9, <2>2 DEF Check
    <3>2. pc' \in [P -> Steps] /\ at' \in [P -> Files]
      BY <3>1, MoveType DEF Steps
    <3> QED BY <2>1, <3>1, <3>2 DEF TypeOK, sources, caches, warm, probe
  <2>3. CASE ~ Unmoved(t)
    <3>1. Retry(t)
      BY <1>9, <2>3 DEF Check
    <3> QED BY <2>1, <3>1, RetryType DEF TypeOK, sources, caches, warm, probe
  <2> QED BY <2>2, <2>3
<1>10. ASSUME NEW t \in Threads, Reply(t) PROVE TypeOK'
  <2>1. pc' \in [P -> Steps] /\ at' \in [P -> Files]
    BY <1>10, MoveType DEF Reply, Steps
  <2>2. /\ signature' \in [Threads -> Stamps]
        /\ got' \in [Threads -> [Files -> Contents \cup {None}]]
        /\ snapshot' \in [Threads -> Vectors \cup {Unread}]
    BY <1>10, ForgetType DEF Reply
  <2>3. attempt' \in [Threads -> 1 .. Attempts]
    <3>1. 1 \in 1 .. Attempts
      BY ReaderOK
    <3> QED BY <1>10, <3>1 DEF Reply, TypeOK
  <2>4. since' \in [Threads -> Nat]
    BY <1>10 DEF Reply, TypeOK
  <2> QED BY <1>10, <2>1, <2>2, <2>3, <2>4 DEF Reply, TypeOK, sources, caches, warm, probe
<1>11. ASSUME NEW t \in Warmups \cup Probes, NEW from, NEW to \in Steps, Collect(t, from, to)
       PROVE  TypeOK'
  <2>1. t \in P
    BY DEF Threads
  <2>2. pc' \in [P -> Steps] /\ at' \in [P -> Files]
    BY <1>11, <2>1, MoveType DEF Collect
  <2>3. at[t] \in Files /\ StampOf(at[t]) \in Nat
    BY <2>1 DEF TypeOK, StampOf, Stamps
  <2>4. [token[t] EXCEPT ![at[t]] = StampOf(at[t])] \in Stamps
    BY <2>3 DEF TypeOK, Stamps
  <2>5. token' \in [Warmups \cup Probes -> Stamps]
    BY <1>11, <2>4 DEF Collect, TypeOK
  <2> QED BY <1>11, <2>2, <2>5 DEF Collect, TypeOK, sources, caches, build, warm, probe
<1>12. ASSUME NEW w \in Warmups, Begin(w) PROVE TypeOK'
  <2>1. pc' \in [P -> Steps] /\ at' \in [P -> Files]
    BY <1>12, MoveType DEF Begin, Steps, Threads
  <2>2. token[w] \in Stamps
    BY DEF TypeOK
  <2> QED BY <1>12, <2>1, <2>2 DEF Begin, TypeOK, sources, caches, build, probe
<1>13. ASSUME NEW w \in Warmups, Finish(w) \/ WarmupFails(w) PROVE TypeOK'
  <2>0. w \in Threads /\ Forget(w) /\ Goto(w, "done")
    BY <1>13 DEF Finish, WarmupFails, Threads
  <2>1. pc' \in [P -> Steps] /\ at' \in [P -> Files]
    BY <2>0, MoveType DEF Steps, Threads
  <2>2. /\ signature' \in [Threads -> Stamps]
        /\ got' \in [Threads -> [Files -> Contents \cup {None}]]
        /\ snapshot' \in [Threads -> Vectors \cup {Unread}]
    BY <2>0, ForgetType
  <2>3. /\ warmStatus' \in {"warming", "ready", "failed"}
        /\ warmToken' \in Stamps
        /\ warmGeneration' \in Stamps \cup {None}
    <3>1. token[w] \in Stamps /\ signature[w] \in Stamps
      BY <2>0 DEF TypeOK
    <3> QED BY <1>13, <3>1 DEF Finish, WarmupFails, TypeOK
  <2>4. UNCHANGED <<sources, caches, attempt, seen, token, warmRun, probe, moment, since>>
    BY <1>13 DEF Finish, WarmupFails
  <2> QED BY <2>1, <2>2, <2>3, <2>4 DEF TypeOK, sources, caches, probe
<1>14. ASSUME NEW p \in Probes, Peek(p) PROVE TypeOK'
  <2>1. pc' \in [P -> Steps] /\ at' \in [P -> Files]
    BY <1>14, MoveType DEF Peek, Steps
  <2>2. expected' \in [Probes -> Stamps] /\ moment' \in [Probes -> Stamps]
    BY <1>14 DEF Peek, TypeOK
  <2>3. reported' \in [Probes -> Stamps \cup {None}]
    BY <1>14 DEF Peek, TypeOK
  <2> QED BY <1>14, <2>1, <2>2, <2>3 DEF Peek, TypeOK, sources, caches, build, warm
<1>15. ASSUME NEW p \in Probes, Report(p) PROVE TypeOK'
  <2>1. pc' \in [P -> Steps] /\ at' \in [P -> Files]
    BY <1>15, MoveType DEF Report, Steps
  <2>2. reported' \in [Probes -> Stamps \cup {None}]
    BY <1>15 DEF Report, TypeOK
  <2> QED BY <1>15, <2>1, <2>2 DEF Report, TypeOK, sources, caches, build, warm
<1>16. ASSUME NEW p \in Probes, Respond(p) PROVE TypeOK'
  <2>0. Unknown \in Stamps
    BY DEF Unknown, Stamps
  <2>1. pc' \in [P -> Steps] /\ at' \in [P -> Files]
    BY <1>16, MoveType DEF Respond, Steps
  <2>2. /\ expected' \in [Probes -> Stamps] /\ moment' \in [Probes -> Stamps]
        /\ token' \in [Warmups \cup Probes -> Stamps]
    BY <1>16, <2>0 DEF Respond, TypeOK
  <2>3. reported' \in [Probes -> Stamps \cup {None}]
    BY <1>16 DEF Respond, TypeOK
  <2> QED BY <1>16, <2>1, <2>2, <2>3 DEF Respond, TypeOK, sources, caches, build, warm
<1>17. CASE UNCHANGED vars
  BY <1>17 DEF vars, TypeOK, sources, caches, build, warm, probe
<1>18. {"begin", "finish", "compare"} \subseteq Steps
  BY DEF Steps
<1>19. ASSUME NEW w \in Warmups, Warm(w) PROVE TypeOK'
  BY <1>11, <1>12, <1>13, <1>18, <1>19 DEF Warm
<1>20. ASSUME NEW p \in Probes, Health(p) PROVE TypeOK'
  BY <1>11, <1>14, <1>15, <1>16, <1>18, <1>20 DEF Health
<1>21. ASSUME NEW t \in Threads, Answer(t) PROVE TypeOK'
  BY <1>3, <1>4, <1>5, <1>6, <1>7, <1>8, <1>9, <1>10, <1>21 DEF Answer
<1> QED BY <1>2, <1>17, <1>19, <1>20, <1>21 DEF Next

-----------------------------------------------------------------------------
(* What a step does to its own thread, and that it does nothing to others. *)

Keeps(u) ==
  /\ pc'[u] = pc[u] /\ at'[u] = at[u] /\ attempt'[u] = attempt[u]
  /\ signature'[u] = signature[u] /\ seen'[u] = seen[u] /\ got'[u] = got[u]
  /\ snapshot'[u] = snapshot[u] /\ since'[u] = since[u]

LEMMA MoveEffect ==
  ASSUME TypeOK, NEW t \in Threads \cup Probes, NEW step
  PROVE  /\ Goto(t, step) => pc'[t] = step /\ at'[t] = 1
         /\ Onward(t, step) /\ at[t] = N => pc'[t] = step /\ at'[t] = 1
         /\ Onward(t, step) /\ at[t] # N => pc'[t] = pc[t] /\ at'[t] = at[t] + 1
         /\ Goto(t, step) \/ Onward(t, step) =>
              \A u \in Threads \cup Probes : u # t => pc'[u] = pc[u] /\ at'[u] = at[u]
BY DEF TypeOK, Goto, Onward

LEMMA AssembleEffect ==
  ASSUME TypeOK, NEW t \in Threads, NEW v, Assemble(t, v)
  PROVE  /\ got'[t] = v
         /\ at[t] = N => pc'[t] = "recheck" /\ at'[t] = 1
         /\ at[t] # N => pc'[t] = "stat" /\ at'[t] = at[t] + 1
         /\ \A u \in Threads : u # t => got'[u] = got[u] /\ pc'[u] = pc[u] /\ at'[u] = at[u]
         /\ payloads' = payloads \/ (at[t] = N /\ payloads' = payloads \cup {<<signature[t], v>>})
BY DEF TypeOK, Assemble, Goto

LEMMA ForgetEffect ==
  ASSUME TypeOK, NEW t \in Threads, Forget(t)
  PROVE  /\ signature'[t] = Unknown /\ got'[t] = Unread /\ snapshot'[t] = Unread
         /\ \A u \in Threads : u # t => /\ signature'[u] = signature[u] /\ got'[u] = got[u]
                                        /\ snapshot'[u] = snapshot[u]
BY DEF TypeOK, Forget

LEMMA RetryEffect ==
  ASSUME TypeOK, NEW t \in Threads, Retry(t)
  PROVE  /\ at'[t] = 1 /\ signature'[t] = Unknown
         /\ attempt[t] = Attempts => pc'[t] = "failed" /\ attempt'[t] = attempt[t]
         /\ attempt[t] # Attempts => pc'[t] = "sign" /\ attempt'[t] = attempt[t] + 1
         /\ \A u \in Threads : u # t => /\ pc'[u] = pc[u] /\ at'[u] = at[u]
                                        /\ attempt'[u] = attempt[u] /\ got'[u] = got[u]
                                        /\ signature'[u] = signature[u] /\ snapshot'[u] = snapshot[u]
<1>1. Forget(t)
  BY DEF Retry
<1>2. CASE attempt[t] = Attempts
  BY <1>1, <1>2, ForgetEffect, MoveEffect DEF Retry, TypeOK
<1>3. CASE attempt[t] # Attempts
  BY <1>1, <1>3, ForgetEffect, MoveEffect DEF Retry, TypeOK
<1> QED BY <1>2, <1>3

\* The step of one thread.
LEMMA OthersKeep ==
  ASSUME TypeOK, NEW t \in Threads, Answer(t) \/ (t \in Warmups /\ Warm(t))
  PROVE  \A u \in Threads : u # t => Keeps(u)
<1> USE DEF Keeps, build
<1>1. CASE Enter(t)    BY <1>1, MoveEffect DEF Enter, TypeOK
<1>2. CASE Sign(t)     BY <1>2, MoveEffect DEF Sign, TypeOK
<1>3. CASE Ensure(t)
  <2>1. \A u \in Threads : u # t => got'[u] = got[u]
    BY <1>3 DEF Ensure, TypeOK
  <2>2. Goto(t, "check") \/ Goto(t, "recheck") \/ Goto(t, "stat")
    BY <1>3 DEF Ensure
  <2> QED BY <1>3, <2>1, <2>2, MoveEffect DEF Ensure
<1>4. CASE Stat(t)
  <2>1. CASE \E l \in loaded : UNCHANGED seen /\ Assemble(t, [got[t] EXCEPT ![at[t]] = l[3]])
    BY <1>4, <2>1, AssembleEffect DEF Stat
  <2>2. CASE /\ seen' = [seen EXCEPT ![t] = StampOf(at[t])] /\ pc' = [pc EXCEPT ![t] = "open"]
             /\ UNCHANGED <<at, got, payloads>>
    BY <1>4, <2>2 DEF Stat, TypeOK
  <2> QED BY <1>4, <2>1, <2>2 DEF Stat
<1>5. CASE Open(t)     BY <1>5, AssembleEffect DEF Open, TypeOK
<1>6. CASE Recheck(t)
  <2>1. CASE Unmoved(t)    BY <1>6, <2>1, MoveEffect DEF Recheck
  <2>2. CASE ~ Unmoved(t)  BY <1>6, <2>2, RetryEffect DEF Recheck
  <2> QED BY <2>1, <2>2
<1>7. CASE Check(t)
  <2>1. CASE Unmoved(t)    BY <1>7, <2>1, MoveEffect DEF Check
  <2>2. CASE ~ Unmoved(t)  BY <1>7, <2>2, RetryEffect DEF Check
  <2> QED BY <2>1, <2>2
<1>8. CASE Reply(t)    BY <1>8, MoveEffect, ForgetEffect DEF Reply, TypeOK
<1>9. CASE t \in Warmups /\ (Collect(t, "idle", "begin") \/ Collect(t, "answered", "finish"))
  BY <1>9, MoveEffect DEF Collect
<1>10. CASE t \in Warmups /\ Begin(t)
  BY <1>10, MoveEffect DEF Begin
<1>11. CASE t \in Warmups /\ (Finish(t) \/ WarmupFails(t))
  BY <1>11, MoveEffect, ForgetEffect DEF Finish, WarmupFails
<1> QED BY <1>1, <1>2, <1>3, <1>4, <1>5, <1>6, <1>7, <1>8, <1>9, <1>10, <1>11 DEF Answer, Warm

LEMMA ProbesKeep ==
  ASSUME TypeOK, NEW p \in Probes, Health(p)
  PROVE  (\A u \in Threads : Keeps(u)) /\ UNCHANGED <<sources, caches, warm>>
<1> \A u \in Threads : u # p
  BY ReaderOK DEF Threads
<1> USE DEF Keeps, build
<1>1. CASE Peek(p)    BY <1>1, MoveEffect DEF Peek
<1>2. CASE Report(p)  BY <1>2, MoveEffect DEF Report
<1>3. CASE Respond(p) BY <1>3, MoveEffect DEF Respond
<1>4. CASE Collect(p, "probing", "compare")  BY <1>4, MoveEffect DEF Collect
<1> QED BY <1>1, <1>2, <1>3, <1>4 DEF Health

\* A thread does not move a health check.
LEMMA AnswerOnly ==
  ASSUME TypeOK, NEW t \in Threads, Answer(t), NEW p \in Probes, p # t
  PROVE  pc'[p] = pc[p] /\ at'[p] = at[p]
<1>1. CASE Enter(t) \/ Sign(t) \/ Reply(t)
  BY <1>1, MoveEffect DEF Enter, Sign, Reply
<1>2. CASE Ensure(t)
  <2>1. Goto(t, "check") \/ Goto(t, "recheck") \/ Goto(t, "stat")
    BY <1>2 DEF Ensure
  <2> QED BY <2>1, MoveEffect
<1>3. ASSUME NEW v, Assemble(t, v) PROVE pc'[p] = pc[p] /\ at'[p] = at[p]
  BY <1>3 DEF Assemble, Goto, TypeOK
<1>4. CASE Stat(t)
  BY <1>3, <1>4 DEF Stat, TypeOK
<1>5. CASE Open(t)
  BY <1>3, <1>5 DEF Open
<1>6. ASSUME Retry(t) PROVE pc'[p] = pc[p] /\ at'[p] = at[p]
  BY <1>6, MoveEffect DEF Retry
<1>7. CASE Recheck(t) \/ Check(t)
  BY <1>6, <1>7, MoveEffect DEF Recheck, Check
<1> QED BY <1>1, <1>2, <1>4, <1>5, <1>7 DEF Answer

LEMMA WarmOnly ==
  ASSUME TypeOK, NEW w \in Warmups, Warm(w), NEW p \in Probes, p # w
  PROVE  pc'[p] = pc[p] /\ at'[p] = at[p] /\ token'[p] = token[p]
<1>1. w \in Threads
  BY DEF Threads
<1>2. ASSUME NEW from, NEW to, Collect(w, from, to)
      PROVE  pc'[p] = pc[p] /\ at'[p] = at[p] /\ token'[p] = token[p]
  BY <1>1, <1>2, MoveEffect DEF Collect, TypeOK
<1>3. CASE Begin(w) \/ Finish(w) \/ WarmupFails(w)
  BY <1>1, <1>3, MoveEffect DEF Begin, Finish, WarmupFails
<1> QED BY <1>2, <1>3 DEF Warm

-----------------------------------------------------------------------------
(* Type correctness.                                                       *)

LEMMA ReadStep ==
  ASSUME TInv, [Next]_vars
  PROVE  ReadSoFar'
<1> USE DEF TInv
<1>1. TypeOK /\ TypeOK'
  BY TypeStep
<1> DEFINE R(u) == /\ pc[u] \in {"stat", "open"} => \A f \in Files : f < at[u] => got[u][f] \in Contents
                   /\ pc[u] \in {"recheck", "check"} => got[u] \in Vectors
<1>2. \A u \in Threads : R(u)
  BY DEF ReadSoFar
<1>3. ASSUME NEW u \in Threads, Keeps(u) PROVE R(u)'
  BY <1>2, <1>3 DEF Keeps
<1>4. \A f \in Files : ~ (f < 1)
  BY FilesNat
<1>5. ASSUME NEW t \in Threads, NEW c \in Contents, pc[t] \in {"stat", "open"},
             Assemble(t, [got[t] EXCEPT ![at[t]] = c])
      PROVE  R(t)'
  <2>1. at[t] \in Files /\ got[t] \in [Files -> Contents \cup {None}]
    BY DEF TypeOK
  <2>2. CASE at[t] = N
    BY <1>5, <2>2, Complete, AssembleEffect
  <2>3. CASE at[t] # N
    <3>1. \A f \in Files : f < at[t] + 1 => f < at[t] \/ f = at[t]
      BY <2>1, FilesNat
    <3>2. \A f \in Files : f < at[t] => got[t][f] \in Contents
      BY <1>2, <1>5
    <3>3. got'[t] = [got[t] EXCEPT ![at[t]] = c] /\ pc'[t] = "stat" /\ at'[t] = at[t] + 1
      BY <1>5, <2>3, AssembleEffect
    <3> QED BY <2>1, <3>1, <3>2, <3>3
  <2> QED BY <2>2, <2>3
<1>6. ASSUME NEW t \in Threads, Answer(t) PROVE R(t)'
  <2>1. CASE Enter(t)
    BY <2>1, MoveEffect DEF Enter
  <2>2. CASE Sign(t)
    BY <2>2, MoveEffect DEF Sign
  <2>3. CASE Ensure(t)
    <3>1. CASE \E r \in responses' : got' = [got EXCEPT ![t] = r[3]] /\ Goto(t, "check")
      <4>1. \A r \in responses' : r[3] \in Vectors
        BY <1>1 DEF TypeOK
      <4>2. got'[t] \in Vectors
        BY <3>1, <4>1 DEF TypeOK
      <4> QED BY <3>1, <4>2, MoveEffect
    <3>2. CASE \E p \in payloads' : got' = [got EXCEPT ![t] = p[2]] /\ Goto(t, "recheck")
      <4>1. \A p \in payloads' : p[2] \in Vectors
        BY <1>1 DEF TypeOK
      <4>2. got'[t] \in Vectors
        BY <3>2, <4>1 DEF TypeOK
      <4> QED BY <3>2, <4>2, MoveEffect
    <3>3. CASE Goto(t, "stat")
      BY <1>4, <3>3, MoveEffect
    <3> QED BY <2>3, <3>1, <3>2, <3>3 DEF Ensure
  <2>4. CASE Stat(t)
    <3>1. pc[t] = "stat"
      BY <2>4 DEF Stat
    <3>2. CASE \E l \in loaded : Assemble(t, [got[t] EXCEPT ![at[t]] = l[3]])
      <4>1. \A l \in loaded : l[3] \in Contents
        BY DEF TypeOK
      <4> QED BY <1>5, <3>1, <3>2, <4>1
    <3>3. CASE pc' = [pc EXCEPT ![t] = "open"] /\ UNCHANGED <<at, got, payloads>>
      BY <1>2, <3>1, <3>3 DEF TypeOK
    <3> QED BY <2>4, <3>2, <3>3 DEF Stat
  <2>5. CASE Open(t)
    <3>1. content[at[t]] \in Contents
      BY DEF TypeOK, Vectors
    <3> QED BY <1>5, <2>5, <3>1 DEF Open
  <2>6. CASE Recheck(t)
    <3>1. CASE Unmoved(t)    BY <1>2, <2>6, <3>1, MoveEffect DEF Recheck
    <3>2. CASE ~ Unmoved(t)  BY <2>6, <3>2, RetryEffect DEF Recheck
    <3> QED BY <3>1, <3>2
  <2>7. CASE Check(t)
    <3>1. CASE Unmoved(t)    BY <1>2, <2>7, <3>1, MoveEffect DEF Check
    <3>2. CASE ~ Unmoved(t)  BY <2>7, <3>2, RetryEffect DEF Check
    <3> QED BY <3>1, <3>2
  <2>8. CASE Reply(t)
    BY <2>8, MoveEffect DEF Reply
  <2> QED BY <1>6, <2>1, <2>2, <2>3, <2>4, <2>5, <2>6, <2>7, <2>8 DEF Answer
<1>7. ASSUME NEW w \in Warmups, Warm(w) PROVE R(w)'
  <2>0. w \in Threads
    BY DEF Threads
  <2>1. CASE Collect(w, "idle", "begin") \/ Collect(w, "answered", "finish")
    BY <2>0, <2>1, MoveEffect DEF Collect
  <2>2. CASE Begin(w)
    BY <2>0, <2>2, MoveEffect DEF Begin
  <2>3. CASE Finish(w) \/ WarmupFails(w)
    BY <2>0, <2>3, MoveEffect DEF Finish, WarmupFails
  <2> QED BY <1>7, <2>1, <2>2, <2>3 DEF Warm
<1>8. \A u \in Threads : R(u)'
  <2>1. ASSUME NEW t \in Threads, Answer(t) PROVE \A u \in Threads : R(u)'
    BY <1>1, <1>3, <1>6, <2>1, OthersKeep
  <2>2. ASSUME NEW w \in Warmups, Warm(w) PROVE \A u \in Threads : R(u)'
    BY <1>1, <1>3, <1>7, <2>2, OthersKeep DEF Threads
  <2>3. ASSUME NEW p \in Probes, Health(p) PROVE \A u \in Threads : R(u)'
    BY <1>1, <1>3, <2>3, ProbesKeep
  <2>4. ASSUME NEW f \in Files, Publish(f) PROVE \A u \in Threads : R(u)'
    BY <1>3, <2>4 DEF Publish, Keeps, build
  <2>5. CASE UNCHANGED vars
    BY <1>3, <2>5 DEF vars, Keeps, build
  <2> QED BY <2>1, <2>2, <2>3, <2>4, <2>5 DEF Next
<1> QED BY <1>8 DEF ReadSoFar

\* The variables of a reader keep their types (dashboard/server.py): in particular a
\* request makes at most Attempts attempts, and only complete payloads are cached.
THEOREM TypeCorrect == Spec => []TypeOK
<1>1. TInv /\ [Next]_vars => TInv'
  BY TypeStep, ReadStep DEF TInv
<1>2. TInv => TypeOK
  BY DEF TInv
<1> QED BY <1>1, <1>2, InitType, PTL DEF Spec

-----------------------------------------------------------------------------
(* The answer.                                                             *)

\* No stamp that was noted anywhere is younger than the last publication.
StampsPassed ==
  /\ \A f \in Files : stamp[f] <= now
  /\ \A l \in loaded : l[2] <= now
  /\ \A p \in payloads : \A f \in Files : p[1][f] <= now
  /\ \A r \in responses : \A f \in Files : r[2][f] <= now
  /\ \A t \in Threads : seen[t] <= now /\ \A f \in Files : signature[t][f] <= now

\* Where the stamp still is the file's, so is the content.
Agrees(s, c) == \A f \in Files : s[f] = stamp[f] => c[f] = content[f]

CachesAgree ==
  /\ \A l \in loaded : l[2] = stamp[l[1]] => l[3] = content[l[1]]
  /\ \A p \in payloads : Agrees(p[1], p[2])
  /\ \A r \in responses : Agrees(r[2], r[3])

Signed == {"ensure", "stat", "open", "recheck", "check"}

ThreadAgrees(t) ==
  /\ pc[t] \in Signed => Agrees(signature[t], snapshot[t])
  /\ pc[t] \in {"stat", "open"} =>
       \A f \in Files : f < at[t] /\ signature[t][f] = stamp[f] => got[t][f] = content[f]
  /\ pc[t] \in {"recheck", "check"} => Agrees(signature[t], got[t])
  /\ pc[t] = "check" => \A f \in Files : f < at[t] => got[t][f] = snapshot[t][f]
  /\ pc[t] = "answered" => got[t] = snapshot[t]

AgreeInv == TInv /\ StampsPassed /\ CachesAgree /\ \A t \in Threads : ThreadAgrees(t)

LEMMA InitAgrees == Init => AgreeInv
<1> SUFFICES ASSUME Init PROVE AgreeInv
  OBVIOUS
<1>1. \A f \in Files : Unknown[f] = 0
  BY DEF Unknown
<1>2. StampsPassed
  BY <1>1 DEF Init, StampsPassed
<1>3. CachesAgree
  BY DEF Init, CachesAgree
<1>4. \A t \in Threads : ThreadAgrees(t)
  BY DEF Init, ThreadAgrees, Signed
<1> QED BY <1>2, <1>3, <1>4, InitType DEF AgreeInv

\* A publication has a stamp nobody has noted.
LEMMA PublishAgrees ==
  ASSUME AgreeInv, NEW f \in Files, Publish(f)
  PROVE  StampsPassed' /\ CachesAgree' /\ \A t \in Threads : ThreadAgrees(t)'
<1> USE DEF AgreeInv
<1>1. TypeOK
  BY DEF TInv
<1>2. /\ now \in Nat /\ now' = now + 1 /\ stamp'[f] = now + 1
      /\ \A g \in Files : g # f => stamp'[g] = stamp[g] /\ content'[g] = content[g]
  BY <1>1 DEF Publish, TypeOK, Stamps, Vectors
<1>3. UNCHANGED <<loaded, payloads, responses, pc, at, signature, seen, got, snapshot>>
  BY DEF Publish, caches, build
<1>4. \A n \in Nat : n <= now => n # now + 1 /\ n <= now + 1
  BY <1>2
<1>5. \A g \in Files : stamp[g] \in Nat
  BY <1>1 DEF TypeOK, Stamps
<1>6. \A l \in loaded : l[1] \in Files /\ l[2] \in Nat
  BY <1>1 DEF TypeOK
<1>7. /\ \A p \in payloads : \A g \in Files : p[1][g] \in Nat
      /\ \A r \in responses : \A g \in Files : r[2][g] \in Nat
  BY <1>1 DEF TypeOK, Stamps
<1>8. \A t \in Threads : seen[t] \in Nat /\ \A g \in Files : signature[t][g] \in Nat
  BY <1>1 DEF TypeOK, Stamps
<1>9. StampsPassed'
  <2>1. \A g \in Files : stamp'[g] <= now'
    BY <1>2, <1>4, <1>5 DEF StampsPassed
  <2>2. \A l \in loaded' : l[2] <= now'
    BY <1>2, <1>3, <1>4, <1>6 DEF StampsPassed
  <2>3. \A p \in payloads' : \A g \in Files : p[1][g] <= now'
    BY <1>2, <1>3, <1>4, <1>7 DEF StampsPassed
  <2>4. \A r \in responses' : \A g \in Files : r[2][g] <= now'
    BY <1>2, <1>3, <1>4, <1>7 DEF StampsPassed
  <2>5. \A t \in Threads : seen'[t] <= now' /\ \A g \in Files : signature'[t][g] <= now'
    BY <1>2, <1>3, <1>4, <1>8 DEF StampsPassed
  <2> QED BY <2>1, <2>2, <2>3, <2>4, <2>5 DEF StampsPassed
<1>10. ASSUME NEW s, NEW c, \A g \in Files : s[g] \in Nat /\ s[g] <= now, Agrees(s, c)
       PROVE  \A g \in Files : s[g] = stamp'[g] => c[g] = content'[g]
  BY <1>2, <1>4, <1>10 DEF Agrees
<1>11. CachesAgree'
  <2>1. \A l \in loaded' : l[2] = stamp'[l[1]] => l[3] = content'[l[1]]
    BY <1>2, <1>3, <1>4, <1>6 DEF StampsPassed, CachesAgree
  <2>2. \A p \in payloads' : \A g \in Files : p[1][g] = stamp'[g] => p[2][g] = content'[g]
    BY <1>3, <1>7, <1>10 DEF StampsPassed, CachesAgree
  <2>3. \A r \in responses' : \A g \in Files : r[2][g] = stamp'[g] => r[3][g] = content'[g]
    BY <1>3, <1>7, <1>10 DEF StampsPassed, CachesAgree
  <2> QED BY <2>1, <2>2, <2>3 DEF CachesAgree, Agrees
<1>12. ASSUME NEW t \in Threads PROVE ThreadAgrees(t)'
  <2>1. \A g \in Files : signature[t][g] \in Nat /\ signature[t][g] <= now
    BY <1>8 DEF StampsPassed
  <2>2. ThreadAgrees(t)
    OBVIOUS
  <2>3. pc[t] \in Signed =>
          \A g \in Files : signature[t][g] = stamp'[g] => snapshot[t][g] = content'[g]
    BY <1>10, <2>1, <2>2 DEF ThreadAgrees
  <2>4. pc[t] \in {"stat", "open"} =>
          \A g \in Files : g < at[t] /\ signature[t][g] = stamp'[g] => got[t][g] = content'[g]
    BY <1>2, <1>4, <2>1, <2>2 DEF ThreadAgrees
  <2>5. pc[t] \in {"recheck", "check"} =>
          \A g \in Files : signature[t][g] = stamp'[g] => got[t][g] = content'[g]
    BY <1>10, <2>1, <2>2 DEF ThreadAgrees
  <2> QED BY <1>3, <2>2, <2>3, <2>4, <2>5 DEF ThreadAgrees, Agrees
<1> QED BY <1>9, <1>11, <1>12

\* The steps of a thread that fill the caches, and all others, keep what is cached true.
LEMMA CachesStep ==
  ASSUME AgreeInv, NEW t \in Threads, Answer(t)
  PROVE  CachesAgree'
<1> USE DEF AgreeInv
<1>1. TypeOK
  BY DEF TInv
<1>2. UNCHANGED <<stamp, content>>
  BY DEF Answer, Enter, Sign, Ensure, Stat, Open, Recheck, Check, Reply, sources
<1>3. ASSUME NEW c, pc[t] \in {"stat", "open"}, c = content[at[t]],
             Assemble(t, [got[t] EXCEPT ![at[t]] = c])
      PROVE  \A p \in payloads' : Agrees(p[1], p[2])
  <2> DEFINE v == [got[t] EXCEPT ![at[t]] = c]
  <2>1. at[t] \in Files /\ got[t] \in [Files -> Contents \cup {None}]
    BY <1>1 DEF TypeOK
  <2>2. \A f \in Files : f < N \/ f = N
    BY FilesNat, ReaderOK
  <2>3. at[t] = N => Agrees(signature[t], v)
    BY <1>3, <2>1, <2>2 DEF ThreadAgrees, Agrees
  <2>4. payloads' = payloads \/ (at[t] = N /\ payloads' = payloads \cup {<<signature[t], v>>})
    BY <1>1, <1>3, AssembleEffect
  <2> HIDE DEF v
  <2> QED BY <2>3, <2>4 DEF CachesAgree
<1>4. ASSUME loaded' = loaded, payloads' = payloads, responses' = responses
      PROVE  CachesAgree'
  BY <1>2, <1>4 DEF CachesAgree, Agrees
<1>5. CASE Enter(t) \/ Sign(t) \/ Check(t) \/ Reply(t)
  BY <1>4, <1>5 DEF Enter, Sign, Check, Reply, caches
<1>6. CASE Ensure(t)
  <2>1. loaded' \subseteq loaded /\ payloads' \subseteq payloads /\ responses' \subseteq responses
    BY <1>6 DEF Ensure, Kept
  <2> QED BY <1>2, <2>1 DEF CachesAgree, Agrees
<1>7. CASE Stat(t)
  <2>1. loaded' = loaded /\ responses' = responses /\ pc[t] = "stat"
    BY <1>7 DEF Stat
  <2>2. CASE \E l \in loaded : /\ l[1] = at[t] /\ l[2] = StampOf(at[t])
                               /\ Assemble(t, [got[t] EXCEPT ![at[t]] = l[3]])
    <3>1. PICK l \in loaded : /\ l[1] = at[t] /\ l[2] = StampOf(at[t])
                              /\ Assemble(t, [got[t] EXCEPT ![at[t]] = l[3]])
      BY <2>2
    <3>2. l[3] = content[at[t]]
      BY <3>1 DEF CachesAgree, StampOf
    <3>3. \A p \in payloads' : Agrees(p[1], p[2])
      BY <1>3, <2>1, <3>1, <3>2
    <3> QED BY <1>2, <2>1, <3>3 DEF CachesAgree, Agrees
  <2>3. CASE UNCHANGED payloads
    BY <1>4, <2>1, <2>3
  <2> QED BY <1>7, <2>2, <2>3 DEF Stat
<1>8. CASE Open(t)
  <2>1. responses' = responses /\ pc[t] = "open"
    BY <1>8 DEF Open
  <2>2. \A p \in payloads' : Agrees(p[1], p[2])
    BY <1>3, <1>8 DEF Open
  <2>3. \A l \in loaded' : l \in loaded \/ l = <<at[t], seen[t], content[at[t]]>>
    BY <1>8 DEF Open
  <2>4. \A l \in loaded' : l[2] = stamp[l[1]] => l[3] = content[l[1]]
    BY <2>3 DEF CachesAgree
  <2> QED BY <1>2, <2>1, <2>2, <2>4 DEF CachesAgree, Agrees
<1>9. CASE Recheck(t)
  <2>1. loaded' = loaded /\ payloads' = payloads
    BY <1>9 DEF Recheck
  <2>2. CASE responses' = responses
    BY <1>4, <2>1, <2>2
  <2>3. CASE responses' = responses \cup {<<Route[t], signature[t], got[t]>>}
    <3>1. Agrees(signature[t], got[t])
      BY <1>9 DEF Recheck, ThreadAgrees
    <3> QED BY <1>2, <2>1, <2>3, <3>1 DEF CachesAgree, Agrees
  <2> QED BY <1>9, <2>2, <2>3 DEF Recheck
<1> QED BY <1>5, <1>6, <1>7, <1>8, <1>9 DEF Answer

LEMMA StampsStep ==
  ASSUME AgreeInv, NEW t \in Threads, Answer(t)
  PROVE  StampsPassed'
<1> USE DEF AgreeInv
<1>1. TypeOK
  BY DEF TInv
<1>2. UNCHANGED <<now, stamp>>
  BY DEF Answer, Enter, Sign, Ensure, Stat, Open, Recheck, Check, Reply, sources
<1>3. now \in Nat /\ \A f \in Files : stamp[f] <= now
  BY <1>1 DEF StampsPassed, TypeOK
<1>4. at[t] \in Files /\ StampOf(at[t]) <= now
  BY <1>1, <1>3 DEF TypeOK, StampOf
<1>5. ASSUME NEW u \in Threads, u # t PROVE seen'[u] <= now /\ \A f \in Files : signature'[u][f] <= now
  BY <1>1, <1>5, OthersKeep DEF Keeps, StampsPassed
<1>6. \A f \in Files : Unknown[f] <= now
  BY <1>3 DEF Unknown
<1>7. ASSUME /\ seen'[t] <= now /\ \A f \in Files : signature'[t][f] <= now
             /\ \A l \in loaded' : l[2] <= now
             /\ \A p \in payloads' : \A f \in Files : p[1][f] <= now
             /\ \A r \in responses' : \A f \in Files : r[2][f] <= now
      PROVE  StampsPassed'
  <2>1. \A u \in Threads : seen'[u] <= now /\ \A f \in Files : signature'[u][f] <= now
    BY <1>5, <1>7
  <2> QED BY <1>2, <1>3, <1>7, <2>1 DEF StampsPassed
<1>8. seen[t] <= now /\ \A f \in Files : signature[t][f] <= now
  BY DEF StampsPassed
<1>9. /\ \A l \in loaded : l[2] <= now
      /\ \A p \in payloads : \A f \in Files : p[1][f] <= now
      /\ \A r \in responses : \A f \in Files : r[2][f] <= now
  BY DEF StampsPassed
<1>10. CASE Enter(t)
  BY <1>7, <1>8, <1>9, <1>10 DEF Enter, caches, build
<1>11. CASE Sign(t)
  <2>1. \A f \in Files : signature'[t][f] <= now
    BY <1>1, <1>4, <1>8, <1>11 DEF Sign, TypeOK, Stamps
  <2> QED BY <1>7, <1>8, <1>9, <1>11, <2>1 DEF Sign, caches
<1>12. CASE Ensure(t)
  <2>1. loaded' \subseteq loaded /\ payloads' \subseteq payloads /\ responses' \subseteq responses
    BY <1>12 DEF Ensure, Kept
  <2> QED BY <1>7, <1>8, <1>9, <1>12, <2>1 DEF Ensure
<1>13. ASSUME NEW v, Assemble(t, v)
       PROVE  \A p \in payloads' : \A f \in Files : p[1][f] <= now
  BY <1>1, <1>8, <1>9, <1>13, AssembleEffect
<1>14. CASE Stat(t)
  <2>1. loaded' = loaded /\ responses' = responses /\ signature' = signature
    BY <1>14 DEF Stat
  <2>2. CASE \E l \in loaded : UNCHANGED seen /\ Assemble(t, [got[t] EXCEPT ![at[t]] = l[3]])
    BY <1>7, <1>8, <1>9, <1>13, <2>1, <2>2
  <2>3. CASE seen' = [seen EXCEPT ![t] = StampOf(at[t])] /\ UNCHANGED payloads
    <3>1. seen'[t] <= now
      BY <1>1, <1>4, <2>3 DEF TypeOK
    <3> QED BY <1>7, <1>8, <1>9, <2>1, <2>3, <3>1
  <2> QED BY <1>14, <2>2, <2>3 DEF Stat
<1>15. CASE Open(t)
  <2>1. seen'[t] <= now
    BY <1>1, <1>3, <1>15 DEF Open, TypeOK
  <2>2. \A l \in loaded' : l[2] <= now
    BY <1>8, <1>9, <1>15 DEF Open
  <2>3. \A p \in payloads' : \A f \in Files : p[1][f] <= now
    BY <1>13, <1>15 DEF Open
  <2> QED BY <1>7, <1>8, <1>9, <1>15, <2>1, <2>2, <2>3 DEF Open
<1>16. CASE Recheck(t)
  <2>1. UNCHANGED <<loaded, payloads, seen>>
    BY <1>16 DEF Recheck
  <2>2. CASE Unmoved(t)
    <3>1. signature' = signature /\ (\/ responses' = responses
                                     \/ responses' = responses \cup {<<Route[t], signature[t], got[t]>>})
      BY <1>16, <2>2 DEF Recheck
    <3>2. \A r \in responses' : \A f \in Files : r[2][f] <= now
      BY <1>8, <1>9, <3>1
    <3> QED BY <1>7, <1>8, <1>9, <2>1, <3>1, <3>2
  <2>3. CASE ~ Unmoved(t)
    BY <1>1, <1>6, <1>7, <1>8, <1>9, <1>16, <2>1, <2>3, RetryEffect DEF Recheck
  <2> QED BY <2>2, <2>3
<1>17. CASE Check(t)
  <2>1. UNCHANGED <<loaded, payloads, responses, seen>>
    BY <1>17 DEF Check, caches
  <2>2. CASE Unmoved(t)
    BY <1>7, <1>8, <1>9, <1>17, <2>1, <2>2 DEF Check
  <2>3. CASE ~ Unmoved(t)
    BY <1>1, <1>6, <1>7, <1>8, <1>9, <1>17, <2>1, <2>3, RetryEffect DEF Check
  <2> QED BY <2>2, <2>3
<1>18. CASE Reply(t)
  BY <1>1, <1>6, <1>7, <1>8, <1>9, <1>18, ForgetEffect DEF Reply, caches
<1> QED BY <1>10, <1>11, <1>12, <1>14, <1>15, <1>16, <1>17, <1>18 DEF Answer

\* Two collections of the stamps that agree enclose a moment: what was read between them
\* is what the files said then.
LEMMA ThreadStep ==
  ASSUME AgreeInv, NEW t \in Threads, Answer(t)
  PROVE  ThreadAgrees(t)'
<1> USE DEF AgreeInv
<1>1. TypeOK /\ ReadSoFar
  BY DEF TInv
<1>2. UNCHANGED <<stamp, content>>
  BY DEF Answer, Enter, Sign, Ensure, Stat, Open, Recheck, Check, Reply, sources
<1>3. ThreadAgrees(t)
  OBVIOUS
<1>4. at[t] \in Files /\ at[t] \in Nat /\ got[t] \in [Files -> Contents \cup {None}]
  BY <1>1, FilesNat DEF TypeOK
<1>5. \A f \in Files : ~ (f < 1) /\ (f < N \/ f = N) /\ (f < at[t] + 1 => f < at[t] \/ f = at[t])
  BY <1>4, FilesNat, ReaderOK
<1>6. CASE Enter(t)
  BY <1>1, <1>6, MoveEffect DEF Enter, ThreadAgrees, Signed
<1>7. CASE Sign(t)
  <2>1. CASE at[t] = N
    <3>1. pc'[t] = "ensure" /\ snapshot'[t] = content
      BY <1>1, <1>7, <2>1, MoveEffect DEF Sign, TypeOK
    <3> QED BY <1>2, <3>1 DEF ThreadAgrees, Agrees
  <2>2. CASE at[t] # N
    <3>1. pc'[t] = "sign"
      BY <1>1, <1>7, <2>2, MoveEffect DEF Sign
    <3> QED BY <3>1 DEF ThreadAgrees, Signed
  <2> QED BY <2>1, <2>2
<1>8. CASE Ensure(t)
  <2>1. signature' = signature /\ snapshot' = snapshot
    BY <1>8 DEF Ensure
  <2>2. Agrees(signature[t], snapshot[t])
    BY <1>3, <1>8 DEF Ensure, ThreadAgrees, Signed
  <2>3. CachesAgree'
    BY <1>8, CachesStep
  <2>4. CASE \E r \in responses' : r[2] = signature[t] /\ got' = [got EXCEPT ![t] = r[3]] /\ Goto(t, "check")
    <3>1. PICK r \in responses' : r[2] = signature[t] /\ got' = [got EXCEPT ![t] = r[3]]
      BY <2>4
    <3>2. got'[t] = r[3]
      BY <1>1, <3>1 DEF TypeOK
    <3>3. \A f \in Files : signature[t][f] = stamp'[f] => got'[t][f] = content'[f]
      BY <2>3, <3>1, <3>2 DEF CachesAgree, Agrees
    <3>4. pc'[t] = "check" /\ at'[t] = 1
      BY <1>1, <2>4, MoveEffect
    <3> QED BY <1>2, <1>5, <2>1, <2>2, <3>3, <3>4 DEF ThreadAgrees, Agrees
  <2>5. CASE \E p \in payloads' : p[1] = signature[t] /\ got' = [got EXCEPT ![t] = p[2]] /\ Goto(t, "recheck")
    <3>1. PICK p \in payloads' : p[1] = signature[t] /\ got' = [got EXCEPT ![t] = p[2]]
      BY <2>5
    <3>2. got'[t] = p[2]
      BY <1>1, <3>1 DEF TypeOK
    <3>3. \A f \in Files : signature[t][f] = stamp'[f] => got'[t][f] = content'[f]
      BY <2>3, <3>1, <3>2 DEF CachesAgree, Agrees
    <3>4. pc'[t] = "recheck"
      BY <1>1, <2>5, MoveEffect
    <3> QED BY <1>2, <2>1, <2>2, <3>3, <3>4 DEF ThreadAgrees, Agrees
  <2>6. CASE Goto(t, "stat")
    <3>1. pc'[t] = "stat" /\ at'[t] = 1
      BY <1>1, <2>6, MoveEffect
    <3> QED BY <1>2, <1>5, <2>1, <2>2, <3>1 DEF ThreadAgrees, Agrees
  <2> QED BY <1>8, <2>4, <2>5, <2>6 DEF Ensure
<1>9. ASSUME NEW c, pc[t] \in {"stat", "open"}, c = content[at[t]],
             UNCHANGED <<signature, snapshot>>, Assemble(t, [got[t] EXCEPT ![at[t]] = c])
      PROVE  ThreadAgrees(t)'
  <2>1. Agrees(signature[t], snapshot[t])
    BY <1>3, <1>9 DEF ThreadAgrees, Signed
  <2>2. \A f \in Files : f < at[t] /\ signature[t][f] = stamp[f] => got[t][f] = content[f]
    BY <1>3, <1>9 DEF ThreadAgrees
  <2>3. got'[t] = [got[t] EXCEPT ![at[t]] = c]
    BY <1>1, <1>9, AssembleEffect
  <2>4. \A f \in Files : f < at[t] + 1 /\ signature[t][f] = stamp[f] => got'[t][f] = content[f]
    BY <1>4, <1>5, <1>9, <2>2, <2>3
  <2>5. CASE at[t] = N
    <3>1. pc'[t] = "recheck"
      BY <1>1, <1>9, <2>5, AssembleEffect
    <3>2. \A f \in Files : f < N + 1
      BY FilesNat, ReaderOK
    <3> QED BY <1>2, <1>9, <2>1, <2>4, <2>5, <3>1, <3>2 DEF ThreadAgrees, Agrees
  <2>6. CASE at[t] # N
    <3>1. pc'[t] = "stat" /\ at'[t] = at[t] + 1
      BY <1>1, <1>9, <2>6, AssembleEffect
    <3> QED BY <1>2, <1>9, <2>1, <2>4, <3>1 DEF ThreadAgrees, Agrees
  <2> QED BY <2>5, <2>6
<1>10. CASE Stat(t)
  <2>1. UNCHANGED <<signature, snapshot>> /\ pc[t] = "stat"
    BY <1>10 DEF Stat
  <2>2. CASE \E l \in loaded : /\ l[1] = at[t] /\ l[2] = StampOf(at[t])
                               /\ Assemble(t, [got[t] EXCEPT ![at[t]] = l[3]])
    <3>1. PICK l \in loaded : /\ l[1] = at[t] /\ l[2] = StampOf(at[t])
                              /\ Assemble(t, [got[t] EXCEPT ![at[t]] = l[3]])
      BY <2>2
    <3>2. l[3] = content[at[t]]
      BY <3>1 DEF CachesAgree, StampOf
    <3> QED BY <1>9, <2>1, <3>1, <3>2
  <2>3. CASE pc' = [pc EXCEPT ![t] = "open"] /\ UNCHANGED <<at, got, payloads>>
    <3>1. pc'[t] = "open"
      BY <1>1, <2>3 DEF TypeOK
    <3> QED BY <1>2, <1>3, <2>1, <2>3, <3>1 DEF ThreadAgrees, Agrees, Signed
  <2> QED BY <1>10, <2>2, <2>3 DEF Stat
<1>11. CASE Open(t)
  BY <1>9, <1>11 DEF Open
<1>12. CASE Recheck(t)
  <2>1. CASE Unmoved(t)
    <3>1. Onward(t, "check") /\ UNCHANGED <<signature, got, snapshot>> /\ pc[t] = "recheck"
      BY <1>12, <2>1 DEF Recheck
    <3>2. (pc'[t] = "check" /\ at'[t] = 1) \/ pc'[t] = "recheck"
      BY <1>1, <3>1, MoveEffect
    <3>3. Agrees(signature[t], snapshot[t]) /\ Agrees(signature[t], got[t])
      BY <1>3, <3>1 DEF ThreadAgrees, Signed
    <3> QED BY <1>2, <1>5, <3>1, <3>2, <3>3 DEF ThreadAgrees, Agrees
  <2>2. CASE ~ Unmoved(t)
    BY <1>1, <1>12, <2>2, RetryEffect DEF Recheck, ThreadAgrees, Signed
  <2> QED BY <2>1, <2>2
<1>13. CASE Check(t)
  <2>1. CASE Unmoved(t)
    <3>1. Onward(t, "answered") /\ UNCHANGED <<signature, got, snapshot>> /\ pc[t] = "check"
      BY <1>13, <2>1 DEF Check
    <3>2. Agrees(signature[t], snapshot[t]) /\ Agrees(signature[t], got[t])
      BY <1>3, <3>1 DEF ThreadAgrees, Signed
    <3>3. got[t][at[t]] = snapshot[t][at[t]]
      BY <1>4, <2>1, <3>2 DEF Unmoved, StampOf, Agrees
    <3>4. \A f \in Files : f < at[t] + 1 => got[t][f] = snapshot[t][f]
      BY <1>3, <1>5, <3>1, <3>3 DEF ThreadAgrees
    <3>5. CASE at[t] # N
      <4>1. pc'[t] = "check" /\ at'[t] = at[t] + 1
        BY <1>1, <3>1, <3>5, MoveEffect
      <4> QED BY <1>2, <3>1, <3>2, <3>4, <4>1 DEF ThreadAgrees, Agrees
    <3>6. CASE at[t] = N
      <4>1. pc'[t] = "answered"
        BY <1>1, <3>1, <3>6, MoveEffect
      <4>2. \A f \in Files : f < N + 1
        BY FilesNat, ReaderOK
      <4>3. got[t] \in Vectors
        BY <1>1, <3>1 DEF ReadSoFar
      <4>4. snapshot[t] \in Vectors \cup {Unread}
        BY <1>1 DEF TypeOK
      <4>5. got[t] = snapshot[t]
        BY <3>4, <3>6, <4>2, <4>3, <4>4 DEF Vectors, Unread
      <4> QED BY <3>1, <4>1, <4>5 DEF ThreadAgrees, Signed
    <3> QED BY <3>5, <3>6
  <2>2. CASE ~ Unmoved(t)
    BY <1>1, <1>13, <2>2, RetryEffect DEF Check, ThreadAgrees, Signed
  <2> QED BY <2>1, <2>2
<1>14. CASE Reply(t)
  BY <1>1, <1>14, MoveEffect DEF Reply, ThreadAgrees, Signed
<1> QED BY <1>6, <1>7, <1>8, <1>10, <1>11, <1>12, <1>13, <1>14 DEF Answer

\* The warm-up and the health check touch neither files nor caches.
LEMMA WarmKeeps ==
  ASSUME AgreeInv, NEW w \in Warmups, Warm(w)
  PROVE  StampsPassed' /\ CachesAgree' /\ ThreadAgrees(w)'
<1> USE DEF AgreeInv
<1>1. TypeOK /\ w \in Threads
  BY DEF TInv, Threads
<1>2. UNCHANGED <<sources, caches, seen>>
  BY DEF Warm, Collect, Begin, Finish, WarmupFails, build
<1>3. CachesAgree'
  BY <1>2 DEF sources, caches, CachesAgree, Agrees
<1>4. CASE /\ UNCHANGED <<signature, got, snapshot>>
           /\ \/ pc'[w] \in {"begin", "warming", "finish"}
              \/ pc'[w] = pc[w] /\ pc[w] \in {"idle", "answered"}
  <2>1. StampsPassed'
    BY <1>2, <1>4 DEF StampsPassed, sources, caches
  <2>2. ThreadAgrees(w)'
    BY <1>1, <1>2, <1>4 DEF ThreadAgrees, Signed, sources
  <2> QED BY <1>3, <2>1, <2>2
<1>5. CASE Forget(w) /\ pc'[w] = "done"
  <2>1. \A f \in Files : Unknown[f] = 0 /\ 0 <= now
    BY <1>1 DEF Unknown, TypeOK
  <2>2. \A t \in Threads : \A f \in Files : signature'[t][f] <= now
    BY <1>1, <1>5, <2>1, ForgetEffect DEF StampsPassed
  <2>3. StampsPassed'
    BY <1>2, <2>2 DEF StampsPassed, sources, caches
  <2>4. ThreadAgrees(w)'
    BY <1>5 DEF ThreadAgrees, Signed
  <2> QED BY <1>3, <2>3, <2>4
<1>6. CASE Collect(w, "idle", "begin")
  BY <1>1, <1>4, <1>6, MoveEffect DEF Collect, build
<1>7. CASE Collect(w, "answered", "finish")
  BY <1>1, <1>4, <1>7, MoveEffect DEF Collect, build
<1>8. CASE Begin(w)
  BY <1>1, <1>4, <1>8, MoveEffect DEF Begin, build
<1>9. CASE Finish(w) \/ WarmupFails(w)
  BY <1>1, <1>5, <1>9, MoveEffect DEF Finish, WarmupFails
<1> QED BY <1>6, <1>7, <1>8, <1>9 DEF Warm

LEMMA AgreeStep == AgreeInv /\ [Next]_vars => AgreeInv'
<1> SUFFICES ASSUME AgreeInv, [Next]_vars PROVE AgreeInv'
  OBVIOUS
<1>1. TInv' /\ TypeOK
  BY TypeStep, ReadStep DEF AgreeInv, TInv
<1>2. ASSUME NEW u \in Threads, Keeps(u), UNCHANGED sources PROVE ThreadAgrees(u)'
  BY <1>2 DEF AgreeInv, ThreadAgrees, Agrees, Signed, Keeps, sources
<1>3. ASSUME NEW f \in Files, Publish(f) PROVE AgreeInv'
  BY <1>1, <1>3, PublishAgrees DEF AgreeInv
<1>4. ASSUME NEW t \in Threads, Answer(t) PROVE AgreeInv'
  <2>1. UNCHANGED sources
    BY <1>4 DEF Answer, Enter, Sign, Ensure, Stat, Open, Recheck, Check, Reply
  <2>2. \A u \in Threads : ThreadAgrees(u)'
    BY <1>1, <1>2, <1>4, <2>1, ThreadStep, OthersKeep
  <2>3. StampsPassed' /\ CachesAgree'
    BY <1>4, StampsStep, CachesStep
  <2> QED BY <1>1, <2>2, <2>3 DEF AgreeInv
<1>5. ASSUME NEW w \in Warmups, Warm(w) PROVE AgreeInv'
  <2>1. UNCHANGED sources
    BY <1>5 DEF Warm, Collect, Begin, Finish, WarmupFails
  <2>2. \A u \in Threads : ThreadAgrees(u)'
    BY <1>1, <1>2, <1>5, <2>1, WarmKeeps, OthersKeep DEF Threads
  <2> QED BY <1>1, <1>5, <2>2, WarmKeeps DEF AgreeInv
<1>6. ASSUME \A u \in Threads : Keeps(u), UNCHANGED <<sources, caches>> PROVE AgreeInv'
  <2>1. \A u \in Threads : ThreadAgrees(u)'
    BY <1>2, <1>6
  <2>2. StampsPassed'
    BY <1>6 DEF AgreeInv, StampsPassed, Keeps, sources, caches
  <2>3. CachesAgree'
    BY <1>6 DEF AgreeInv, CachesAgree, Agrees, sources, caches
  <2> QED BY <1>1, <2>1, <2>2, <2>3 DEF AgreeInv
<1>7. ASSUME NEW p \in Probes, Health(p) PROVE AgreeInv'
  BY <1>1, <1>6, <1>7, ProbesKeep
<1>8. CASE UNCHANGED vars
  BY <1>6, <1>8 DEF vars, Keeps, build
<1> QED BY <1>3, <1>4, <1>5, <1>7, <1>8 DEF Next

\* build_public_api_response (dashboard/server.py:7434) answers with what all files said at
\* one moment of the request, for any number of files, requests and publications.
THEOREM AnswersAreSnapshots == Spec => []AnswerIsSnapshot
<1>1. AgreeInv => AnswerIsSnapshot
  BY DEF AgreeInv, ThreadAgrees, AnswerIsSnapshot
<1> QED BY <1>1, InitAgrees, AgreeStep, PTL DEF Spec

-----------------------------------------------------------------------------
(* Giving up.                                                              *)

\* Every attempt saw a publication that the attempts before it had not seen.
Patient(t) ==
  /\ pc[t] \in {"idle", "begin", "warming"} => attempt[t] = 1
  /\ pc[t] \in {"sign"} \cup Signed =>
       /\ since[t] + attempt[t] <= now + 1
       /\ \A f \in Files : pc[t] # "sign" \/ f < at[t] =>
            signature[t][f] = stamp[f] \/ since[t] + attempt[t] <= stamp[f]
  /\ pc[t] = "failed" => since[t] + Attempts <= now

PatienceInv == TInv /\ (\A f \in Files : stamp[f] <= now) /\ \A t \in Threads : Patient(t)

LEMMA PatienceStep == PatienceInv /\ [Next]_vars => PatienceInv'
<1> SUFFICES ASSUME PatienceInv, [Next]_vars PROVE PatienceInv'
  OBVIOUS
<1>1. TInv' /\ TypeOK /\ TypeOK'
  BY TypeStep, ReadStep DEF PatienceInv, TInv
<1>2. ASSUME NEW u \in Threads, Keeps(u), UNCHANGED sources PROVE Patient(u)'
  BY <1>2 DEF PatienceInv, Patient, Signed, Keeps, sources
<1>3. ASSUME NEW g \in Files, Publish(g) PROVE PatienceInv'
  <2>1. /\ now \in Nat /\ now' = now + 1 /\ stamp'[g] = now + 1
        /\ \A f \in Files : stamp[f] \in Nat /\ (f # g => stamp'[f] = stamp[f])
    BY <1>1, <1>3 DEF Publish, TypeOK, Stamps
  <2>2. \A f \in Files : stamp'[f] <= now'
    BY <2>1 DEF PatienceInv
  <2>3. UNCHANGED <<pc, at, attempt, since, signature>>
    BY <1>3 DEF Publish, build
  <2>4. ASSUME NEW t \in Threads PROVE Patient(t)'
    <3>1. since[t] \in Nat /\ attempt[t] \in Nat /\ Patient(t)
      BY <1>1, ReaderOK DEF TypeOK, PatienceInv
    <3>2. pc[t] \in {"sign"} \cup Signed =>
            /\ since[t] + attempt[t] <= now' + 1
            /\ \A f \in Files : pc[t] # "sign" \/ f < at[t] =>
                 signature[t][f] = stamp'[f] \/ since[t] + attempt[t] <= stamp'[f]
      BY <2>1, <3>1 DEF Patient
    <3>3. pc[t] = "failed" => since[t] + Attempts <= now'
      BY <2>1, <3>1, ReaderOK DEF Patient
    <3> QED BY <2>3, <3>1, <3>2, <3>3 DEF Patient
  <2> QED BY <1>1, <2>2, <2>4 DEF PatienceInv
<1>4. ASSUME NEW t \in Threads, Patient(t), Retry(t), ~ Unmoved(t), pc[t] \in Signed, UNCHANGED <<sources, since>>
      PROVE  Patient(t)'
  <2>1. at[t] \in Files /\ stamp[at[t]] # signature[t][at[t]] /\ stamp[at[t]] \in Nat
    BY <1>1, <1>4 DEF TypeOK, Unmoved, StampOf, Stamps
  <2>2. since[t] + attempt[t] <= stamp[at[t]] /\ stamp[at[t]] <= now
    BY <1>4, <2>1 DEF Patient, Signed, PatienceInv
  <2>3. since[t] \in Nat /\ attempt[t] \in Nat /\ now \in Nat
    BY <1>1, ReaderOK DEF TypeOK
  <2>4. since[t] + attempt[t] <= now
    BY <2>1, <2>2, <2>3
  <2>5. \A f \in Files : ~ (f < 1)
    BY FilesNat
  <2>6. CASE attempt[t] = Attempts
    BY <1>1, <1>4, <2>4, <2>6, RetryEffect DEF Patient, Signed, sources
  <2>7. CASE attempt[t] # Attempts
    <3>1. pc'[t] = "sign" /\ at'[t] = 1 /\ attempt'[t] = attempt[t] + 1
      BY <1>1, <1>4, <2>7, RetryEffect
    <3>2. since[t] + (attempt[t] + 1) <= now + 1
      BY <2>3, <2>4
    <3> QED BY <1>4, <2>5, <3>1, <3>2 DEF Patient, Signed, sources
  <2> QED BY <2>6, <2>7
<1>5. ASSUME NEW t \in Threads, Answer(t) PROVE Patient(t)'
  <2>0. /\ UNCHANGED <<now, stamp>> /\ UNCHANGED sources
        /\ Patient(t) /\ \A f \in Files : ~ (f < 1)
    BY <1>5, FilesNat DEF Answer, Enter, Sign, Ensure, Stat, Open, Recheck, Check, Reply, sources,
                          PatienceInv
  <2>1. CASE Enter(t)
    <3>1. pc'[t] = "sign" /\ at'[t] = 1 /\ since'[t] = now /\ attempt' = attempt
      BY <1>1, <2>1, MoveEffect DEF Enter, TypeOK
    <3>2. attempt[t] = 1 /\ now \in Nat
      BY <1>1, <2>0, <2>1 DEF Enter, Patient, TypeOK
    <3> QED BY <2>0, <3>1, <3>2 DEF Patient, Signed
  <2>2. CASE Sign(t)
    <3>1. UNCHANGED <<since, attempt>> /\ pc[t] = "sign"
      BY <2>2 DEF Sign
    <3>2. at[t] \in Files /\ signature'[t] = [signature[t] EXCEPT ![at[t]] = stamp[at[t]]]
      BY <1>1, <2>2 DEF Sign, StampOf, TypeOK
    <3>3. signature[t] \in [Files -> Nat]
      BY <1>1 DEF TypeOK, Stamps
    <3>4. \A f \in Files : f < at[t] + 1 => f < at[t] \/ f = at[t]
      BY <3>2, FilesNat
    <3>5. \A f \in Files : f < at[t] + 1 =>
            signature'[t][f] = stamp[f] \/ since[t] + attempt[t] <= stamp[f]
      BY <2>0, <3>1, <3>2, <3>3, <3>4 DEF Patient
    <3>6. CASE at[t] = N
      <4>1. pc'[t] = "ensure" /\ \A f \in Files : f < N + 1
        BY <1>1, <2>2, <3>6, MoveEffect, FilesNat, ReaderOK DEF Sign
      <4> QED BY <2>0, <3>1, <3>5, <3>6, <4>1 DEF Patient, Signed
    <3>7. CASE at[t] # N
      <4>1. pc'[t] = "sign" /\ at'[t] = at[t] + 1
        BY <1>1, <2>2, <3>7, MoveEffect DEF Sign
      <4> QED BY <2>0, <3>1, <3>5, <4>1 DEF Patient, Signed
    <3> QED BY <3>6, <3>7
  <2>3. ASSUME UNCHANGED <<since, attempt, signature>>, pc[t] \in Signed, pc'[t] \in Signed \cup {"answered"}
        PROVE  Patient(t)'
    BY <2>0, <2>3 DEF Patient, Signed
  <2>4. CASE Ensure(t)
    <3>1. Goto(t, "check") \/ Goto(t, "recheck") \/ Goto(t, "stat")
      BY <2>4 DEF Ensure
    <3>2. UNCHANGED <<since, attempt, signature>> /\ pc[t] = "ensure"
      BY <2>4 DEF Ensure
    <3> QED BY <1>1, <2>3, <3>1, <3>2, MoveEffect DEF Signed
  <2>5. CASE Stat(t)
    <3>1. CASE \E l \in loaded : Assemble(t, [got[t] EXCEPT ![at[t]] = l[3]])
      <4>1. pc'[t] \in Signed
        BY <1>1, <3>1, AssembleEffect DEF Signed
      <4> QED BY <2>3, <2>5, <4>1 DEF Stat, Signed
    <3>2. CASE pc' = [pc EXCEPT ![t] = "open"]
      <4>1. pc'[t] \in Signed
        BY <1>1, <3>2 DEF TypeOK, Signed
      <4> QED BY <2>3, <2>5, <4>1 DEF Stat, Signed
    <3> QED BY <2>5, <3>1, <3>2 DEF Stat
  <2>6. CASE Open(t)
    <3>1. pc'[t] \in Signed
      BY <1>1, <2>6, AssembleEffect DEF Open, Signed
    <3> QED BY <2>3, <2>6, <3>1 DEF Open, Signed
  <2>7. CASE Recheck(t)
    <3>1. CASE Unmoved(t)
      <4>1. Onward(t, "check") /\ pc[t] = "recheck" /\ UNCHANGED <<since, attempt, signature>>
        BY <2>7, <3>1 DEF Recheck
      <4> QED BY <1>1, <2>3, <4>1, MoveEffect DEF Signed
    <3>2. CASE ~ Unmoved(t)
      BY <1>4, <2>0, <2>7, <3>2 DEF Recheck, Signed
    <3> QED BY <3>1, <3>2
  <2>8. CASE Check(t)
    <3>1. CASE Unmoved(t)
      <4>1. Onward(t, "answered") /\ pc[t] = "check" /\ UNCHANGED <<since, attempt, signature>>
        BY <2>8, <3>1 DEF Check
      <4> QED BY <1>1, <2>3, <4>1, MoveEffect DEF Signed
    <3>2. CASE ~ Unmoved(t)
      BY <1>4, <2>0, <2>8, <3>2 DEF Check, Signed
    <3> QED BY <3>1, <3>2
  <2>9. CASE Reply(t)
    <3>1. pc'[t] = "idle" /\ attempt'[t] = 1
      BY <1>1, <2>9, MoveEffect DEF Reply, TypeOK
    <3> QED BY <3>1 DEF Patient, Signed
  <2> QED BY <1>5, <2>1, <2>2, <2>4, <2>5, <2>6, <2>7, <2>8, <2>9 DEF Answer
<1>6. ASSUME NEW w \in Warmups, Warm(w) PROVE Patient(w)'
  <2>0. w \in Threads /\ Patient(w)
    BY DEF Threads, PatienceInv
  <2>1. CASE Collect(w, "idle", "begin")
    BY <1>1, <2>0, <2>1, MoveEffect DEF Collect, Patient, Signed
  <2>2. CASE Collect(w, "answered", "finish")
    BY <1>1, <2>0, <2>2, MoveEffect DEF Collect, Patient, Signed
  <2>3. CASE Begin(w)
    BY <1>1, <2>0, <2>3, MoveEffect DEF Begin, Patient, Signed
  <2>4. CASE Finish(w) \/ WarmupFails(w)
    BY <1>1, <2>0, <2>4, MoveEffect DEF Finish, WarmupFails, Patient, Signed
  <2> QED BY <1>6, <2>1, <2>2, <2>3, <2>4 DEF Warm
<1>7. ASSUME UNCHANGED sources, \A u \in Threads : Patient(u)' PROVE PatienceInv'
  BY <1>1, <1>7 DEF PatienceInv, sources
<1>8. ASSUME NEW t \in Threads, Answer(t) PROVE PatienceInv'
  <2>1. UNCHANGED sources
    BY <1>8 DEF Answer, Enter, Sign, Ensure, Stat, Open, Recheck, Check, Reply
  <2> QED BY <1>1, <1>2, <1>5, <1>7, <1>8, <2>1, OthersKeep
<1>9. ASSUME NEW w \in Warmups, Warm(w) PROVE PatienceInv'
  <2>1. UNCHANGED sources
    BY <1>9 DEF Warm, Collect, Begin, Finish, WarmupFails
  <2> QED BY <1>1, <1>2, <1>6, <1>7, <1>9, <2>1, OthersKeep DEF Threads
<1>10. ASSUME NEW p \in Probes, Health(p) PROVE PatienceInv'
  BY <1>1, <1>2, <1>7, <1>10, ProbesKeep
<1>11. CASE UNCHANGED vars
  BY <1>2, <1>7, <1>11 DEF vars, Keeps, build, sources
<1> QED BY <1>3, <1>8, <1>9, <1>10, <1>11 DEF Next

\* SourceGenerationChanged reaches the client (dashboard/server.py:7507) only when as many
\* publications happened during the request as it has attempts.
THEOREM GivesUpWhenBusy == Spec => []GivesUpOnlyWhenBusy
<1>1. Init => PatienceInv
  <2> SUFFICES ASSUME Init PROVE PatienceInv
    OBVIOUS
  <2>1. \A f \in Files : stamp[f] <= now
    BY DEF Init, Unknown
  <2>2. \A t \in Threads : Patient(t)
    BY DEF Init, Patient, Signed
  <2> QED BY <2>1, <2>2, InitType DEF PatienceInv
<1>2. PatienceInv => GivesUpOnlyWhenBusy
  <2> SUFFICES ASSUME PatienceInv, NEW t \in Threads, pc[t] = "failed"
               PROVE  now - since[t] >= Attempts
    BY DEF GivesUpOnlyWhenBusy
  <2>1. since[t] + Attempts <= now
    BY DEF PatienceInv, Patient
  <2>2. since[t] \in Nat /\ now \in Nat /\ Attempts \in Nat
    BY ReaderOK DEF PatienceInv, TInv, TypeOK
  <2> QED BY <2>1, <2>2
<1> QED BY <1>1, <1>2, PatienceStep, PTL DEF Spec

-----------------------------------------------------------------------------
(* The health check.                                                       *)

\* Warm-up w has collected file f before it began, signed it, and collected it again.
Began(w, f)  == pc[w] = "begin" \/ (pc[w] = "idle" /\ f < at[w])
Noted(w, f)  == pc[w] \in Signed \cup {"answered", "finish"} \/ (pc[w] = "sign" /\ f < at[w])
Closed(w, f) == pc[w] = "finish" \/ (pc[w] = "answered" /\ f < at[w])

\* Stamps only grow: what is collected later is not smaller.
InOrder(w, f) ==
  /\ Began(w, f) \/ Closed(w, f) => token[w][f] <= stamp[f]
  /\ Noted(w, f) => signature[w][f] <= stamp[f]
  /\ Closed(w, f) => signature[w][f] <= token[w][f]
  /\ warmRun = w /\ Noted(w, f) => warmToken[f] <= signature[w][f]

ProbeInOrder(p) ==
  /\ pc[p] \in {"probing", "compare", "reported"} => \A f \in Files : moment[p][f] <= stamp[f]
  /\ pc[p] \in {"probing", "compare"} => /\ expected[p] = reported[p]
                                         /\ \A f \in Files : expected[p][f] <= moment[p][f]
  /\ \A f \in Files : pc[p] = "compare" \/ (pc[p] = "probing" /\ f < at[p])
                          => moment[p][f] <= token[p][f]
  /\ pc[p] = "reported" /\ reported[p] # None => reported[p] = moment[p]

ReadyInv ==
  /\ TInv
  /\ \A f \in Files : stamp[f] <= now
  /\ warmStatus = "ready" => warmGeneration = warmToken
  /\ \A f \in Files : warmToken[f] <= stamp[f]
  /\ \A w \in Warmups : pc[w] \in {"idle", "begin"} => warmRun # w
  /\ \A w \in Warmups, f \in Files : InOrder(w, f)
  /\ \A p \in Probes : ProbeInOrder(p)

LEMMA InitReady == Init => ReadyInv
<1> SUFFICES ASSUME Init PROVE ReadyInv
  OBVIOUS
<1>1. \A f \in Files : ~ (f < 1)
  BY FilesNat
<1>2. \A f \in Files : warmToken[f] <= stamp[f] /\ stamp[f] <= now
  BY DEF Init, Unknown
<1>3. \A w \in Warmups : w # None /\ pc[w] = "idle" /\ at[w] = 1
  BY ReaderOK DEF Init, Threads
<1>4. \A w \in Warmups, f \in Files : InOrder(w, f)
  BY <1>1, <1>3 DEF InOrder, Began, Noted, Closed, Signed
<1>5. \A p \in Probes : ProbeInOrder(p)
  BY <1>1 DEF Init, ProbeInOrder
<1> QED BY <1>2, <1>3, <1>4, <1>5, InitType DEF ReadyInv, Init

LEMMA Numbers ==
  ASSUME TypeOK
  PROVE  \A f \in Files :
           /\ f \in Nat /\ stamp[f] \in Nat /\ warmToken[f] \in Nat
           /\ \A t \in Threads : signature[t][f] \in Nat
           /\ \A t \in Warmups \cup Probes : token[t][f] \in Nat
           /\ \A p \in Probes : moment[p][f] \in Nat /\ expected[p][f] \in Nat
BY FilesNat DEF TypeOK, Stamps

\* A publication only raises stamps.
LEMMA PublishReady ==
  ASSUME ReadyInv, NEW g \in Files, Publish(g)
  PROVE  /\ \A f \in Files : stamp'[f] <= now'
         /\ \A f \in Files : warmToken'[f] <= stamp'[f]
         /\ \A w \in Warmups, f \in Files : InOrder(w, f)'
         /\ \A p \in Probes : ProbeInOrder(p)'
<1>1. TypeOK
  BY DEF ReadyInv, TInv
<1>2. \A f \in Files : stamp'[f] \in Nat /\ stamp[f] <= stamp'[f] /\ stamp'[f] <= now'
  <2>0. \A f \in Files : stamp[f] <= now
    BY DEF ReadyInv
  <2>1. now' = now + 1 /\ now \in Nat /\ stamp'[g] = now + 1 /\ \A f \in Files : f # g => stamp'[f] = stamp[f]
    BY <1>1 DEF Publish, TypeOK, Stamps
  <2> QED BY <1>1, <2>0, <2>1, Numbers
<1>3. \A n, f : n \in Nat /\ f \in Files /\ n <= stamp[f] => n <= stamp'[f]
  BY <1>1, <1>2, Numbers
<1>4. UNCHANGED <<pc, at, signature, token, warmRun, warmToken, expected, reported, moment>>
  BY DEF Publish, build, warm, probe
<1>5. \A f \in Files : warmToken'[f] <= stamp'[f]
  BY <1>1, <1>3, <1>4, Numbers DEF ReadyInv
<1>6. ASSUME NEW w \in Warmups, NEW f \in Files PROVE InOrder(w, f)'
  <2>1. InOrder(w, f)
    BY DEF ReadyInv
  <2>2. signature[w][f] \in Nat /\ token[w][f] \in Nat
    BY <1>1, Numbers DEF Threads
  <2>3. /\ Began(w, f) \/ Closed(w, f) => token[w][f] <= stamp'[f]
        /\ Noted(w, f) => signature[w][f] <= stamp'[f]
    BY <1>3, <2>1, <2>2 DEF InOrder
  <2>4. (Began(w, f)' <=> Began(w, f)) /\ (Noted(w, f)' <=> Noted(w, f)) /\ (Closed(w, f)' <=> Closed(w, f))
    BY <1>4 DEF Began, Noted, Closed
  <2> QED BY <1>4, <2>1, <2>3, <2>4 DEF InOrder
<1>7. ASSUME NEW p \in Probes PROVE ProbeInOrder(p)'
  <2>1. pc[p] \in {"probing", "compare", "reported"} => \A f \in Files : moment[p][f] <= stamp'[f]
    BY <1>1, <1>3, Numbers DEF ReadyInv, ProbeInOrder
  <2> QED BY <1>4, <2>1 DEF ReadyInv, ProbeInOrder
<1> QED BY <1>2, <1>5, <1>6, <1>7

LEMMA AnswerReady ==
  ASSUME ReadyInv, NEW t \in Threads, Answer(t)
  PROVE  /\ \A w \in Warmups : pc'[w] \in {"idle", "begin"} => warmRun' # w
         /\ \A w \in Warmups, f \in Files : InOrder(w, f)'
<1>1. TypeOK
  BY DEF ReadyInv, TInv
<1>2. UNCHANGED <<stamp, warm, token>>
  BY DEF Answer, Enter, Sign, Ensure, Stat, Open, Recheck, Check, Reply, sources
<1>3. \A w \in Warmups : w # t => Keeps(w)
  BY <1>1, OthersKeep DEF Threads
<1>4. ASSUME NEW w \in Warmups, NEW f \in Files, w # t PROVE InOrder(w, f)'
  BY <1>2, <1>3, <1>4 DEF ReadyInv, InOrder, Began, Noted, Closed, Keeps, warm
<1>5. ASSUME t \in Warmups PROVE pc'[t] \notin {"idle", "begin"} /\ \A f \in Files : InOrder(t, f)'
  <2>1. \A f \in Files : InOrder(t, f) /\ ~ (f < 1) /\ warmToken[f] <= stamp[f]
    BY <1>5, FilesNat DEF ReadyInv
  <2>2. t \notin Requests
    BY <1>5, ReaderOK
  <2>3. ASSUME UNCHANGED signature, pc[t] \in Signed, pc'[t] \in Signed \/ (pc'[t] = "answered" /\ at'[t] = 1)
        PROVE  pc'[t] \notin {"idle", "begin"} /\ \A f \in Files : InOrder(t, f)'
    BY <1>2, <2>1, <2>3 DEF InOrder, Began, Noted, Closed, Signed, warm
  <2>4. ASSUME Retry(t)
        PROVE  pc'[t] \notin {"idle", "begin"} /\ \A f \in Files : InOrder(t, f)'
    <3>1. at'[t] = 1 /\ pc'[t] \in {"sign", "failed"}
      BY <1>1, <2>4, RetryEffect
    <3> QED BY <2>1, <3>1 DEF InOrder, Began, Noted, Closed, Signed
  <2>5. CASE Enter(t)
    <3>1. at'[t] = 1 /\ pc'[t] = "sign"
      BY <1>1, <2>5, MoveEffect DEF Enter
    <3> QED BY <2>1, <3>1 DEF InOrder, Began, Noted, Closed, Signed
  <2>6. CASE Sign(t)
    <3>1. at[t] \in Files /\ signature[t] \in [Files -> Nat] /\ pc[t] = "sign"
      BY <1>1, <2>6 DEF Sign, TypeOK, Stamps
    <3>2. signature'[t] = [signature[t] EXCEPT ![at[t]] = stamp[at[t]]]
      BY <1>1, <2>6 DEF Sign, StampOf, TypeOK
    <3>3. ASSUME NEW f \in Files, f < at[t] \/ f = at[t]
          PROVE  signature'[t][f] <= stamp[f] /\ (warmRun = t => warmToken[f] <= signature'[t][f])
      <4>1. CASE f = at[t]
        <5>1. stamp[f] \in Nat /\ signature'[t][f] = stamp[f]
          BY <1>1, <3>1, <3>2, <4>1, Numbers
        <5> QED BY <2>1, <5>1
      <4>2. CASE f # at[t]
        BY <2>1, <3>1, <3>2, <3>3, <4>2 DEF InOrder, Noted
      <4> QED BY <4>1, <4>2
    <3>4. CASE at[t] = N
      <4>1. pc'[t] = "ensure"
        BY <1>1, <2>6, <3>4, MoveEffect DEF Sign
      <4>2. \A f \in Files : f < N \/ f = N
        BY FilesNat, ReaderOK
      <4> QED BY <1>2, <3>3, <3>4, <4>1, <4>2 DEF InOrder, Began, Noted, Closed, warm
    <3>5. CASE at[t] # N
      <4>1. pc'[t] = "sign" /\ at'[t] = at[t] + 1
        BY <1>1, <2>6, <3>5, MoveEffect DEF Sign
      <4>2. \A f \in Files : f < at[t] + 1 => f < at[t] \/ f = at[t]
        BY <3>1, FilesNat
      <4> QED BY <1>2, <3>3, <4>1, <4>2 DEF InOrder, Began, Noted, Closed, Signed, warm
    <3> QED BY <3>4, <3>5
  <2>7. CASE Ensure(t)
    <3>1. Goto(t, "check") \/ Goto(t, "recheck") \/ Goto(t, "stat")
      BY <2>7 DEF Ensure
    <3> QED BY <1>1, <2>3, <2>7, <3>1, MoveEffect DEF Ensure, Signed
  <2>8. CASE Stat(t)
    <3>1. CASE \E l \in loaded : Assemble(t, [got[t] EXCEPT ![at[t]] = l[3]])
      <4>1. pc'[t] \in Signed
        BY <1>1, <3>1, AssembleEffect DEF Signed
      <4> QED BY <2>3, <2>8, <4>1 DEF Stat, Signed
    <3>2. CASE pc' = [pc EXCEPT ![t] = "open"]
      <4>1. pc'[t] \in Signed
        BY <1>1, <3>2 DEF TypeOK, Signed
      <4> QED BY <2>3, <2>8, <4>1 DEF Stat, Signed
    <3> QED BY <2>8, <3>1, <3>2 DEF Stat
  <2>9. CASE Open(t)
    <3>1. pc'[t] \in Signed
      BY <1>1, <2>9, AssembleEffect DEF Open, Signed
    <3> QED BY <2>3, <2>9, <3>1 DEF Open, Signed
  <2>10. CASE Recheck(t)
    <3>1. CASE Unmoved(t)
      <4>1. Onward(t, "check") /\ pc[t] = "recheck" /\ UNCHANGED signature
        BY <2>10, <3>1 DEF Recheck
      <4>2. pc'[t] \in Signed
        BY <1>1, <4>1, MoveEffect DEF Signed
      <4> QED BY <2>3, <4>1, <4>2 DEF Signed
    <3>2. CASE ~ Unmoved(t)
      BY <2>4, <2>10, <3>2 DEF Recheck
    <3> QED BY <3>1, <3>2
  <2>11. CASE Check(t)
    <3>1. CASE Unmoved(t)
      <4>1. Onward(t, "answered") /\ pc[t] = "check" /\ UNCHANGED signature
        BY <2>11, <3>1 DEF Check
      <4>2. pc'[t] \in Signed \/ (pc'[t] = "answered" /\ at'[t] = 1)
        BY <1>1, <4>1, MoveEffect DEF Signed
      <4> QED BY <2>3, <4>1, <4>2 DEF Signed
    <3>2. CASE ~ Unmoved(t)
      BY <2>4, <2>11, <3>2 DEF Check
    <3> QED BY <3>1, <3>2
  <2>12. ~ Reply(t)
    BY <2>2 DEF Reply
  <2> QED BY <2>5, <2>6, <2>7, <2>8, <2>9, <2>10, <2>11, <2>12 DEF Answer
<1>6. \A w \in Warmups : pc'[w] \in {"idle", "begin"} => warmRun' # w
  BY <1>2, <1>3, <1>5 DEF ReadyInv, Keeps, warm
<1> QED BY <1>4, <1>5, <1>6

\* The newest warm-up is recorded as ready only when its first and its last look at the
\* files agree, and then the signature of its answer is the same.
LEMMA WarmReady ==
  ASSUME ReadyInv, NEW w \in Warmups, Warm(w)
  PROVE  /\ warmStatus' = "ready" => warmGeneration' = warmToken'
         /\ \A f \in Files : warmToken'[f] <= stamp'[f]
         /\ \A u \in Warmups : pc'[u] \in {"idle", "begin"} => warmRun' # u
         /\ \A u \in Warmups, f \in Files : InOrder(u, f)'
<1>1. TypeOK /\ w \in Threads
  BY DEF ReadyInv, TInv, Threads
<1>2. UNCHANGED <<stamp, content, now>>
  BY DEF Warm, Collect, Begin, Finish, WarmupFails, sources
<1>3. \A u \in Warmups : u # w => Keeps(u)
  BY <1>1, OthersKeep DEF Threads
<1>4. \A f \in Files : /\ InOrder(w, f) /\ ~ (f < 1) /\ stamp[f] \in Nat
                       /\ warmToken[f] <= stamp[f] /\ warmToken[f] \in Nat
                       /\ token[w][f] \in Nat /\ signature[w][f] \in Nat
  BY <1>1, FilesNat, Numbers DEF ReadyInv
<1>5. ASSUME NEW from, NEW to, Collect(w, from, to)
      PROVE  /\ UNCHANGED <<signature, warm>>
             /\ \A u \in Warmups : u # w => token'[u] = token[u]
             /\ at[w] \in Files /\ pc[w] = from
             /\ \A f \in Files : token'[w][f] = IF f = at[w] THEN stamp[f] ELSE token[w][f]
             /\ at[w] = N => pc'[w] = to /\ at'[w] = 1
             /\ at[w] # N => pc'[w] = from /\ at'[w] = at[w] + 1
             /\ \A f \in Files : (at[w] = N \/ f < at[w] + 1) => f < at[w] \/ f = at[w]
  <2>1. at[w] \in Files /\ at[w] \in Nat
    BY <1>1, FilesNat DEF TypeOK
  <2>2. token' = [token EXCEPT ![w][at[w]] = StampOf(at[w])]
    BY <1>5 DEF Collect
  <2>3. \A f \in Files : token'[w][f] = IF f = at[w] THEN stamp[f] ELSE token[w][f]
    BY <1>1, <2>1, <2>2 DEF TypeOK, StampOf, Stamps
  <2>4. \A u \in Warmups : u # w => token'[u] = token[u]
    BY <1>1, <2>2 DEF TypeOK
  <2>5. \A f \in Files : (at[w] = N \/ f < at[w] + 1) => f < at[w] \/ f = at[w]
    BY <2>1, FilesNat, ReaderOK
  <2>6. Onward(w, to) /\ UNCHANGED <<signature, warm>> /\ pc[w] = from
    BY <1>5 DEF Collect, build
  <2> QED BY <1>1, <2>1, <2>3, <2>4, <2>5, <2>6, MoveEffect
<1>6. CASE Collect(w, "idle", "begin")
  <2>1. \A u \in Warmups, f \in Files : u # w => InOrder(u, f)'
    BY <1>2, <1>3, <1>5, <1>6 DEF ReadyInv, InOrder, Began, Noted, Closed, Keeps, warm
  <2>2. ASSUME NEW f \in Files, Began(w, f)' PROVE token'[w][f] <= stamp'[f]
    <3>1. f < at[w] \/ f = at[w]
      BY <1>5, <1>6, <2>2 DEF Began
    <3>2. f < at[w] => token[w][f] <= stamp[f]
      BY <1>4, <1>5, <1>6 DEF InOrder, Began
    <3> QED BY <1>2, <1>4, <1>5, <1>6, <3>1, <3>2
  <2>3. pc'[w] \in {"idle", "begin"}
    BY <1>5, <1>6
  <2>4. \A f \in Files : InOrder(w, f)'
    BY <2>2, <2>3 DEF InOrder, Noted, Closed, Signed
  <2>5. \A u \in Warmups : pc'[u] \in {"idle", "begin"} => warmRun' # u
    BY <1>3, <1>5, <1>6 DEF ReadyInv, Keeps, warm
  <2>6. UNCHANGED <<warmStatus, warmGeneration, warmToken>>
    BY <1>5, <1>6 DEF warm
  <2> QED BY <1>2, <2>1, <2>4, <2>5, <2>6 DEF ReadyInv
<1>7. CASE Collect(w, "answered", "finish")
  <2>1. \A u \in Warmups, f \in Files : u # w => InOrder(u, f)'
    BY <1>2, <1>3, <1>5, <1>7 DEF ReadyInv, InOrder, Began, Noted, Closed, Keeps, warm
  <2>2. \A f \in Files : signature[w][f] <= stamp[f] /\ (warmRun = w => warmToken[f] <= signature[w][f])
    BY <1>4, <1>5, <1>7 DEF InOrder, Noted
  <2>3. ASSUME NEW f \in Files, Closed(w, f)'
        PROVE  token'[w][f] <= stamp[f] /\ signature[w][f] <= token'[w][f]
    <3>1. f < at[w] \/ f = at[w]
      BY <1>5, <1>7, <2>3 DEF Closed
    <3>2. f < at[w] => token[w][f] <= stamp[f] /\ signature[w][f] <= token[w][f]
      BY <1>4, <1>5, <1>7 DEF InOrder, Closed
    <3> QED BY <1>4, <1>5, <1>7, <2>2, <3>1, <3>2
  <2>4. pc'[w] \in {"answered", "finish"}
    BY <1>5, <1>7
  <2>5. UNCHANGED <<signature, warmRun, warmToken, warmStatus, warmGeneration>>
    BY <1>5, <1>7 DEF warm
  <2>6. \A f \in Files : InOrder(w, f)'
    BY <1>2, <2>2, <2>3, <2>4, <2>5 DEF InOrder, Began
  <2>7. \A u \in Warmups : pc'[u] \in {"idle", "begin"} => warmRun' # u
    BY <1>3, <2>4, <2>5 DEF ReadyInv, Keeps
  <2> QED BY <1>2, <2>1, <2>5, <2>6, <2>7 DEF ReadyInv
<1>8. CASE Begin(w)
  <2>1. /\ warmRun' = w /\ warmStatus' = "warming" /\ warmToken' = token[w]
        /\ pc[w] = "begin" /\ UNCHANGED <<signature, token>>
    BY <1>8 DEF Begin, build
  <2>2. pc'[w] = "warming"
    BY <1>1, <1>8, MoveEffect DEF Begin
  <2>3. \A f \in Files : token[w][f] <= stamp[f]
    BY <1>4, <2>1 DEF InOrder, Began
  <2>4. \A u \in Warmups, f \in Files : u # w => InOrder(u, f)'
    BY <1>2, <1>3, <2>1 DEF ReadyInv, InOrder, Began, Noted, Closed, Keeps
  <2>5. \A f \in Files : InOrder(w, f)'
    BY <2>2 DEF InOrder, Began, Noted, Closed, Signed
  <2>6. \A u \in Warmups : pc'[u] \in {"idle", "begin"} => warmRun' # u
    BY <2>1, <2>2
  <2> QED BY <1>2, <2>1, <2>3, <2>4, <2>5, <2>6
<1>9. CASE Finish(w)
  <2>1. pc[w] = "finish" /\ token' = token /\ warmRun' = warmRun
    BY <1>9 DEF Finish
  <2>2. pc'[w] = "done"
    BY <1>1, <1>9, MoveEffect DEF Finish
  <2>3. \A f \in Files : /\ token[w][f] <= stamp[f] /\ signature[w][f] <= token[w][f]
                         /\ warmRun = w => warmToken[f] <= signature[w][f]
    BY <1>4, <2>1 DEF InOrder, Closed, Noted
  <2>4. warmRun = w /\ token[w] = warmToken => signature[w] = token[w]
    <3>1. signature[w] \in Stamps /\ token[w] \in Stamps
      BY <1>1 DEF TypeOK
    <3>2. ASSUME warmRun = w, token[w] = warmToken, NEW f \in Files PROVE signature[w][f] = token[w][f]
      <4>1. token[w][f] = warmToken[f]
        BY <3>2
      <4>2. warmToken[f] <= signature[w][f] /\ signature[w][f] <= token[w][f]
        BY <2>3, <3>2
      <4> QED BY <1>4, <4>1, <4>2
    <3> QED BY <3>1, <3>2 DEF Stamps
  <2>5. warmStatus' = "ready" => warmGeneration' = warmToken'
    BY <1>9, <2>4 DEF Finish, ReadyInv
  <2>6. warmToken' = warmToken \/ (warmToken' = token[w] /\ warmRun = w)
    BY <1>9 DEF Finish
  <2>7. \A f \in Files : warmToken'[f] <= stamp'[f]
    <3>1. CASE warmToken' = warmToken  BY <1>2, <1>4, <3>1
    <3>2. CASE warmToken' = token[w]
      <4>1. \A f \in Files : warmToken'[f] = token[w][f]
        BY <3>2
      <4> QED BY <1>2, <2>3, <4>1
    <3> QED BY <2>6, <3>1, <3>2
  <2>8. \A f \in Files : InOrder(w, f)'
    BY <2>2 DEF InOrder, Began, Noted, Closed, Signed
  <2>9. \A u \in Warmups, f \in Files : u # w => InOrder(u, f)'
    BY <1>2, <1>3, <2>1, <2>6 DEF ReadyInv, InOrder, Began, Noted, Closed, Keeps
  <2>10. \A u \in Warmups : pc'[u] \in {"idle", "begin"} => warmRun' # u
    BY <1>3, <2>1, <2>2 DEF ReadyInv, Keeps
  <2> QED BY <2>5, <2>7, <2>8, <2>9, <2>10
<1>10. CASE WarmupFails(w)
  <2>1. token' = token /\ warmRun' = warmRun /\ warmToken' = warmToken
    BY <1>10 DEF WarmupFails
  <2>2. pc'[w] = "done"
    BY <1>1, <1>10, MoveEffect DEF WarmupFails
  <2>3. warmStatus' = "ready" => warmGeneration' = warmToken'
    BY <1>10 DEF WarmupFails, ReadyInv
  <2>4. \A f \in Files : InOrder(w, f)'
    BY <2>2 DEF InOrder, Began, Noted, Closed, Signed
  <2>5. \A u \in Warmups, f \in Files : u # w => InOrder(u, f)'
    BY <1>2, <1>3, <2>1 DEF ReadyInv, InOrder, Began, Noted, Closed, Keeps
  <2>6. \A u \in Warmups : pc'[u] \in {"idle", "begin"} => warmRun' # u
    BY <1>3, <2>1, <2>2 DEF ReadyInv, Keeps
  <2> QED BY <1>2, <1>4, <2>1, <2>3, <2>4, <2>5, <2>6
<1> QED BY <1>6, <1>7, <1>8, <1>9, <1>10 DEF Warm

\* The record is taken before the files are looked at, so files that match it were the
\* published ones at the moment it was taken.
LEMMA ProbeReady ==
  ASSUME ReadyInv, NEW p \in Probes, Health(p)
  PROVE  \A q \in Probes : ProbeInOrder(q)'
<1>1. TypeOK
  BY DEF ReadyInv, TInv
<1>2. UNCHANGED <<stamp, warm>>
  BY <1>1, ProbesKeep DEF sources
<1>3. ProbeInOrder(p) /\ \A f \in Files : ~ (f < 1)
  BY FilesNat DEF ReadyInv
<1>4. \A f \in Files : /\ stamp[f] \in Nat /\ warmToken[f] \in Nat /\ token[p][f] \in Nat
                       /\ moment[p][f] \in Nat /\ expected[p][f] \in Nat
  BY <1>1, Numbers
<1>5. CASE Peek(p)
  <2>1. \A q \in Probes : q # p => ProbeInOrder(q)'
    BY <1>1, <1>2, <1>5, MoveEffect DEF Peek, TypeOK, ReadyInv, ProbeInOrder
  <2>2. expected'[p] = warmToken /\ reported'[p] = warmGeneration /\ moment'[p] = stamp
    BY <1>1, <1>5 DEF Peek, TypeOK
  <2>3. pc'[p] = "probing" /\ at'[p] = 1 /\ warmGeneration = warmToken
    BY <1>1, <1>5, MoveEffect DEF Peek, ReadyInv
  <2>4. \A f \in Files : warmToken[f] <= stamp[f] /\ stamp[f] <= stamp[f]
    BY <1>4 DEF ReadyInv
  <2>5. ProbeInOrder(p)'
    BY <1>2, <1>3, <2>2, <2>3, <2>4 DEF ProbeInOrder
  <2> QED BY <2>1, <2>5
<1>6. CASE Collect(p, "probing", "compare")
  <2>1. UNCHANGED <<expected, reported, moment>> /\ pc[p] = "probing" /\ Onward(p, "compare")
    BY <1>6 DEF Collect, probe
  <2>2. token' = [token EXCEPT ![p][at[p]] = StampOf(at[p])]
    BY <1>6 DEF Collect
  <2>3. \A q \in Probes : q # p => ProbeInOrder(q)'
    BY <1>1, <1>2, <2>1, <2>2, MoveEffect DEF TypeOK, ReadyInv, ProbeInOrder
  <2>4. at[p] \in Files /\ at[p] \in Nat
    BY <1>1, FilesNat DEF TypeOK
  <2>5. \A f \in Files : token'[p][f] = IF f = at[p] THEN stamp[f] ELSE token[p][f]
    BY <1>1, <2>2, <2>4 DEF TypeOK, StampOf, Stamps
  <2>6. \A f \in Files : f < at[p] \/ f = at[p] => moment[p][f] <= token'[p][f]
    BY <1>3, <2>1, <2>5 DEF ProbeInOrder
  <2>7. \A f \in Files : (at[p] = N \/ f < at[p] + 1) => f < at[p] \/ f = at[p]
    BY <2>4, FilesNat, ReaderOK
  <2>8. CASE at[p] = N
    <3>1. pc'[p] = "compare"
      BY <1>1, <2>1, <2>8, MoveEffect
    <3> QED BY <1>2, <1>3, <2>1, <2>3, <2>6, <2>7, <2>8, <3>1 DEF ProbeInOrder
  <2>9. CASE at[p] # N
    <3>1. pc'[p] = "probing" /\ at'[p] = at[p] + 1
      BY <1>1, <2>1, <2>9, MoveEffect
    <3> QED BY <1>2, <1>3, <2>1, <2>3, <2>6, <2>7, <3>1 DEF ProbeInOrder
  <2> QED BY <2>8, <2>9
<1>7. CASE Report(p)
  <2>1. UNCHANGED <<expected, moment, token>> /\ pc[p] = "compare"
    BY <1>7 DEF Report
  <2>2. pc'[p] = "reported"
    BY <1>1, <1>7, MoveEffect DEF Report
  <2>3. \A q \in Probes : q # p => reported'[q] = reported[q]
    BY <1>1, <1>7 DEF Report, TypeOK
  <2>4. \A q \in Probes : q # p => ProbeInOrder(q)'
    BY <1>1, <1>2, <1>7, <2>1, <2>3, MoveEffect DEF Report, ReadyInv, ProbeInOrder
  <2>5. CASE token[p] = expected[p]
    <3>1. \A f \in Files : expected[p][f] <= moment[p][f] /\ moment[p][f] <= token[p][f]
      BY <1>3, <2>1 DEF ProbeInOrder
    <3>2. \A f \in Files : expected[p][f] = moment[p][f]
      BY <1>4, <2>5, <3>1
    <3>3. expected[p] \in Stamps /\ moment[p] \in Stamps
      BY <1>1 DEF TypeOK
    <3>4. expected[p] = moment[p]
      BY <3>2, <3>3 DEF Stamps
    <3>5. reported' = reported /\ reported[p] = expected[p]
      BY <1>3, <1>7, <2>1, <2>5 DEF Report, ProbeInOrder
    <3>6. ProbeInOrder(p)'
      BY <1>2, <1>3, <2>1, <2>2, <3>4, <3>5 DEF ProbeInOrder
    <3> QED BY <2>4, <3>6
  <2>6. CASE token[p] # expected[p]
    <3>1. reported'[p] = None
      BY <1>1, <1>7, <2>6 DEF Report, TypeOK
    <3>2. ProbeInOrder(p)'
      BY <1>2, <1>3, <2>1, <2>2, <3>1 DEF ProbeInOrder
    <3> QED BY <2>4, <3>2
  <2> QED BY <2>5, <2>6
<1>8. CASE Respond(p)
  <2>1. pc'[p] = "idle"
    BY <1>1, <1>8, MoveEffect DEF Respond
  <2>2. \A q \in Probes : q # p => /\ expected'[q] = expected[q] /\ reported'[q] = reported[q]
                                   /\ moment'[q] = moment[q] /\ token'[q] = token[q]
    BY <1>1, <1>8 DEF Respond, TypeOK
  <2>3. \A q \in Probes : q # p => ProbeInOrder(q)'
    BY <1>1, <1>2, <1>8, <2>2, MoveEffect DEF Respond, ReadyInv, ProbeInOrder
  <2>4. ProbeInOrder(p)'
    BY <2>1 DEF ProbeInOrder
  <2> QED BY <2>3, <2>4
<1> QED BY <1>5, <1>6, <1>7, <1>8 DEF Health

LEMMA ReadyStep == ReadyInv /\ [Next]_vars => ReadyInv'
<1> SUFFICES ASSUME ReadyInv, [Next]_vars PROVE ReadyInv'
  OBVIOUS
<1>1. TInv' /\ TypeOK
  BY TypeStep, ReadStep DEF ReadyInv, TInv
<1>2. ASSUME UNCHANGED sources PROVE \A f \in Files : stamp'[f] <= now'
  BY <1>2 DEF ReadyInv, sources
<1>3. ASSUME NEW t \in Threads, Keeps(t), UNCHANGED <<stamp, warm, token>>, t \in Warmups
      PROVE  \A f \in Files : InOrder(t, f)'
  BY <1>3 DEF ReadyInv, InOrder, Began, Noted, Closed, Keeps, warm
<1>4. ASSUME UNCHANGED <<stamp, probe, moment>>, \A p \in Probes : pc'[p] = pc[p] /\ at'[p] = at[p] /\ token'[p] = token[p]
      PROVE  \A p \in Probes : ProbeInOrder(p)'
  BY <1>4 DEF ReadyInv, ProbeInOrder, probe
<1>5. ASSUME NEW g \in Files, Publish(g) PROVE ReadyInv'
  <2>1. UNCHANGED <<pc, warm>>
    BY <1>5 DEF Publish
  <2> QED BY <1>1, <1>5, <2>1, PublishReady DEF ReadyInv, warm
<1>6. \A p \in Probes : p \notin Threads
  BY ReaderOK
<1>7. ASSUME NEW t \in Threads, Answer(t) PROVE ReadyInv'
  <2>1. UNCHANGED <<sources, warm, token, probe, moment>>
    BY <1>7 DEF Answer, Enter, Sign, Ensure, Stat, Open, Recheck, Check, Reply
  <2>2. \A p \in Probes : pc'[p] = pc[p] /\ at'[p] = at[p]
    BY <1>1, <1>6, <1>7, AnswerOnly
  <2>3. \A p \in Probes : ProbeInOrder(p)'
    BY <1>4, <2>1, <2>2 DEF sources
  <2>4. (warmStatus' = "ready" => warmGeneration' = warmToken') /\ \A f \in Files : warmToken'[f] <= stamp'[f]
    BY <2>1 DEF ReadyInv, sources, warm
  <2> QED BY <1>1, <1>2, <1>7, <2>1, <2>3, <2>4, AnswerReady DEF ReadyInv
<1>8. ASSUME NEW w \in Warmups, Warm(w) PROVE ReadyInv'
  <2>1. UNCHANGED <<sources, probe, moment>>
    BY <1>8 DEF Warm, Collect, Begin, Finish, WarmupFails
  <2>2. \A p \in Probes : pc'[p] = pc[p] /\ at'[p] = at[p] /\ token'[p] = token[p]
    BY <1>1, <1>6, <1>8, WarmOnly DEF Threads
  <2>3. \A p \in Probes : ProbeInOrder(p)'
    BY <1>4, <2>1, <2>2 DEF sources
  <2> QED BY <1>1, <1>2, <1>8, <2>1, <2>3, WarmReady DEF ReadyInv
<1>9. ASSUME NEW p \in Probes, Health(p) PROVE ReadyInv'
  <2>1. (\A u \in Threads : Keeps(u)) /\ UNCHANGED <<sources, caches, warm>>
    BY <1>1, <1>9, ProbesKeep
  <2>2. \A w \in Warmups : token'[w] = token[w]
    BY <1>1, <1>6, <1>9 DEF Health, Collect, Peek, Report, Respond, Threads, TypeOK
  <2>3. ASSUME NEW w \in Warmups, NEW f \in Files PROVE InOrder(w, f)'
    BY <2>1, <2>2 DEF ReadyInv, InOrder, Began, Noted, Closed, Keeps, Threads, sources, warm
  <2>4. \A w \in Warmups : pc'[w] \in {"idle", "begin"} => warmRun' # w
    BY <2>1 DEF ReadyInv, Keeps, Threads, warm
  <2>5. (warmStatus' = "ready" => warmGeneration' = warmToken') /\ \A f \in Files : warmToken'[f] <= stamp'[f]
    BY <2>1 DEF ReadyInv, sources, warm
  <2> QED BY <1>1, <1>2, <1>9, <2>1, <2>3, <2>4, <2>5, ProbeReady DEF ReadyInv
<1>10. CASE UNCHANGED vars
  <2>1. \A p \in Probes : ProbeInOrder(p)'
    BY <1>4, <1>10 DEF vars, sources
  <2>2. \A w \in Warmups, f \in Files : InOrder(w, f)'
    BY <1>3, <1>10 DEF vars, Keeps, build, sources, Threads
  <2> QED BY <1>1, <1>2, <1>10, <2>1, <2>2 DEF vars, ReadyInv, sources, warm
<1> QED BY <1>5, <1>7, <1>8, <1>9, <1>10 DEF Next

\* summary_warmup_health (dashboard/server.py:7209) reports a summary as ready only for the
\* sources that were published when it was asked, whatever the order in which any number
\* of warm-ups, publications and health checks take their steps.
THEOREM ReadyMeansCurrent == Spec => []ReadyIsCurrent
<1>1. ReadyInv => ReadyIsCurrent
  BY DEF ReadyInv, ProbeInOrder, ReadyIsCurrent
<1> QED BY <1>1, InitReady, ReadyStep, PTL DEF Spec

-----------------------------------------------------------------------------
(* Caches do not make an answer old.                                       *)

\* What a thread has signed is what every file said that has not been replaced since the
\* request began.
Recent(t) ==
  /\ since[t] <= now
  /\ pc[t] \in Signed \cup {"answered"}
       => \A f \in Files : stamp[f] <= since[t] => snapshot[t][f] = content[f]

RecentInv == TInv /\ \A t \in Threads : Recent(t)

LEMMA RecentStep == RecentInv /\ [Next]_vars => RecentInv'
<1> SUFFICES ASSUME RecentInv, [Next]_vars PROVE RecentInv'
  OBVIOUS
<1>1. TInv' /\ TypeOK /\ TypeOK'
  BY TypeStep, ReadStep DEF RecentInv, TInv
<1>2. ASSUME NEW u \in Threads, Keeps(u), UNCHANGED sources PROVE Recent(u)'
  BY <1>2 DEF RecentInv, Recent, Signed, Keeps, sources
<1>3. ASSUME NEW g \in Files, Publish(g) PROVE RecentInv'
  <2>1. /\ now \in Nat /\ now' = now + 1 /\ stamp'[g] = now + 1
        /\ \A f \in Files : f # g => stamp'[f] = stamp[f] /\ content'[f] = content[f]
    BY <1>1, <1>3 DEF Publish, TypeOK, Stamps, Vectors
  <2>2. UNCHANGED <<pc, since, snapshot>>
    BY <1>3 DEF Publish, build
  <2>3. ASSUME NEW t \in Threads PROVE Recent(t)'
    <3>1. since[t] \in Nat /\ Recent(t)
      BY <1>1 DEF TypeOK, RecentInv
    <3>2. since[t] <= now' /\ ~ (stamp'[g] <= since[t])
      BY <2>1, <3>1 DEF Recent
    <3>3. pc[t] \in Signed \cup {"answered"}
            => \A f \in Files : stamp'[f] <= since[t] => snapshot[t][f] = content'[f]
      BY <2>1, <3>1, <3>2 DEF Recent
    <3> QED BY <2>2, <3>2, <3>3 DEF Recent
  <2> QED BY <1>1, <2>3 DEF RecentInv
<1>4. ASSUME NEW t \in Threads, Answer(t) PROVE Recent(t)'
  <2>0. UNCHANGED sources /\ UNCHANGED <<now, stamp, content>> /\ Recent(t)
    BY <1>4 DEF Answer, Enter, Sign, Ensure, Stat, Open, Recheck, Check, Reply, sources, RecentInv
  <2>1. CASE Enter(t)
    <3>1. pc'[t] = "sign" /\ since'[t] = now /\ now \in Nat
      BY <1>1, <2>1, MoveEffect DEF Enter, TypeOK
    <3> QED BY <2>0, <3>1 DEF Recent, Signed
  <2>2. CASE Sign(t)
    <3>1. since' = since
      BY <2>2 DEF Sign
    <3>2. CASE at[t] = N
      <4>1. snapshot'[t] = content
        BY <1>1, <2>2, <3>2 DEF Sign, TypeOK
      <4> QED BY <2>0, <3>1, <4>1 DEF Recent
    <3>3. CASE at[t] # N
      <4>1. pc'[t] = "sign"
        BY <1>1, <2>2, <3>3, MoveEffect DEF Sign
      <4> QED BY <2>0, <3>1, <4>1 DEF Recent, Signed
    <3> QED BY <3>2, <3>3
  <2>3. ASSUME UNCHANGED <<since, snapshot>>, pc[t] \in Signed PROVE Recent(t)'
    BY <2>0, <2>3 DEF Recent, Signed
  <2>4. CASE Ensure(t) \/ Stat(t) \/ Open(t)
    BY <2>3, <2>4 DEF Ensure, Stat, Open, Signed
  <2>5. ASSUME Retry(t), UNCHANGED since PROVE Recent(t)'
    <3>1. pc'[t] \in {"sign", "failed"}
      BY <1>1, <2>5, RetryEffect
    <3> QED BY <2>0, <2>5, <3>1 DEF Recent, Signed
  <2>6. CASE Recheck(t) \/ Check(t)
    BY <2>3, <2>5, <2>6 DEF Recheck, Check, Signed
  <2>7. CASE Reply(t)
    <3>1. pc'[t] = "idle" /\ since'[t] = 0 /\ now \in Nat
      BY <1>1, <2>7, MoveEffect DEF Reply, TypeOK
    <3> QED BY <2>0, <3>1 DEF Recent, Signed
  <2> QED BY <1>4, <2>1, <2>2, <2>4, <2>6, <2>7 DEF Answer
<1>5. ASSUME NEW w \in Warmups, Warm(w) PROVE Recent(w)'
  <2>0. w \in Threads /\ Recent(w) /\ UNCHANGED <<sources, since>> /\ UNCHANGED <<now, stamp, content>>
    BY <1>5 DEF Threads, RecentInv, Warm, Collect, Begin, Finish, WarmupFails, sources
  <2>1. CASE Collect(w, "idle", "begin")
    BY <1>1, <2>0, <2>1, MoveEffect DEF Collect, Recent, Signed
  <2>2. CASE Collect(w, "answered", "finish")
    BY <1>1, <2>0, <2>2, MoveEffect DEF Collect, Recent, Signed, build
  <2>3. CASE Begin(w)
    BY <1>1, <2>0, <2>3, MoveEffect DEF Begin, Recent, Signed
  <2>4. CASE Finish(w) \/ WarmupFails(w)
    BY <1>1, <2>0, <2>4, MoveEffect DEF Finish, WarmupFails, Recent, Signed
  <2> QED BY <1>5, <2>1, <2>2, <2>3, <2>4 DEF Warm
<1>6. ASSUME \A u \in Threads : Recent(u)' PROVE RecentInv'
  BY <1>1, <1>6 DEF RecentInv
<1>7. ASSUME NEW t \in Threads, Answer(t) PROVE RecentInv'
  <2>1. UNCHANGED sources
    BY <1>7 DEF Answer, Enter, Sign, Ensure, Stat, Open, Recheck, Check, Reply
  <2> QED BY <1>1, <1>2, <1>4, <1>6, <1>7, <2>1, OthersKeep
<1>8. ASSUME NEW w \in Warmups, Warm(w) PROVE RecentInv'
  <2>1. UNCHANGED sources
    BY <1>8 DEF Warm, Collect, Begin, Finish, WarmupFails
  <2> QED BY <1>1, <1>2, <1>5, <1>6, <1>8, <2>1, OthersKeep DEF Threads
<1>9. ASSUME NEW p \in Probes, Health(p) PROVE RecentInv'
  BY <1>1, <1>2, <1>6, <1>9, ProbesKeep
<1>10. CASE UNCHANGED vars
  BY <1>2, <1>6, <1>10 DEF vars, Keeps, build, sources
<1> QED BY <1>3, <1>7, <1>8, <1>9, <1>10 DEF Next

\* A file that was not replaced since the request began is in the answer as it is.
AnswerIsFresh ==
  \A t \in Threads, f \in Files :
    pc[t] = "answered" /\ stamp[f] <= since[t] => got[t][f] = content[f]

\* A client never gets a payload that is older than its request, although the answer may
\* come from a response, a payload or a parsed file that an earlier request has cached:
\* what was published before the request began is in the answer, unless it was replaced
\* again meanwhile (server.py: data_signature, ensure_source_cache_generation).
THEOREM AnswersAreFresh == Spec => []AnswerIsFresh
<1>1. Init => RecentInv
  <2> SUFFICES ASSUME Init PROVE RecentInv
    OBVIOUS
  <2>1. \A t \in Threads : Recent(t)
    BY DEF Init, Recent, Signed, Threads
  <2> QED BY <2>1, InitType DEF RecentInv
<1>2. RecentInv /\ AnswerIsSnapshot => AnswerIsFresh
  BY DEF RecentInv, Recent, AnswerIsSnapshot, AnswerIsFresh
<1> QED BY <1>1, <1>2, RecentStep, AnswersAreSnapshots, PTL DEF Spec
=============================================================================
