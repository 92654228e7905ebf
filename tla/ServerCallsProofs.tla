------------------------- MODULE ServerCallsProofs --------------------------
(***************************************************************************)
(* Proofs about ServerCalls, for any number of chats, users, names and     *)
(* calls: the history of a chat alternates, every answer in it was made    *)
(* for the conversation before it, and the stop_all of a server that ends  *)
(* leaves no runner of an earlier call behind.                             *)
(***************************************************************************)
EXTENDS ServerCalls, SequenceTheorems, TLAPS

-----------------------------------------------------------------------------
(* Calls and histories. *)

\* What the steps of a thread change in the calls.
LEMMA SetsLemma ==
    ASSUME TypeOK, NEW i \in DOMAIN calls, NEW where \in Threads, NEW r \in Reply,
           Sets(i, where, r)
    PROVE  /\ calls' \in Seq(Call)
           /\ Len(calls') = Len(calls)
           /\ \A j \in DOMAIN calls :
                /\ calls'[j].op = calls[j].op
                /\ calls'[j].msgs = calls[j].msgs
                /\ calls'[j].name = calls[j].name
                /\ calls'[j].thread = IF j = i THEN where ELSE calls[j].thread
                /\ calls'[j].reply = IF j = i THEN r ELSE calls[j].reply
<1>1. calls \in Seq(Call)
  BY DEF TypeOK
<1>2. calls' = [calls EXCEPT ![i] = [calls[i] EXCEPT !.thread = where, !.reply = r]]
  BY DEF Sets
<1>3. calls[i] \in Call
  BY <1>1
<1>4. [calls[i] EXCEPT !.thread = where, !.reply = r] \in Call
  BY <1>3 DEF Call
<1>5. calls' \in Seq(Call) /\ Len(calls') = Len(calls)
  BY <1>1, <1>2, <1>4
<1>6. ASSUME NEW j \in DOMAIN calls
      PROVE  calls'[j] = IF j = i THEN [calls[i] EXCEPT !.thread = where, !.reply = r]
                                  ELSE calls[j]
  BY <1>1, <1>2
<1> QED
  BY <1>3, <1>5, <1>6 DEF Call

\* A step of the server that leaves the clients alone and replies rightly.
LEMMA ServerLemma ==
    ASSUME CallsInv, UNCHANGED clients, ReplyInv',
           calls' \in Seq(Call), Len(calls') = Len(calls),
           \A j \in DOMAIN calls : calls'[j].op = calls[j].op /\ calls'[j].msgs = calls[j].msgs
    PROVE  /\ \A c \in Chats : ChatInv(c)'
           /\ ChatAlternates'
           /\ AnswersFitHistory'
<1>1. /\ DOMAIN calls' = DOMAIN calls
      /\ calls \in Seq(Call)
      /\ pending' = pending /\ history' = history
      /\ \A c \in Chats : pending[c] # 0 => pending[c] \in DOMAIN calls
  BY DEF CallsInv, TypeOK, clients, Clients
<1>2. ASSUME NEW c \in Chats
      PROVE  ChatInv(c)'
  BY <1>1 DEF CallsInv, ChatInv, Alternates, EndsWith
<1>3. ChatAlternates'
  <2> SUFFICES ASSUME NEW i \in DOMAIN calls', calls'[i].op = "chat"
               PROVE  Alternates(calls'[i].msgs) /\ EndsWith("user", calls'[i].msgs)
    BY DEF ChatAlternates, Alternates, EndsWith
  <2>1. calls[i].op = "chat" /\ calls'[i].msgs = calls[i].msgs
    BY <1>1
  <2>2. Alternates(calls[i].msgs) /\ EndsWith("user", calls[i].msgs)
    BY <1>1, <2>1 DEF CallsInv, ChatAlternates
  <2> QED
    BY <2>1, <2>2
<1>4. AnswersFitHistory'
  BY <1>1 DEF CallsInv, AnswersFitHistory, ChatInv
<1> QED
  BY <1>2, <1>3, <1>4

\* A message is appended to a history.
LEMMA AppendLemma ==
    ASSUME NEW h \in Seq(Message), NEW m \in Message, Alternates(h),
           m.role = "user" <=> h = <<>> \/ EndsWith("assistant", h)
    PROVE  /\ Append(h, m) \in Seq(Message)
           /\ Len(Append(h, m)) = Len(h) + 1
           /\ Append(h, m)[Len(h) + 1] = m
           /\ \A k \in DOMAIN h : Append(h, m)[k] = h[k]
           /\ Alternates(Append(h, m))
           /\ EndsWith(m.role, Append(h, m))
<1>1. /\ Append(h, m) \in Seq(Message)
      /\ Len(Append(h, m)) = Len(h) + 1
      /\ Append(h, m)[Len(h) + 1] = m
      /\ \A k \in DOMAIN h : Append(h, m)[k] = h[k]
  OBVIOUS
<1>2. ASSUME NEW k \in DOMAIN Append(h, m)
      PROVE  Append(h, m)[k].role = "user" <=> k = 1 \/ Append(h, m)[k - 1].role = "assistant"
  <2>1. CASE k = Len(h) + 1
    <3>1. CASE h = <<>>
      BY <1>1, <2>1, <3>1
    <3>2. CASE h # <<>>
      <4>1. k # 1 /\ k - 1 = Len(h) /\ k - 1 \in DOMAIN h
        BY <2>1, <3>2
      <4>2. Append(h, m)[k - 1] = h[Len(h)] /\ Append(h, m)[k] = m
        BY <1>1, <2>1, <4>1
      <4> QED
        BY <3>2, <4>1, <4>2 DEF EndsWith
    <3> QED
      BY <3>1, <3>2
  <2>2. CASE k # Len(h) + 1
    <3>1. k \in DOMAIN h /\ (k # 1 => k - 1 \in DOMAIN h)
      BY <1>1, <2>2
    <3>2. Append(h, m)[k] = h[k] /\ (k # 1 => Append(h, m)[k - 1] = h[k - 1])
      BY <1>1, <3>1
    <3> QED
      BY <3>1, <3>2 DEF Alternates
  <2> QED
    BY <2>1, <2>2
<1>3. Alternates(Append(h, m))
  BY <1>2 DEF Alternates
<1>4. EndsWith(m.role, Append(h, m))
  BY <1>1 DEF EndsWith
<1> QED
  BY <1>1, <1>3, <1>4

\* The first n elements of a sequence.
LEMMA FirstLemma ==
    ASSUME NEW S, NEW s \in Seq(S), NEW n \in 0 .. Len(s)
    PROVE  /\ SubSeq(s, 1, n) \in Seq(S) /\ Len(SubSeq(s, 1, n)) = n
           /\ \A i \in 1 .. n : i \in DOMAIN s /\ SubSeq(s, 1, n)[i] = s[i]
<1>1. Len(s) \in Nat /\ n \in Nat /\ n <= Len(s) /\ DOMAIN s = 1 .. Len(s)
  BY SMT
<1> QED
  BY <1>1, SMT

\* The last turn, the user's, is taken back.
LEMMA FrontLemma ==
    ASSUME NEW h \in Seq(Message), Alternates(h), EndsWith("user", h)
    PROVE  /\ Front(h) \in Seq(Message)
           /\ Len(Front(h)) = Len(h) - 1
           /\ \A k \in DOMAIN Front(h) : k \in DOMAIN h /\ Front(h)[k] = h[k]
           /\ Alternates(Front(h))
           /\ Front(h) = <<>> \/ EndsWith("assistant", Front(h))
<1>1. h # <<>> /\ Len(h) \in Nat \ {0} /\ h[Len(h)].role = "user"
  BY DEF EndsWith
<1>2. /\ Front(h) \in Seq(Message)
      /\ Len(Front(h)) = Len(h) - 1
      /\ \A k \in DOMAIN Front(h) : k \in DOMAIN h /\ Front(h)[k] = h[k]
  <2>1. Len(h) - 1 \in 0 .. Len(h) /\ Front(h) = SubSeq(h, 1, Len(h) - 1)
    BY <1>1 DEF Front
  <2>2. /\ Front(h) \in Seq(Message) /\ Len(Front(h)) = Len(h) - 1
        /\ \A k \in 1 .. Len(h) - 1 : k \in DOMAIN h /\ Front(h)[k] = h[k]
    BY <2>1, FirstLemma
  <2> QED
    BY <2>2
<1>3. Alternates(Front(h))
  <2> SUFFICES ASSUME NEW k \in DOMAIN Front(h)
               PROVE  Front(h)[k].role = "user" <=> k = 1 \/ Front(h)[k - 1].role = "assistant"
    BY DEF Alternates
  <2>1. k \in DOMAIN h /\ Front(h)[k] = h[k]
    BY <1>2
  <2>a. DOMAIN Front(h) = 1 .. Len(h) - 1
    BY <1>1, <1>2
  <2>2. k # 1 => k - 1 \in DOMAIN Front(h)
    BY <1>1, <2>a
  <2>3. k # 1 => Front(h)[k - 1] = h[k - 1]
    BY <1>2, <2>2
  <2> QED
    BY <2>1, <2>3 DEF Alternates
<1>4. Front(h) = <<>> \/ EndsWith("assistant", Front(h))
  <2>1. CASE Len(h) = 1
    BY <1>2, <2>1
  <2>2. CASE Len(h) # 1
    <3>1. Len(h) \in DOMAIN h /\ Len(h) - 1 \in DOMAIN Front(h)
      BY <1>1, <1>2, <2>2
    <3>2. h[Len(h) - 1].role = "assistant"
      BY <1>1, <2>2, <3>1 DEF Alternates
    <3>3. Front(h)[Len(Front(h))] = h[Len(h) - 1] /\ Front(h) # <<>>
      BY <1>2, <3>1
    <3> QED
      BY <3>2, <3>3 DEF EndsWith
  <2> QED
    BY <2>1, <2>2
<1> QED
  BY <1>2, <1>3, <1>4

-----------------------------------------------------------------------------
(* The threads of the calls, the runners and the main thread. *)

\* What the next lemma needs of a step of the server.
CallsKept == /\ calls' \in Seq(Call)
             /\ Len(calls') = Len(calls)
             /\ \A j \in DOMAIN calls : /\ calls'[j].op = calls[j].op
                                        /\ calls'[j].msgs = calls[j].msgs
             /\ ReplyInv'

LEMMA SetsKeep ==
    ASSUME CallsInv, NEW i \in DOMAIN calls, NEW where \in Threads, NEW r \in Reply,
           Sets(i, where, r),
           calls[i].op = "chat" /\ r.kind = "ok" => r.from = i
    PROVE  CallsKept
<1>1. TypeOK /\ ReplyInv
  BY DEF CallsInv
<1>2. /\ calls' \in Seq(Call)
      /\ Len(calls') = Len(calls)
      /\ \A j \in DOMAIN calls :
           /\ calls'[j].op = calls[j].op
           /\ calls'[j].msgs = calls[j].msgs
           /\ calls'[j].reply = IF j = i THEN r ELSE calls[j].reply
  BY <1>1, SetsLemma
<1>3. DOMAIN calls' = DOMAIN calls
  BY <1>1, <1>2 DEF TypeOK
<1>4. ReplyInv'
  BY <1>1, <1>2, <1>3 DEF ReplyInv
<1> QED
  BY <1>2, <1>4 DEF CallsKept

LEMMA RepliesKeep ==
    ASSUME CallsInv, NEW i \in DOMAIN calls, NEW r \in Reply, Replies(i, r),
           calls[i].op = "chat" /\ r.kind = "ok" => r.from = i
    PROVE  CallsKept
<1>1. NoReply \in Reply /\ NoReply.kind # "ok"
  BY CallsAssumption DEF NoReply, Reply
<1>2. CASE Awaited(i)
  <2>1. Sets(i, "replied", r)
    BY <1>2 DEF Replies
  <2> QED
    BY <2>1, SetsKeep DEF Threads
<1>3. CASE ~Awaited(i)
  <2>1. Sets(i, "over", NoReply)
    BY <1>3 DEF Replies, Goes
  <2> QED
    BY <1>1, <2>1, SetsKeep DEF Threads
<1> QED
  BY <1>2, <1>3

LEMMA GoesKeep ==
    ASSUME CallsInv, NEW i \in DOMAIN calls, NEW where \in Threads, Goes(i, where)
    PROVE  CallsKept
<1>1. NoReply \in Reply /\ NoReply.kind # "ok"
  BY CallsAssumption DEF NoReply, Reply
<1>2. Sets(i, where, NoReply)
  BY DEF Goes
<1> QED
  BY <1>1, <1>2, SetsKeep

\* The rest of the invariant of a step of the server: its own variables.
ManagerOK == /\ main \in {"serving", "closed", "stopped", "gone"}
             /\ mutex \in 0 .. Len(calls)
             /\ starter \in [Names -> 0 .. Len(calls)]
             /\ dead \subseteq runners
             /\ gens \subseteq 1 .. Len(calls)
             /\ late \subseteq 1 .. Len(calls)

LEMMA ServerKeeps ==
    ASSUME CallsInv, UNCHANGED clients, CallsKept, ManagerOK', LateInv'
    PROVE  CallsInv'
<1>1. TypeOK'
  BY DEF CallsInv, TypeOK, CallsKept, ManagerOK, clients
<1> QED
  BY <1>1, ServerLemma DEF CallsInv, CallsKept

\* A step of a thread that is alone with the mutex, or does not want it.
LateStep(i) ==
    /\ \E where \in Threads, r \in Reply :
         /\ Sets(i, where, r)
         /\ where \in Inside => mutex' = i
         /\ main = "stopped" /\ where = "spawns" => i \in late'
    /\ mutex' = mutex \/ mutex \in {0, i}
    /\ main' = main /\ late \subseteq late'
    /\ main = "stopped" =>
         \A n \in Names : starter'[n] \in {0, starter[n]} \/ starter'[n] \in late

LEMMA LateKeeps ==
    ASSUME CallsInv, NEW i \in DOMAIN calls, LateStep(i)
    PROVE  LateInv'
<1>1. TypeOK /\ LateInv /\ calls \in Seq(Call)
  BY DEF CallsInv, TypeOK
<1>2. PICK where \in Threads, r \in Reply :
        /\ Sets(i, where, r)
        /\ where \in Inside => mutex' = i
        /\ main = "stopped" /\ where = "spawns" => i \in late'
  BY DEF LateStep
<1>3. /\ Len(calls') = Len(calls) /\ calls' \in Seq(Call)
      /\ \A j \in DOMAIN calls :
           calls'[j].thread = IF j = i THEN where ELSE calls[j].thread
  BY <1>1, <1>2, SetsLemma
<1>4. DOMAIN calls' = DOMAIN calls /\ i # 0 /\ 0 \notin DOMAIN calls
  BY <1>1, <1>3
<1>5. ASSUME NEW j \in DOMAIN calls, calls'[j].thread \in Inside
      PROVE  mutex' = j
  BY <1>1, <1>2, <1>3, <1>4, <1>5 DEF LateInv, LateStep
<1>6. ASSUME NEW j \in DOMAIN calls, main = "stopped", calls'[j].thread = "spawns"
      PROVE  j \in late'
  BY <1>1, <1>2, <1>3, <1>6 DEF LateInv, LateStep
<1>7. LateRunnersOnly'
  BY <1>1 DEF LateInv, LateRunnersOnly, LateStep, runners
<1> QED
  BY <1>4, <1>5, <1>6, <1>7 DEF LateInv, LateStep

\* A step that leaves the threads alone, adds no runner and does not stop any.
LEMMA IdleKeeps ==
    ASSUME LateInv, UNCHANGED <<calls, mutex, starter, late>>,
           main' = "stopped" => main = "stopped"
    PROVE  LateInv'
  BY DEF LateInv, LateRunnersOnly, runners

\* A thread replies, or goes on without the mutex or with it.
LEMMA RepliesLate ==
    ASSUME CallsInv, NEW i \in DOMAIN calls, NEW r \in Reply, Replies(i, r),
           mutex' = mutex \/ mutex \in {0, i}, main' = main, late \subseteq late',
           main = "stopped" =>
             \A n \in Names : starter'[n] \in {0, starter[n]} \/ starter'[n] \in late
    PROVE  LateInv'
<1>1. NoReply \in Reply
  BY CallsAssumption DEF NoReply, Reply
<1>2. PICK where \in {"replied", "over"}, q \in Reply : Sets(i, where, q)
  BY <1>1 DEF Replies, Goes
<1>3. where \in Threads /\ where \notin Inside /\ where # "spawns"
  BY DEF Threads, Inside
<1>4. LateStep(i)
  BY <1>2, <1>3 DEF LateStep
<1> QED
  BY <1>4, LateKeeps

LEMMA GoesLate ==
    ASSUME CallsInv, NEW i \in DOMAIN calls, NEW where \in Threads, Goes(i, where),
           where \in Inside => mutex' = i,
           main = "stopped" /\ where = "spawns" => i \in late',
           mutex' = mutex \/ mutex \in {0, i}, main' = main, late \subseteq late',
           main = "stopped" =>
             \A n \in Names : starter'[n] \in {0, starter[n]} \/ starter'[n] \in late
    PROVE  LateInv'
<1>1. NoReply \in Reply /\ Sets(i, where, NoReply)
  BY CallsAssumption DEF NoReply, Reply, Goes
<1>2. LateStep(i)
  BY <1>1 DEF LateStep
<1> QED
  BY <1>2, LateKeeps

LEMMA CallStepKeeps ==
    ASSUME CallsInv, NEW i \in DOMAIN calls,
           CallStep(i) \/ (Unstick(i) /\ UNCHANGED <<clients, main>>)
    PROVE  CallsInv'
<1>a. calls \in Seq(Call) /\ Len(calls) \in 0 .. MaxCalls /\ MaxCalls \in Nat
  BY CallsAssumption DEF CallsInv, TypeOK
<1>b. calls[i] \in Call
  BY <1>a
<1>1. /\ i \in 1 .. Len(calls) /\ Len(calls) \in Nat /\ ManagerOK
      /\ Len(calls) <= MaxCalls /\ MaxCalls \in Nat
      /\ calls[i].name \in Names
  BY <1>a, <1>b DEF CallsInv, TypeOK, ManagerOK, Call
<1>2. UNCHANGED <<clients, main>>
  BY DEF CallStep
<1>3. Done \in Reply /\ Failed \in Reply /\ Failed.kind # "ok"
  BY <1>1 DEF Reply, Done, Failed
<1>4. ASSUME CallsKept, LateInv', mutex' \in 0 .. Len(calls),
             starter' \in [Names -> 0 .. Len(calls)],
             dead' \subseteq runners', gens' \subseteq 1 .. Len(calls),
             late' \subseteq 1 .. Len(calls)
      PROVE  CallsInv'
  <2>1. ManagerOK'
    BY <1>1, <1>2, <1>4 DEF ManagerOK, CallsKept
  <2> QED
    BY <1>2, <1>4, <2>1, ServerKeeps
<1>5. CASE Accept(i)
  <2>1. /\ Goes(i, "waiting") /\ "waiting" \in Threads /\ "waiting" \notin Inside
        /\ UNCHANGED <<mutex, starter, dead, gens, late>>
    BY <1>5 DEF Accept, manager, Threads, Unanswered, Inside
  <2>2. CallsKept /\ LateInv'
    BY <1>2, <2>1, GoesKeep, GoesLate
  <2> QED
    BY <1>1, <1>4, <2>1, <2>2 DEF ManagerOK, runners
<1>6. CASE Stop(i)
  <2>1. /\ Replies(i, Done) /\ UNCHANGED <<mutex, late>>
        /\ \E names \in SUBSET Names : StopsAll(names)
        /\ calls[i].op # "chat"
    BY <1>1, <1>6 DEF Stop, Gets, StopsAll
  <2>2. PICK names \in SUBSET Names : StopsAll(names)
    BY <2>1
  <2>3. /\ starter' \in [Names -> 0 .. Len(calls)]
        /\ dead' \subseteq runners' /\ gens' \subseteq 1 .. Len(calls)
        /\ \A n \in Names : starter'[n] \in {0, starter[n]}
    <3>1. /\ starter' = [n \in Names |-> IF n \in names THEN 0 ELSE starter[n]]
          /\ dead' = dead \ names /\ gens' \subseteq gens
      BY <2>2 DEF StopsAll
    <3>2. /\ starter \in [Names -> 0 .. Len(calls)] /\ dead \subseteq runners
          /\ gens \subseteq 1 .. Len(calls)
      BY <1>1 DEF ManagerOK
    <3>3. \A n \in Names : starter'[n] = IF n \in names THEN 0 ELSE starter[n]
      BY <3>1
    <3>4. starter' \in [Names -> 0 .. Len(calls)]
      BY <1>1, <3>1, <3>2
    <3>5. dead' \subseteq runners'
      BY <3>1, <3>2, <3>3 DEF runners
    <3> QED
      BY <3>1, <3>2, <3>3, <3>4, <3>5
  <2>4. CallsKept
    BY <1>3, <2>1, RepliesKeep
  <2>5. LateInv'
    BY <1>2, <1>3, <2>1, <2>3, RepliesLate
  <2> QED
    BY <1>1, <1>4, <2>1, <2>3, <2>4, <2>5 DEF ManagerOK
<1>7. CASE Refused(i) \/ ChatUnstarted(i)
  <2>1. Replies(i, Failed) /\ UNCHANGED <<mutex, starter, dead, gens, late>>
    BY <1>7 DEF Refused, ChatUnstarted, manager
  <2>2. CallsKept
    BY <1>3, <2>1, RepliesKeep
  <2>3. LateInv'
    BY <1>2, <1>3, <2>1, RepliesLate
  <2> QED
    BY <1>1, <1>4, <2>1, <2>2, <2>3 DEF ManagerOK, runners
<1>8. CASE Chat(i)
  <2>1. /\ Goes(i, "holds") /\ "holds" \in Threads /\ mutex = 0 /\ mutex' = i
        /\ gens' \subseteq gens \cup {i} /\ UNCHANGED <<starter, dead, late>>
    BY <1>8 DEF Chat, Gets, Threads, Unanswered, Inside
  <2>2. CallsKept
    BY <2>1, GoesKeep
  <2>3. LateInv'
    BY <1>2, <2>1, GoesLate
  <2>4. gens' \subseteq 1 .. Len(calls)
    <3>1. gens \subseteq 1 .. Len(calls)
      BY <1>1 DEF ManagerOK
    <3> QED
      BY <1>1, <2>1, <3>1
  <2> QED
    BY <1>1, <1>4, <2>1, <2>2, <2>3, <2>4 DEF ManagerOK, runners
<1>9. CASE Spawns(i)
  <2>1. /\ Goes(i, "spawns") /\ "spawns" \in Threads /\ mutex = 0 /\ mutex' = i
        /\ UNCHANGED <<starter, dead, gens>>
        /\ late' = IF main = "stopped" THEN late \cup {i} ELSE late
    BY <1>9 DEF Spawns, Gets, Threads, Unanswered, Inside
  <2>2. CallsKept
    BY <2>1, GoesKeep
  <2>3. late \subseteq late' /\ (main = "stopped" => i \in late')
    BY <2>1
  <2>4. LateInv'
    BY <1>2, <2>1, <2>3, GoesLate
  <2>5. late' \subseteq 1 .. Len(calls)
    <3>1. late \subseteq 1 .. Len(calls)
      BY <1>1 DEF ManagerOK
    <3> QED
      BY <1>1, <2>1, <3>1
  <2> QED
    BY <1>1, <1>4, <2>1, <2>2, <2>4, <2>5 DEF ManagerOK, runners
<1>10. CASE Spawned(i)
  <2>1. /\ mutex = i /\ calls[i].thread = "spawns" /\ UNCHANGED <<dead, late>>
        /\ starter' = [starter EXCEPT ![calls[i].name] = i]
    BY <1>10 DEF Spawned, Is
  <2>2. /\ starter' \in [Names -> 0 .. Len(calls)]
        /\ \A n \in Names : starter'[n] \in {starter[n], i}
        /\ runners \subseteq runners'
    BY <1>1, <2>1 DEF ManagerOK, runners
  <2>3. main = "stopped" => i \in late
    BY <2>1 DEF CallsInv, LateInv
  <2>4. main = "stopped" =>
          \A n \in Names : starter'[n] \in {0, starter[n]} \/ starter'[n] \in late
    BY <2>2, <2>3
  <2>5. CASE calls[i].op = "run"
    <3>1. Replies(i, Done) /\ mutex' = 0 /\ UNCHANGED gens
      BY <1>10, <2>5 DEF Spawned
    <3>2. CallsKept
      BY <1>3, <2>5, <3>1, RepliesKeep
    <3>3. LateInv'
      BY <1>2, <1>3, <2>1, <2>4, <3>1, RepliesLate
    <3> QED
      BY <1>1, <1>4, <2>1, <2>2, <3>1, <3>2, <3>3 DEF ManagerOK
  <2>6. CASE calls[i].op = "chat"
    <3>1. Goes(i, "holds") /\ "holds" \in Threads /\ gens' = gens \cup {i} /\ mutex' = mutex
      BY <1>10, <2>6 DEF Spawned, Threads, Unanswered, Inside
    <3>2. CallsKept
      BY <3>1, GoesKeep
    <3>3. LateInv'
      BY <1>2, <2>1, <2>4, <3>1, GoesLate
    <3>4. gens' \subseteq 1 .. Len(calls)
      <4>1. gens \subseteq 1 .. Len(calls)
        BY <1>1 DEF ManagerOK
      <4> QED
        BY <1>1, <3>1, <4>1
    <3> QED
      BY <1>1, <1>4, <2>1, <2>2, <3>1, <3>2, <3>3, <3>4 DEF ManagerOK
  <2> QED
    BY <1>10, <2>5, <2>6 DEF Spawned
<1>11. CASE SpawnFails(i) \/ Unstick(i) \/ Fail(i)
  <2>1. /\ Replies(i, Failed) /\ mutex = i /\ mutex' = 0
        /\ UNCHANGED <<starter, dead, gens, late>>
    BY <1>11 DEF SpawnFails, Unstick, Fail, Is
  <2>2. CallsKept
    BY <1>3, <2>1, RepliesKeep
  <2>3. LateInv'
    BY <1>2, <1>3, <2>1, RepliesLate
  <2> QED
    BY <1>1, <1>4, <2>1, <2>2, <2>3 DEF ManagerOK, runners
<1>12. CASE SpawnSticks(i)
  <2>1. /\ Goes(i, "stuck") /\ "stuck" \in Threads /\ mutex = i
        /\ UNCHANGED <<mutex, starter, dead, gens, late>>
    BY <1>12 DEF SpawnSticks, Is, manager, Threads, Unanswered, Inside
  <2>2. CallsKept
    BY <2>1, GoesKeep
  <2>3. LateInv'
    BY <1>2, <2>1, GoesLate
  <2> QED
    BY <1>1, <1>4, <2>1, <2>2, <2>3 DEF ManagerOK, runners
<1> QED
  BY <1>5, <1>6, <1>7, <1>8, <1>9, <1>10, <1>11, <1>12 DEF CallStep

LEMMA AnswerKeeps ==
    ASSUME CallsInv, NEW i \in DOMAIN calls, Answer(i), UNCHANGED <<clients, main>>
    PROVE  CallsInv'
<1>1. /\ calls \in Seq(Call) /\ Len(calls) \in 0 .. MaxCalls /\ MaxCalls \in Nat
      /\ ManagerOK
  BY CallsAssumption DEF CallsInv, TypeOK, ManagerOK
<1>2. Text(i) \in Reply /\ Text(i).from = i
  BY <1>1 DEF Text, Reply
<1>3. CallsKept
  BY <1>2, RepliesKeep DEF Answer
<1>4. ManagerOK'
  BY <1>1, <1>3 DEF Answer, ManagerOK, CallsKept, runners
<1>5. LateInv'
  BY <1>2, RepliesLate DEF Answer, Is
<1> QED
  BY <1>3, <1>4, <1>5, ServerKeeps

LEMMA DisconnectKeeps ==
    ASSUME CallsInv, Disconnect
    PROVE  /\ CallsKept
           /\ \A j \in DOMAIN calls' : calls'[j].thread \notin Inside
<1>1. calls \in Seq(Call) /\ ReplyInv
  BY DEF CallsInv, TypeOK
<1>2. ASSUME NEW j \in DOMAIN calls
      PROVE  /\ calls'[j] \in Call
             /\ calls'[j].op = calls[j].op
             /\ calls'[j].msgs = calls[j].msgs
             /\ calls'[j].reply = calls[j].reply
             /\ calls'[j].thread \notin Inside
  <2>1. calls[j] \in Call
    BY <1>1
  <2>2. \/ calls'[j] = calls[j] /\ calls[j].thread \notin Unanswered
        \/ calls'[j] = [calls[j] EXCEPT !.thread = IF Awaited(j) THEN "lost" ELSE "over"]
    BY DEF Disconnect
  <2> QED
    BY <2>1, <2>2 DEF Call, Threads, Unanswered, Inside
<1>3. DOMAIN calls' = DOMAIN calls /\ calls' = [j \in DOMAIN calls |-> calls'[j]]
  BY DEF Disconnect
<1>4. calls' \in Seq(Call) /\ Len(calls') = Len(calls)
  BY <1>1, <1>2, <1>3
<1>5. ReplyInv'
  BY <1>1, <1>2, <1>3 DEF ReplyInv
<1> QED
  BY <1>2, <1>3, <1>4, <1>5 DEF CallsKept

\* A step that leaves the calls alone as well.
LEMMA UnchangedKeep ==
    ASSUME CallsInv, UNCHANGED <<clients, calls>>, ManagerOK', LateInv'
    PROVE  CallsInv'
<1>1. CallsKept
  BY DEF CallsInv, TypeOK, ReplyInv, CallsKept
<1> QED
  BY <1>1, ServerKeeps

LEMMA ServerStepKeeps ==
    ASSUME CallsInv,
           GeneratorEnds \/ RunnerDies \/ Close \/ MainStep \/ Crash \/ Restart
    PROVE  CallsInv'
<1>1. ManagerOK /\ Len(calls) \in Nat /\ LateInv
  BY DEF CallsInv, TypeOK, ManagerOK
<1>2. CASE GeneratorEnds \/ RunnerDies \/ Close \/ Restart
  <2>1. /\ UNCHANGED <<clients, calls, mutex, starter, late>>
        /\ main' = "stopped" => main = "stopped"
        /\ main' \in {"serving", "closed", "stopped", "gone"}
        /\ dead' \subseteq runners /\ gens' \subseteq gens
    BY <1>1, <1>2 DEF GeneratorEnds, RunnerDies, Close, Restart, manager, ManagerOK
  <2>2. ManagerOK'
    BY <1>1, <2>1 DEF ManagerOK, runners
  <2> QED
    BY <1>1, <2>1, <2>2, IdleKeeps, UnchangedKeep
<1>3. CASE StopAll
  <2>1. /\ UNCHANGED <<clients, calls, mutex, late>> /\ mutex = 0
        /\ main' = "stopped" /\ StopsAll(Names)
    BY <1>3 DEF StopAll, StopsAll
  <2>2. ManagerOK' /\ runners' = {}
    BY <1>1, <2>1 DEF StopsAll, ManagerOK, runners
  <2>3. \A i \in DOMAIN calls : calls[i].thread \notin Inside
    BY <1>1, <2>1 DEF LateInv, CallsInv, TypeOK
  <2>4. LateInv'
    BY <2>1, <2>2, <2>3 DEF LateInv, LateRunnersOnly, Inside
  <2> QED
    BY <2>1, <2>2, <2>4, UnchangedKeep
<1>4. CASE Exit \/ Crash
  <2>1. /\ CallsKept /\ UNCHANGED clients /\ main' = "gone"
        /\ \A j \in DOMAIN calls' : calls'[j].thread \notin Inside
    BY <1>4, DisconnectKeeps DEF Exit, Crash, Dies
  <2>2. ManagerOK'
    BY <1>1, <1>4, <2>1 DEF Exit, Crash, Dies, ManagerOK, CallsKept, runners
  <2>3. LateInv'
    BY <2>1 DEF LateInv, LateRunnersOnly, Inside
  <2> QED
    BY <2>1, <2>2, <2>3, ServerKeeps
<1> QED
  BY <1>2, <1>3, <1>4 DEF MainStep

-----------------------------------------------------------------------------
(* The clients. *)

\* A client takes a reply to the call that it waits for.
LEMMA ReceiveLemma ==
    ASSUME CallsInv, NEW c \in Clients, pending[c] # 0,
           NEW r \in Reply, Receives(c, r), CallsKept,
           calls[pending[c]].op = "chat" /\ r.kind = "ok" => r.from = pending[c],
           LateInv', UNCHANGED <<main, manager>>
    PROVE  CallsInv'
<1> DEFINE i == pending[c]
<1>1. /\ TypeOK /\ i \in DOMAIN calls /\ i \in Ids
      /\ DOMAIN calls' = DOMAIN calls
      /\ pending' = [pending EXCEPT ![c] = 0] /\ model' = model
      /\ \A d \in Chats : d \in Clients
      /\ \A d \in Chats : history[d] \in Seq(Message)
  BY CallsAssumption DEF CallsInv, TypeOK, Clients, CallsKept, Receives, Ids
<1>2. \A j \in DOMAIN calls : calls'[j].op = calls[j].op /\ calls'[j].msgs = calls[j].msgs
  BY DEF CallsKept
<1>3. ASSUME NEW d \in Chats, d # c
      PROVE  history'[d] = history[d] /\ pending'[d] = pending[d]
  BY <1>1, <1>3 DEF Receives, TypeOK
<1>4. ASSUME c \in Chats
      PROVE  /\ calls[i].op = "chat" /\ calls[i].msgs = history[c]
             /\ EndsWith("user", history[c]) /\ Alternates(history[c])
             /\ \A k \in DOMAIN history[c] : history[c][k].call \in DOMAIN calls
             /\ history' = [history EXCEPT ![c] = Turns(c, r)]
             /\ pending'[c] = 0
             /\ history'[c] = Turns(c, r)
  BY <1>1, <1>4 DEF CallsInv, ChatInv, Receives, TypeOK
<1>5. ASSUME c \in Chats, r.kind = "ok"
      PROVE  /\ history'[c] \in Seq(Message)
             /\ Len(history'[c]) = Len(history[c]) + 1
             /\ history'[c][Len(history[c]) + 1] = Assistant(i)
             /\ \A k \in DOMAIN history[c] : history'[c][k] = history[c][k]
             /\ Alternates(history'[c])
             /\ EndsWith("assistant", history'[c])
  <2>1. r.from = i /\ history'[c] = Append(history[c], Assistant(i))
    BY <1>4, <1>5 DEF Turns
  <2>2. Assistant(i) \in Message /\ Assistant(i).role = "assistant"
    BY <1>1 DEF Assistant, Message
  <2>3. ~(history[c] = <<>> \/ EndsWith("assistant", history[c]))
    BY <1>4, <1>5 DEF EndsWith
  <2> QED
    BY <1>1, <1>4, <1>5, <2>1, <2>2, <2>3, AppendLemma
<1>6. ASSUME c \in Chats, r.kind # "ok"
      PROVE  /\ history'[c] \in Seq(Message)
             /\ Len(history'[c]) = Len(history[c]) - 1
             /\ \A k \in DOMAIN history'[c] : k \in DOMAIN history[c] /\ history'[c][k] = history[c][k]
             /\ Alternates(history'[c])
             /\ history'[c] = <<>> \/ EndsWith("assistant", history'[c])
  <2>1. history'[c] = Front(history[c])
    BY <1>4, <1>6 DEF Turns
  <2> QED
    BY <1>1, <1>4, <1>6, <2>1, FrontLemma
<1>7. TypeOK'
  <2>1. history' \in [Chats -> Seq(Message)]
    <3>1. CASE c \in Chats
      BY <1>1, <1>4, <1>5, <1>6, <3>1 DEF TypeOK
    <3>2. CASE c \notin Chats
      BY <1>1, <3>2 DEF TypeOK, Receives
    <3> QED
      BY <3>1, <3>2
  <2>2. pending' \in [Clients -> 0 .. Len(calls')]
    BY <1>1 DEF TypeOK, CallsKept
  <2> QED
    BY <1>1, <2>1, <2>2 DEF TypeOK, CallsKept, manager, runners
<1>8. ASSUME NEW d \in Chats
      PROVE  ChatInv(d)'
  <2>1. CASE d # c
    <3>1. ChatInv(d) /\ (pending[d] # 0 => pending[d] \in DOMAIN calls)
      BY <1>1 DEF CallsInv, TypeOK
    <3> QED
      BY <1>1, <1>2, <1>3, <2>1, <3>1 DEF ChatInv, Alternates, EndsWith
  <2>2. CASE d = c /\ r.kind = "ok"
    <3>1. c \in Chats /\ history[c] \in Seq(Message)
      BY <1>1, <2>2
    <3>2. ASSUME NEW k \in DOMAIN history'[c]
          PROVE  history'[c][k].call \in DOMAIN calls'
      <4>1. k \in DOMAIN history[c] \/ k = Len(history[c]) + 1
        BY <1>5, <2>2, <3>1
      <4> QED
        BY <1>1, <1>4, <1>5, <2>2, <3>1, <4>1 DEF Assistant
    <3> QED
      BY <1>4, <1>5, <2>2, <3>1, <3>2 DEF ChatInv, Alternates, EndsWith
  <2>3. CASE d = c /\ r.kind # "ok"
    <3>1. \A k \in DOMAIN history'[c] : history'[c][k].call \in DOMAIN calls'
      BY <1>1, <1>4, <1>6, <2>3
    <3> QED
      BY <1>4, <1>6, <2>3, <3>1 DEF ChatInv, Alternates, EndsWith
  <2> QED
    BY <2>1, <2>2, <2>3
<1>9. ChatAlternates'
  <2> SUFFICES ASSUME NEW j \in DOMAIN calls', calls'[j].op = "chat"
               PROVE  Alternates(calls'[j].msgs) /\ EndsWith("user", calls'[j].msgs)
    BY DEF ChatAlternates, Alternates, EndsWith
  <2>1. calls[j].op = "chat" /\ calls'[j].msgs = calls[j].msgs
    BY <1>1, <1>2
  <2>2. Alternates(calls[j].msgs) /\ EndsWith("user", calls[j].msgs)
    BY <1>1, <2>1 DEF CallsInv, ChatAlternates
  <2> QED
    BY <2>1, <2>2
<1>10. AnswersFitHistory'
  <2> SUFFICES ASSUME NEW d \in Chats, NEW k \in DOMAIN history'[d],
                      history'[d][k].role = "assistant"
               PROVE  calls'[history'[d][k].call].msgs = SubSeq(history'[d], 1, k - 1)
    BY DEF AnswersFitHistory
  <2>1. ASSUME k \in DOMAIN history[d], history'[d][k] = history[d][k],
               SubSeq(history'[d], 1, k - 1) = SubSeq(history[d], 1, k - 1)
        PROVE  calls'[history'[d][k].call].msgs = SubSeq(history'[d], 1, k - 1)
    <3>1. calls[history[d][k].call].msgs = SubSeq(history[d], 1, k - 1)
      BY <2>1 DEF CallsInv, AnswersFitHistory
    <3>2. history[d][k].call \in DOMAIN calls
      BY <2>1 DEF CallsInv, ChatInv
    <3> QED
      BY <1>2, <2>1, <3>1, <3>2
  <2>2. CASE d # c
    BY <1>3, <2>1, <2>2
  <2>3. ASSUME d = c, NEW n \in Nat, n <= Len(history[c]), n <= Len(history'[c]),
               \A l \in 1 .. n : history'[c][l] = history[c][l],
               history'[c] \in Seq(Message)
        PROVE  SubSeq(history'[c], 1, n) = SubSeq(history[c], 1, n)
    <3>1. history[c] \in Seq(Message)
      BY <1>1, <2>3
    <3>2. /\ SubSeq(history'[c], 1, n) \in Seq(Message) /\ Len(SubSeq(history'[c], 1, n)) = n
          /\ \A l \in 1 .. n : SubSeq(history'[c], 1, n)[l] = history'[c][l]
      BY <2>3, FirstLemma
    <3>3. /\ SubSeq(history[c], 1, n) \in Seq(Message) /\ Len(SubSeq(history[c], 1, n)) = n
          /\ \A l \in 1 .. n : SubSeq(history[c], 1, n)[l] = history[c][l]
      BY <2>3, <3>1, FirstLemma
    <3>4. \A l \in 1 .. n : SubSeq(history'[c], 1, n)[l] = SubSeq(history[c], 1, n)[l]
      BY <2>3, <3>2, <3>3
    <3> QED
      BY <3>2, <3>3, <3>4, SeqEqual
  <2>4. CASE d = c /\ r.kind = "ok"
    <3>1. history[c] \in Seq(Message) /\ history[c] # <<>> /\ Len(history[c]) \in Nat
      BY <1>1, <1>4, <2>4 DEF EndsWith
    <3>2. k \in 1 .. Len(history[c]) + 1
      BY <1>5, <2>4, <3>1
    <3>3. SubSeq(history'[c], 1, k - 1) = SubSeq(history[c], 1, k - 1)
      <4>1. /\ k - 1 \in Nat /\ k - 1 <= Len(history[c]) /\ k - 1 <= Len(history'[c])
            /\ \A l \in 1 .. k - 1 : l \in DOMAIN history[c]
        BY <1>5, <2>4, <3>1, <3>2
      <4> QED
        BY <1>5, <2>3, <2>4, <4>1
    <3>4. CASE k = Len(history[c]) + 1
      <4>1. history'[c][k].call = i
        BY <1>5, <2>4, <3>4 DEF Assistant
      <4>2. SubSeq(history[c], 1, k - 1) = history[c]
        BY <3>1, <3>4, SubSeqFull
      <4> QED
        BY <1>1, <1>2, <1>4, <2>4, <3>3, <4>1, <4>2
    <3>5. CASE k # Len(history[c]) + 1
      <4>1. k \in DOMAIN history[c]
        BY <3>1, <3>2, <3>5
      <4> QED
        BY <1>5, <2>1, <2>4, <3>3, <4>1
    <3> QED
      BY <3>4, <3>5
  <2>5. CASE d = c /\ r.kind # "ok"
    <3>1. /\ k \in DOMAIN history[c] /\ history'[c][k] = history[c][k]
          /\ history[c] \in Seq(Message) /\ history'[c] \in Seq(Message)
          /\ Len(history'[c]) = Len(history[c]) - 1
      BY <1>1, <1>6, <2>5
    <3>2. /\ k - 1 \in Nat /\ k - 1 <= Len(history[c]) /\ k - 1 <= Len(history'[c])
          /\ \A l \in 1 .. k - 1 : l \in DOMAIN history'[c]
      BY <2>5, <3>1
    <3>3. SubSeq(history'[c], 1, k - 1) = SubSeq(history[c], 1, k - 1)
      <4>1. \A l \in 1 .. k - 1 : history'[c][l] = history[c][l]
        BY <1>6, <2>5, <3>2
      <4> QED
        BY <2>3, <2>5, <3>1, <3>2, <4>1
    <3> QED
      BY <2>1, <2>5, <3>1, <3>3
  <2> QED
    BY <2>2, <2>4, <2>5
<1> QED
  BY <1>7, <1>8, <1>9, <1>10 DEF CallsInv, CallsKept

\* Return and GiveUp.
LEMMA ReturnKeeps ==
    ASSUME CallsInv, NEW c \in Clients, Return(c) \/ GiveUp(c),
           UNCHANGED <<main, manager>>
    PROVE  CallsInv'
<1>1. /\ pending[c] # 0 /\ pending[c] \in DOMAIN calls
      /\ calls \in Seq(Call) /\ ReplyInv
  BY DEF CallsInv, TypeOK, Return, GiveUp
<1>2. calls[pending[c]].reply \in Reply
  <2>1. calls[pending[c]] \in Call
    BY <1>1
  <2> QED
    BY <2>1 DEF Call
<1>3. Failed \in Reply /\ Failed.kind # "ok"
  BY CallsAssumption DEF Failed, Reply
<1>4. PICK r \in Reply :
        /\ Receives(c, r)
        /\ calls[pending[c]].op = "chat" /\ r.kind = "ok" => r.from = pending[c]
  <2>1. \/ Receives(c, Failed)
        \/ Receives(c, calls[pending[c]].reply)
    BY DEF Return, GiveUp
  <2> QED
    BY <1>1, <1>2, <1>3, <2>1 DEF ReplyInv
<1>5. CallsKept /\ LateInv'
  <2>1. CASE Return(c)
    <3>1. /\ Goes(pending[c], "over") /\ "over" \in Threads /\ "over" \notin Inside
          /\ UNCHANGED <<main, mutex, starter, late>>
      BY <2>1 DEF Return, Threads, Unanswered, Inside, manager
    <3> QED
      BY <1>1, <3>1, GoesKeep, GoesLate
  <2>2. CASE GiveUp(c)
    BY <1>1, <2>2, IdleKeeps DEF GiveUp, CallsKept, CallsInv, ReplyInv, manager
  <2> QED
    BY <2>1, <2>2
<1> QED
  BY <1>1, <1>4, <1>5, ReceiveLemma

\* A call that is made is not inside.
LEMMA PostsLate ==
    ASSUME LateInv, UNCHANGED <<main, manager>>,
           \A j \in DOMAIN calls : calls'[j] = calls[j],
           DOMAIN calls' = DOMAIN calls \cup {Len(calls) + 1},
           calls'[Len(calls) + 1].thread \notin Inside
    PROVE  LateInv'
  BY DEF LateInv, LateRunnersOnly, manager, runners, Inside

\* A call is made.
LEMMA PostsLemma ==
    ASSUME CallsInv, NEW c \in Clients, NEW op \in Ops, NEW n \in Names,
           NEW msgs \in Seq(Message), Posts(c, op, n, msgs)
    PROVE  /\ calls' \in Seq(Call)
           /\ Len(calls') = Len(calls) + 1
           /\ Len(calls') \in 0 .. MaxCalls
           /\ \A j \in DOMAIN calls : calls'[j] = calls[j]
           /\ calls'[Len(calls) + 1].op = op
           /\ calls'[Len(calls) + 1].msgs = msgs
           /\ calls'[Len(calls) + 1].thread \notin Inside
           /\ DOMAIN calls' = DOMAIN calls \cup {Len(calls) + 1}
           /\ ReplyInv'
<1>1. calls \in Seq(Call) /\ Len(calls) \in 0 .. MaxCalls /\ MaxCalls \in Nat /\ ReplyInv
  BY CallsAssumption DEF CallsInv, TypeOK
<1> DEFINE new == [op |-> op, name |-> n, msgs |-> msgs,
                   thread |-> IF Up THEN "sent" ELSE "lost", reply |-> NoReply]
<1>2. new \in Call
  BY <1>1 DEF Call, Threads, Unanswered, NoReply, Reply
<1>3. calls' = Append(calls, new)
  BY DEF Posts
<1> HIDE DEF new
<1>4. /\ calls' \in Seq(Call) /\ Len(calls') = Len(calls) + 1
      /\ \A j \in DOMAIN calls : calls'[j] = calls[j]
      /\ calls'[Len(calls) + 1] = new
      /\ DOMAIN calls' = DOMAIN calls \cup {Len(calls) + 1}
  BY <1>1, <1>2, <1>3
<1>5. /\ new.op = op /\ new.msgs = msgs /\ new.reply.kind # "ok"
      /\ new.thread \notin Inside
  BY DEF new, NoReply, Inside
<1>6. ReplyInv'
  BY <1>1, <1>4, <1>5 DEF ReplyInv
<1> QED
  BY <1>1, <1>4, <1>5, <1>6 DEF Posts

LEMMA MoreCalls ==
    ASSUME ManagerOK, UNCHANGED <<main, manager>>,
           Len(calls) \in Nat, Len(calls') = Len(calls) + 1
    PROVE  ManagerOK'
  BY DEF ManagerOK, manager, runners

LEMMA AskKeeps ==
    ASSUME CallsInv, NEW c \in Chats, Ask(c), UNCHANGED <<main, manager>>
    PROVE  CallsInv'
<1> DEFINE i == Len(calls) + 1
           h == Append(history[c], User(i))
<1>1. /\ c \in Clients /\ pending[c] = 0 /\ TypeOK /\ ChatInv(c)
      /\ history[c] \in Seq(Message) /\ model[c] \in Names
      /\ history' = [history EXCEPT ![c] = h] /\ history'[c] = h
      /\ pending' = [pending EXCEPT ![c] = i] /\ pending'[c] = i
      /\ i \in Ids /\ i # 0 /\ Len(calls) \in Nat
  BY CallsAssumption DEF CallsInv, Ask, Posts, TypeOK, Clients, Ids
<1>2. User(i) \in Message /\ User(i).role = "user" /\ User(i).call = i
  BY <1>1 DEF User, Message
<1>3. history[c] = <<>> \/ EndsWith("assistant", history[c])
  BY <1>1 DEF ChatInv
<1>4. /\ h \in Seq(Message)
      /\ Len(h) = Len(history[c]) + 1
      /\ h[Len(history[c]) + 1] = User(i)
      /\ \A k \in DOMAIN history[c] : h[k] = history[c][k]
      /\ Alternates(h)
      /\ EndsWith("user", h)
  BY <1>1, <1>2, <1>3, AppendLemma DEF ChatInv
<1>5. /\ calls' \in Seq(Call)
      /\ Len(calls') = Len(calls) + 1
      /\ Len(calls') \in 0 .. MaxCalls
      /\ \A j \in DOMAIN calls : calls'[j] = calls[j]
      /\ calls'[i].op = "chat"
      /\ calls'[i].msgs = h
      /\ calls'[i].thread \notin Inside
      /\ DOMAIN calls' = DOMAIN calls \cup {i}
      /\ ReplyInv'
  <2>1. Posts(c, "chat", model[c], h)
    BY <1>1 DEF Ask
  <2> QED
    BY <1>1, <1>4, <2>1, PostsLemma DEF Ops
<1>a. LateInv'
  BY <1>5, PostsLate DEF CallsInv
<1> HIDE DEF i, h
<1>6. ASSUME NEW d \in Chats, d # c
      PROVE  history'[d] = history[d] /\ pending'[d] = pending[d]
  BY <1>1, <1>6 DEF TypeOK, Clients
<1>7. TypeOK'
  <2>1. history' \in [Chats -> Seq(Message)]
    BY <1>1, <1>4 DEF TypeOK
  <2>2. pending' \in [Clients -> 0 .. Len(calls')]
    BY <1>1, <1>5 DEF TypeOK, i
  <2>3. ManagerOK'
    BY <1>1, <1>5, MoreCalls DEF TypeOK, ManagerOK
  <2> QED
    BY <1>1, <1>5, <2>1, <2>2, <2>3 DEF TypeOK, ManagerOK, Ask
<1>8. ASSUME NEW d \in Chats
      PROVE  ChatInv(d)'
  <2>1. CASE d = c
    <3>1. ASSUME NEW k \in DOMAIN history'[c]
          PROVE  history'[c][k].call \in DOMAIN calls'
      <4>1. k \in DOMAIN history[c] \/ k = Len(history[c]) + 1
        BY <1>1, <1>4
      <4>2. CASE k \in DOMAIN history[c]
        <5>1. h[k] = history[c][k] /\ history[c][k].call \in DOMAIN calls
          BY <1>1, <1>4, <4>2 DEF ChatInv
        <5> QED
          BY <1>1, <1>5, <5>1
      <4>3. CASE k = Len(history[c]) + 1
        <5>1. h[k] = User(i)
          BY <1>4, <4>3
        <5> QED
          BY <1>1, <1>2, <1>5, <5>1
      <4> QED
        BY <4>1, <4>2, <4>3
    <3>2. Alternates(history[c])' /\ EndsWith("user", history[c])'
      BY <1>1, <1>4 DEF Alternates, EndsWith
    <3>3. pending'[c] # 0 /\ calls'[pending'[c]].op = "chat" /\ calls'[pending'[c]].msgs = history'[c]
      BY <1>1, <1>5
    <3> QED
      BY <2>1, <3>1, <3>2, <3>3 DEF ChatInv
  <2>2. CASE d # c
    <3>1. ChatInv(d) /\ (pending[d] # 0 => pending[d] \in DOMAIN calls)
      BY <1>1 DEF CallsInv, TypeOK, Clients
    <3> QED
      BY <1>5, <1>6, <2>2, <3>1 DEF ChatInv, Alternates, EndsWith
  <2> QED
    BY <2>1, <2>2
<1>9. ChatAlternates'
  <2> SUFFICES ASSUME NEW j \in DOMAIN calls', calls'[j].op = "chat"
               PROVE  Alternates(calls'[j].msgs) /\ EndsWith("user", calls'[j].msgs)
    BY DEF ChatAlternates, Alternates, EndsWith
  <2>1. CASE j = i
    BY <1>4, <1>5, <2>1
  <2>2. CASE j # i
    BY <1>5, <2>2 DEF CallsInv, ChatAlternates
  <2> QED
    BY <2>1, <2>2
<1>10. AnswersFitHistory'
  <2> SUFFICES ASSUME NEW d \in Chats, NEW k \in DOMAIN history'[d],
                      history'[d][k].role = "assistant"
               PROVE  calls'[history'[d][k].call].msgs = SubSeq(history'[d], 1, k - 1)
    BY DEF AnswersFitHistory
  <2>1. history[d] \in Seq(Message)
    BY <1>1 DEF TypeOK
  <2>2. k \in DOMAIN history[d] /\ history'[d][k] = history[d][k]
    <3>1. CASE d = c
      BY <1>1, <1>2, <1>4, <3>1
    <3>2. CASE d # c
      BY <1>6, <3>2
    <3> QED
      BY <3>1, <3>2
  <2>3. SubSeq(history'[d], 1, k - 1) = SubSeq(history[d], 1, k - 1)
    <3>1. CASE d = c
      <4>1. k - 1 \in 0 .. Len(history[c]) /\ k - 1 \in 0 .. Len(h)
        BY <1>1, <1>4, <2>2, <3>1
      <4>2. /\ SubSeq(h, 1, k - 1) \in Seq(Message) /\ Len(SubSeq(h, 1, k - 1)) = k - 1
            /\ \A l \in 1 .. k - 1 : SubSeq(h, 1, k - 1)[l] = h[l]
        BY <1>4, <4>1, FirstLemma
      <4>3. /\ SubSeq(history[c], 1, k - 1) \in Seq(Message)
            /\ Len(SubSeq(history[c], 1, k - 1)) = k - 1
            /\ \A l \in 1 .. k - 1 : /\ l \in DOMAIN history[c]
                                     /\ SubSeq(history[c], 1, k - 1)[l] = history[c][l]
        BY <1>1, <4>1, FirstLemma
      <4>4. \A l \in 1 .. k - 1 : SubSeq(h, 1, k - 1)[l] = SubSeq(history[c], 1, k - 1)[l]
        BY <1>4, <4>2, <4>3
      <4>5. SubSeq(h, 1, k - 1) = SubSeq(history[c], 1, k - 1)
        BY <4>2, <4>3, <4>4, SeqEqual
      <4> QED
        BY <1>1, <3>1, <4>5
    <3>2. CASE d # c
      BY <1>6, <3>2
    <3> QED
      BY <3>1, <3>2
  <2>4. /\ calls[history[d][k].call].msgs = SubSeq(history[d], 1, k - 1)
        /\ history[d][k].call \in DOMAIN calls
    BY <2>2 DEF CallsInv, AnswersFitHistory, ChatInv
  <2> QED
    BY <1>5, <2>2, <2>3, <2>4
<1> QED
  BY <1>5, <1>a, <1>7, <1>8, <1>9, <1>10 DEF CallsInv

LEMMA CommandKeeps ==
    ASSUME CallsInv, NEW c \in Users, Command(c), UNCHANGED <<main, manager>>
    PROVE  CallsInv'
<1>1. /\ c \in Clients /\ c \notin Chats /\ TypeOK /\ Len(calls) \in Nat
      /\ UNCHANGED <<model, history>>
      /\ pending' = [pending EXCEPT ![c] = Len(calls) + 1]
  BY CallsAssumption DEF CallsInv, Command, Posts, TypeOK, Clients
<1>2. PICK op \in Ops \ {"chat"}, n \in Names : Posts(c, op, n, <<>>)
  BY DEF Command
<1>3. /\ calls' \in Seq(Call)
      /\ Len(calls') = Len(calls) + 1
      /\ Len(calls') \in 0 .. MaxCalls
      /\ \A j \in DOMAIN calls : calls'[j] = calls[j]
      /\ calls'[Len(calls) + 1].op = op
      /\ calls'[Len(calls) + 1].thread \notin Inside
      /\ DOMAIN calls' = DOMAIN calls \cup {Len(calls) + 1}
      /\ ReplyInv'
  <2>1. <<>> \in Seq(Message)
    OBVIOUS
  <2> QED
    BY <1>1, <1>2, <2>1, PostsLemma
<1>a. LateInv'
  BY <1>3, PostsLate DEF CallsInv
<1>4. TypeOK'
  <2>1. pending' \in [Clients -> 0 .. Len(calls')]
    BY <1>1, <1>3 DEF TypeOK
  <2>2. ManagerOK'
    BY <1>1, <1>3, MoreCalls DEF TypeOK, ManagerOK
  <2> QED
    BY <1>1, <1>3, <2>1, <2>2 DEF TypeOK, ManagerOK
<1>5. ASSUME NEW d \in Chats
      PROVE  ChatInv(d)'
  <2>1. /\ ChatInv(d) /\ pending'[d] = pending[d]
        /\ pending[d] # 0 => pending[d] \in DOMAIN calls
    BY <1>1 DEF CallsInv, TypeOK, Clients
  <2> QED
    BY <1>1, <1>3, <2>1 DEF ChatInv, Alternates, EndsWith
<1>6. ChatAlternates'
  <2> SUFFICES ASSUME NEW j \in DOMAIN calls', calls'[j].op = "chat"
               PROVE  Alternates(calls'[j].msgs) /\ EndsWith("user", calls'[j].msgs)
    BY DEF ChatAlternates, Alternates, EndsWith
  <2>1. j \in DOMAIN calls /\ calls'[j] = calls[j]
    BY <1>2, <1>3
  <2> QED
    BY <2>1 DEF CallsInv, ChatAlternates
<1>7. AnswersFitHistory'
  BY <1>1, <1>3 DEF CallsInv, AnswersFitHistory, ChatInv
<1> QED
  BY <1>3, <1>a, <1>4, <1>5, <1>6, <1>7 DEF CallsInv

LEMMA ResetKeeps ==
    ASSUME CallsInv, NEW c \in Chats, Reset(c), UNCHANGED <<main, manager>>
    PROVE  CallsInv'
<1>1. /\ UNCHANGED <<model, pending, calls, main, manager>>
      /\ history' = [history EXCEPT ![c] = <<>>] /\ pending[c] = 0
      /\ TypeOK /\ history'[c] = <<>>
  BY DEF CallsInv, Reset, TypeOK
<1>2. TypeOK'
  <2>1. history' \in [Chats -> Seq(Message)]
    BY <1>1 DEF TypeOK
  <2> QED
    BY <1>1, <2>1 DEF TypeOK, manager, runners
<1>a. LateInv'
  BY <1>1, IdleKeeps DEF CallsInv, manager
<1>3. ASSUME NEW d \in Chats
      PROVE  d # c => history'[d] = history[d]
  BY <1>1 DEF TypeOK
<1>4. ASSUME NEW d \in Chats
      PROVE  ChatInv(d)'
  <2>1. CASE d = c
    BY <1>1, <2>1 DEF ChatInv, Alternates
  <2>2. CASE d # c
    <3>1. ChatInv(d)
      BY DEF CallsInv
    <3> QED
      BY <1>1, <1>3, <2>2, <3>1 DEF ChatInv, Alternates, EndsWith
  <2> QED
    BY <2>1, <2>2
<1>5. ReplyInv' /\ ChatAlternates'
  BY <1>1 DEF CallsInv, ReplyInv, ChatAlternates, Alternates, EndsWith
<1>6. AnswersFitHistory'
  <2> SUFFICES ASSUME NEW d \in Chats, NEW k \in DOMAIN history'[d],
                      history'[d][k].role = "assistant"
               PROVE  calls'[history'[d][k].call].msgs = SubSeq(history'[d], 1, k - 1)
    BY DEF AnswersFitHistory
  <2>1. d # c
    BY <1>1
  <2> QED
    BY <1>1, <1>3, <2>1 DEF CallsInv, AnswersFitHistory
<1> QED
  BY <1>2, <1>a, <1>4, <1>5, <1>6 DEF CallsInv

-----------------------------------------------------------------------------
(* The invariant, and what it is for. *)

LEMMA InitCalls == Init => CallsInv
<1> SUFFICES ASSUME Init
             PROVE  CallsInv
  OBVIOUS
<1>1. Len(calls) = 0 /\ DOMAIN calls = {} /\ MaxCalls \in Nat
  BY CallsAssumption DEF Init
<1>2. TypeOK
  BY <1>1 DEF Init, TypeOK, runners
<1>b. LateInv
  BY <1>1 DEF Init, LateInv, LateRunnersOnly
<1>3. ASSUME NEW c \in Chats
      PROVE  /\ history[c] = <<>> /\ DOMAIN history[c] = {} /\ pending[c] = 0
             /\ ChatInv(c)
  BY DEF Init, ChatInv, Alternates, Clients
<1> QED
  BY <1>1, <1>2, <1>b, <1>3 DEF CallsInv, ReplyInv, ChatAlternates, AnswersFitHistory

LEMMA NextCalls ==
    ASSUME CallsInv, [Next]_vars
    PROVE  CallsInv'
<1>1. CASE UNCHANGED vars
  BY <1>1 DEF vars, clients, manager, CallsInv, TypeOK, ChatInv, Alternates, EndsWith,
              ReplyInv, ChatAlternates, AnswersFitHistory, LateInv, LateRunnersOnly, runners
<1>2. CASE ClientStep
  <2>1. ASSUME NEW c \in Chats, Ask(c) \/ Reset(c)
        PROVE  CallsInv'
    BY <1>2, <2>1, AskKeeps, ResetKeeps DEF ClientStep
  <2>2. ASSUME NEW c \in Users, Command(c)
        PROVE  CallsInv'
    BY <1>2, <2>2, CommandKeeps DEF ClientStep
  <2> QED
    BY <1>2, <2>1, <2>2 DEF ClientStep
<1>3. ASSUME NEW c \in Clients, ReturnStep(c) \/ GiveUpStep(c)
      PROVE  CallsInv'
  BY <1>3, ReturnKeeps DEF ReturnStep, GiveUpStep
<1>5. CASE GeneratorEnds \/ RunnerDies \/ Close \/ MainStep \/ Crash \/ Restart
  BY <1>5, ServerStepKeeps
<1>4. ASSUME NEW i \in DOMAIN calls, CallStep(i)
      PROVE  CallsInv'
  BY <1>4, CallStepKeeps
<1>6. CASE RunnerAnswers
  <2>1. PICK i \in DOMAIN calls : Answer(i) /\ UNCHANGED <<clients, main>>
    BY <1>6 DEF RunnerAnswers
  <2> QED
    BY <2>1, AnswerKeeps
<1>7. CASE ChildEnds
  <2>1. PICK i \in DOMAIN calls : Unstick(i) /\ UNCHANGED <<clients, main>>
    BY <1>7 DEF ChildEnds
  <2> QED
    BY <2>1, CallStepKeeps
<1> QED
  BY <1>1, <1>2, <1>3, <1>4, <1>5, <1>6, <1>7 DEF Next

\* The inductive invariant: what each chat and each call holds, together with
\* the two properties.
THEOREM CallsInvariance == Spec => []CallsInv
BY InitCalls, NextCalls, PTL DEF Spec

\* The variables of the clients, the calls and the server keep their types.
THEOREM CallsTypes == Spec => []TypeOK
<1>1. CallsInv => TypeOK
  BY DEF CallsInv
<1> QED
  BY <1>1, CallsInvariance, PTL

\* Whatever fails, a model is asked with a conversation in which the user and
\* the assistant take turns and the user speaks last (cmd_chat in main.cpp).
THEOREM ChatsAlternate == Spec => []ChatAlternates
<1>1. CallsInv => ChatAlternates
  BY DEF CallsInv
<1> QED
  BY <1>1, CallsInvariance, PTL

\* Every answer in the history of a chat was made for the conversation before
\* it, although clients, manager and server may each give up a call first
\* (RunnerManager::chat_completion, cmd_chat).
THEOREM AnswersFit == Spec => []AnswersFitHistory
<1>1. CallsInv => AnswersFitHistory
  BY DEF CallsInv
<1> QED
  BY <1>1, CallsInvariance, PTL

\* After the stop_all of main, the only runners are those of calls that got the
\* mutex of the manager after it: no call that was spawning one when the server
\* was told to end leaves it behind (run_oatpp_serve, RunnerManager::stop_all).
THEOREM LateRunners == Spec => []LateRunnersOnly
<1>1. CallsInv => LateRunnersOnly
  BY DEF CallsInv, LateInv
<1> QED
  BY <1>1, CallsInvariance, PTL

=============================================================================
