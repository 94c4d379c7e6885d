-------------------------- MODULE CompletionProofs --------------------------
(***************************************************************************)
(* Proofs about Completion, for any number of retries and events, and any  *)
(* capacity of the channel; and about Conversation, which is what such     *)
(* completions are for, for any answers, presets and number of turns.      *)
(***************************************************************************)
EXTENDS Completion, Conversation, SequenceTheorems, FiniteSetTheorems,
        WellFoundedInduction, TLAPS

(***************************************************************************)
(* The request.                                                            *)
(***************************************************************************)
CallType ==
  /\ dialect \in {"completions", "messages", "responses"} /\ op \in {"chat", "stream"}
  /\ pc \in {"send", "limited", "refused", "wait", "decode", "scan", "push", "over"}
  /\ attempt \in 0 .. MaxRetries
  /\ result \in {"none", "ok", "stream", "failed", "rateLimited", "cancelled"}
  /\ bodies \in Nat /\ requests \in Nat /\ completed \in Nat

\* A request goes out only when the server has carried out none; one more has gone out
\* than is counted as an attempt as soon as it is answered; and a response has its body.
Owed ==
  /\ requests = IF pc = "send" THEN attempt
                ELSE IF pc = "over" THEN requests ELSE attempt + 1
  /\ requests <= attempt + 1
  /\ bodies = IF pc \in {"limited", "refused", "decode", "scan", "push"} THEN 1 ELSE 0
  /\ completed <= IF pc \in {"send", "limited", "refused", "wait"} THEN 0 ELSE 1
  /\ pc = "wait" => attempt < MaxRetries

CInv == CallType /\ Owed

LEMMA CInvInit == Init => CInv
  <1> SUFFICES ASSUME Init PROVE CInv
    OBVIOUS
  <1> QED
    BY BoundsAssumption DEF Init, CInv, CallType, Owed

\* What the stream, its server and its caller do leaves the request alone, but for
\* the close of the body.
LEMMA Quiet ==
  ASSUME CInv, UNCHANGED call,
         UNCHANGED pc \/ (pc = "scan" /\ pc' = "push") \/ (pc = "push" /\ pc' = "scan")
  PROVE  CInv'
  BY DEF CInv, CallType, Owed, call

LEMMA CInvNext == CInv /\ [Next]_vars => CInv'
  <1> SUFFICES ASSUME CInv, [Next]_vars PROVE CInv'
    OBVIOUS
  <1> USE BoundsAssumption
  <1>1. CASE SendFails
    BY <1>1 DEF SendFails, Fails, CInv, CallType, Owed
  <1>2. CASE Answered
    <2>1. CASE op = "chat" /\ pc' = "decode" /\ completed' = completed + 1
      BY <1>2, <2>1 DEF Answered, CInv, CallType, Owed
    <2>2. CASE op # "chat" /\ pc' = "scan" /\ completed' = completed + 1
      BY <1>2, <2>2 DEF Answered, CInv, CallType, Owed
    <2>3. CASE UNCHANGED <<completed, result>> /\ pc' \in {"limited", "refused"}
      BY <1>2, <2>3 DEF Answered, CInv, CallType, Owed
    <2> QED
      BY <1>2, <2>1, <2>2, <2>3 DEF Answered, Sentinel
  <1>3. CASE Decode
    BY <1>3 DEF Decode, CInv, CallType, Owed
  <1>4. CASE Refused
    <2>1. CASE pc' = "wait" /\ UNCHANGED result /\ MayRetry
      BY <1>4, <2>1 DEF Refused, MayRetry, CInv, CallType, Owed
    <2>2. CASE pc' = "over" /\ result' \in {"rateLimited", "failed"}
      BY <1>4, <2>2 DEF Refused, CInv, CallType, Owed
    <2> QED
      BY <1>4, <2>1, <2>2 DEF Refused, Fails
  <1>5. CASE Retry
    BY <1>5 DEF Retry, CInv, CallType, Owed
  <1>6. CASE Cancelled
    BY <1>6 DEF Cancelled, Fails, CInv, CallType, Owed
  <1>7. CASE Pushed
    <2>1. CASE last
      BY <1>7, <2>1 DEF Pushed, CInv, CallType, Owed
    <2>2. CASE ~last
      BY <1>7, <2>2, Quiet DEF Pushed, call
    <2> QED
      BY <2>1, <2>2
  <1>8. CASE Scan \/ ScanEnds \/ Push
    BY <1>8, Quiet DEF Scan, ScanEnds, Push
  <1>9. CASE (\E kind \in Kinds, ok \in BOOLEAN : Emit(kind, ok)) \/ EndOfBody \/ Cut
    BY <1>9, Quiet DEF Emit, EndOfBody, Cut
  <1>10. CASE Receive \/ Leave
    BY <1>10, Quiet DEF Receive, Leave
  <1>11. CASE UNCHANGED vars
    BY <1>11, Quiet DEF vars
  <1> QED
    BY <1>1, <1>2, <1>3, <1>4, <1>5, <1>6, <1>7, <1>8, <1>9, <1>10, <1>11
    DEF Next, Do, Client

LEMMA CInvAlways == Spec => []CInv
  BY CInvInit, CInvNext, PTL DEF Spec

\* Whatever the bounds, the server carries out at most one request of a call: a retry
\* follows only a refusal (openai 211-255).
THEOREM AtMostOnce == Spec => []CompletedOnce
  <1>1. CInv => CompletedOnce
    BY DEF CInv, CallType, Owed, CompletedOnce
  <1> QED
    BY <1>1, CInvAlways, PTL

\* A call sends no more than one request and its retries, holds at most one response
\* body at a time, and none when it is over, whatever its result
\* (openai 208-264, anthropic 167-190, openairesponses 140-163).
THEOREM BodiesAreClosed ==
  Spec => [](requests <= MaxRetries + 1 /\ bodies <= 1 /\ (pc = "over" => bodies = 0))
  <1>1. CInv => requests <= MaxRetries + 1 /\ bodies <= 1 /\ (pc = "over" => bodies = 0)
    BY BoundsAssumption DEF CInv, CallType, Owed
  <1> QED
    BY <1>1, CInvAlways, PTL

(***************************************************************************)
(* The recursive function of Completion, by induction.                     *)
(***************************************************************************)
\* Induction, in the form of a set that has 0 and every successor.
LEMMA Induction ==
  ASSUME NEW S, 0 \in S, \A n \in Nat : n \in S => n + 1 \in S
  PROVE  \A n \in Nat : n \in S
  <1> DEFINE T == Nat \ S
  <1> SUFFICES ASSUME T # {} PROVE FALSE
    OBVIOUS
  <1>1. PICK m \in T : \A n \in T : ~(<<n, m>> \in OpToRel(<, Nat))
    <2>1. T \subseteq Nat
      OBVIOUS
    <2> HIDE DEF T
    <2> QED
      BY <2>1, WFMin, NatLessThanWellFounded, Zenon
  <1>2. m \in Nat /\ m \notin S
    BY <1>1
  <1>3. m - 1 \in Nat /\ m - 1 < m /\ (m - 1) + 1 = m
    BY <1>2
  <1>4. m - 1 \in S
    <2>1. <<m - 1, m>> \in OpToRel(<, Nat)
      BY <1>2, <1>3 DEF OpToRel
    <2> QED
      BY <1>1, <1>3, <2>1
  <1> QED
    BY <1>2, <1>3, <1>4

\* g is the function that UpTo defines, on 0 .. m.
Kept(set, seq, g, n) ==
  IF n = 0 THEN <<>>
  ELSE IF seq[n] \in set THEN Append(g[n - 1], seq[n]) ELSE g[n - 1]

IsKept(set, seq, m, g) ==
  g = [n \in 0 .. m |-> Kept(set, seq, g, n)]

LEMMA KeptExists ==
  ASSUME NEW set, NEW seq
  PROVE  \A m \in Nat : \E g : IsKept(set, seq, m, g)
  <1> DEFINE S == {m \in Nat : \E g : IsKept(set, seq, m, g)}
  <1>1. 0 \in S
    <2>1. IsKept(set, seq, 0, [n \in 0 .. 0 |-> <<>>])
      BY DEF IsKept, Kept
    <2> QED
      BY <2>1
  <1>2. ASSUME NEW m \in Nat, m \in S PROVE m + 1 \in S
    <2>1. PICK g : IsKept(set, seq, m, g)
      BY <1>2
    <2> DEFINE h == [n \in 0 .. m + 1 |-> Kept(set, seq, g, n)]
    <2>2. ASSUME NEW n \in 0 .. m PROVE h[n] = g[n]
      BY <2>1 DEF IsKept
    <2>3. ASSUME NEW n \in 0 .. m + 1 PROVE h[n] = Kept(set, seq, h, n)
      <3>1. CASE n = 0
        BY <3>1 DEF Kept
      <3>2. CASE n # 0
        <4>1. n - 1 \in 0 .. m
          BY <3>2
        <4>2. h[n - 1] = g[n - 1]
          BY <4>1, <2>2
        <4>3. h[n] = Kept(set, seq, g, n)
          OBVIOUS
        <4> HIDE DEF h
        <4> QED
          BY <4>2, <4>3 DEF Kept
      <3> QED
        BY <3>1, <3>2
    <2>4. IsKept(set, seq, m + 1, h)
      <3>1. h = [n \in 0 .. m + 1 |-> h[n]]
        OBVIOUS
      <3> HIDE DEF h
      <3> QED
        BY <2>3, <3>1 DEF IsKept
    <2> QED
      BY <2>4
  <1> HIDE DEF S
  <1>3. \A m \in Nat : m \in S
    BY <1>1, <1>2, Induction
  <1> QED
    BY <1>3 DEF S

\* Two such functions agree where both are defined.
LEMMA KeptUnique ==
  ASSUME NEW set, NEW seq, NEW m \in Nat, NEW l \in Nat, NEW g, NEW h,
         IsKept(set, seq, m, g), IsKept(set, seq, l, h), m <= l
  PROVE  \A n \in 0 .. m : g[n] = h[n]
  <1> DEFINE S == {n \in Nat : n <= m => g[n] = h[n]}
  <1>1. 0 \in S
    BY DEF IsKept, Kept
  <1>2. ASSUME NEW n \in Nat, n \in S PROVE n + 1 \in S
    <2> SUFFICES ASSUME n + 1 <= m PROVE g[n + 1] = h[n + 1]
      OBVIOUS
    <2>1. g[n] = h[n] /\ n + 1 \in 0 .. m /\ n + 1 \in 0 .. l /\ (n + 1) - 1 = n
      BY <1>2
    <2>2. g[n + 1] = Kept(set, seq, g, n + 1) /\ h[n + 1] = Kept(set, seq, h, n + 1)
      BY <2>1 DEF IsKept
    <2> QED
      BY <2>1, <2>2 DEF Kept
  <1> HIDE DEF S
  <1>3. \A n \in Nat : n \in S
    BY <1>1, <1>2, Induction
  <1> QED
    BY <1>3 DEF S

\* The equation that defines UpTo.
LEMMA UpToDef ==
  ASSUME NEW set, NEW seq, NEW n \in Nat
  PROVE  UpTo(set, seq)[n] = Kept(set, seq, UpTo(set, seq), n)
  <1> DEFINE G(m) == CHOOSE g : IsKept(set, seq, m, g)
             F == [m \in Nat |-> G(m)[m]]
  <1>1. ASSUME NEW m \in Nat PROVE IsKept(set, seq, m, G(m))
    BY KeptExists, Zenon
  <1> HIDE DEF G
  <1>2. ASSUME NEW m \in Nat PROVE F[m] = Kept(set, seq, F, m)
    <2>1. G(m)[m] = Kept(set, seq, G(m), m)
      BY <1>1 DEF IsKept
    <2>2. CASE m = 0
      BY <2>1, <2>2 DEF Kept
    <2>3. CASE m # 0
      <3>1. m - 1 \in Nat /\ m - 1 <= m /\ m - 1 \in 0 .. m - 1
        BY <2>3
      <3>2. IsKept(set, seq, m - 1, G(m - 1)) /\ IsKept(set, seq, m, G(m))
        BY <1>1, <3>1
      <3>3. G(m - 1)[m - 1] = G(m)[m - 1]
        BY <3>1, <3>2, KeptUnique
      <3>4. F[m - 1] = G(m)[m - 1] /\ F[m] = G(m)[m]
        BY <3>1, <3>3
      <3> HIDE DEF F
      <3> QED
        BY <2>1, <3>4 DEF Kept
    <2> QED
      BY <2>2, <2>3
  <1>3. F = [m \in Nat |-> Kept(set, seq, F, m)]
    <2>1. F = [m \in Nat |-> F[m]]
      OBVIOUS
    <2> HIDE DEF F
    <2> QED
      BY <1>2, <2>1
  <1> DEFINE U == CHOOSE f : f = [m \in Nat |-> Kept(set, seq, f, m)]
  <1>4. U = [m \in Nat |-> Kept(set, seq, U, m)]
    <2> HIDE DEF F
    <2> QED
      BY <1>3, Zenon
  <1>5. UpTo(set, seq) = U
    BY DEF UpTo, Kept
  <1> HIDE DEF U
  <1> QED
    BY <1>4, <1>5

IsUpTo(u, set, seq) ==
  /\ u[0] = <<>>
  /\ \A n \in Nat : u[n + 1] = IF seq[n + 1] \in set THEN Append(u[n], seq[n + 1])
                               ELSE u[n]

LEMMA UpToStep ==
  ASSUME NEW set, NEW seq
  PROVE  IsUpTo(UpTo(set, seq), set, seq)
  <1>1. \A n \in Nat : n + 1 \in Nat /\ n + 1 # 0 /\ (n + 1) - 1 = n
    OBVIOUS
  <1>2. UpTo(set, seq)[0] = <<>>
    BY UpToDef DEF Kept
  <1>3. ASSUME NEW n \in Nat
        PROVE  UpTo(set, seq)[n + 1] = Kept(set, seq, UpTo(set, seq), n + 1)
    BY <1>1, UpToDef
  <1> QED
    BY <1>1, <1>2, <1>3 DEF Kept, IsUpTo

\* It keeps things, and no more than there are.
LEMMA UpToType ==
  ASSUME NEW set, NEW T, NEW seq \in Seq(T)
  PROVE  \A n \in 0 .. Len(seq) : /\ UpTo(set, seq)[n] \in Seq(T)
                                  /\ Len(UpTo(set, seq)[n]) <= n
  <1> DEFINE u == UpTo(set, seq)
             S == {n \in Nat : n <= Len(seq) => u[n] \in Seq(T) /\ Len(u[n]) <= n}
  <1>r. IsUpTo(u, set, seq)
    BY UpToStep
  <1> HIDE DEF u
  <1>1. 0 \in S
    <2>1. u[0] = <<>> /\ <<>> \in Seq(T) /\ Len(<<>>) <= 0
      BY <1>r DEF IsUpTo
    <2>2. u[0] \in Seq(T) /\ Len(u[0]) <= 0
      BY <2>1, Zenon
    <2> QED
      BY <2>2
  <1>2. ASSUME NEW n \in Nat, n \in S PROVE n + 1 \in S
    <2> SUFFICES ASSUME n + 1 <= Len(seq)
                 PROVE  u[n + 1] \in Seq(T) /\ Len(u[n + 1]) <= n + 1
      OBVIOUS
    <2>1. n \in Nat /\ n + 1 \in 1 .. Len(seq) /\ u[n] \in Seq(T) /\ Len(u[n]) <= n
      BY <1>2
    <2>2. seq[n + 1] \in T
      BY <2>1
    <2>3. u[n + 1] = Append(u[n], seq[n + 1]) \/ u[n + 1] = u[n]
      BY <1>r DEF IsUpTo
    <2>4. /\ Append(u[n], seq[n + 1]) \in Seq(T)
          /\ Len(Append(u[n], seq[n + 1])) = Len(u[n]) + 1
      BY <2>1, <2>2
    <2>5. Len(u[n]) \in Nat
      BY <2>1
    <2>6. CASE u[n + 1] = u[n]
      <3>1. u[n + 1] \in Seq(T) /\ Len(u[n + 1]) = Len(u[n])
        BY <2>1, <2>6, Zenon
      <3> QED
        BY <2>1, <2>5, <3>1
    <2>7. CASE u[n + 1] = Append(u[n], seq[n + 1])
      <3>1. u[n + 1] \in Seq(T) /\ Len(u[n + 1]) = Len(u[n]) + 1
        BY <2>4, <2>7, Zenon
      <3> QED
        BY <2>1, <2>5, <3>1
    <2> QED
      BY <2>3, <2>6, <2>7
  <1> HIDE DEF S
  <1>3. \A n \in Nat : n \in S
    BY <1>1, <1>2, Induction
  <1> QED
    BY <1>3 DEF S, u

\* What is among the first things depends on them only, and on whether each belongs.
LEMMA UpToSame ==
  ASSUME NEW A, NEW B, NEW s, NEW t, NEW m \in Nat,
         \A i \in 1 .. m : s[i] = t[i] /\ (s[i] \in A <=> s[i] \in B)
  PROVE  \A n \in 0 .. m : UpTo(A, s)[n] = UpTo(B, t)[n]
  <1> DEFINE S == {n \in Nat : n <= m => UpTo(A, s)[n] = UpTo(B, t)[n]}
  <1>1. 0 \in S
    BY UpToStep DEF IsUpTo
  <1>2. ASSUME NEW n \in Nat, n \in S PROVE n + 1 \in S
    <2> SUFFICES ASSUME n + 1 <= m PROVE UpTo(A, s)[n + 1] = UpTo(B, t)[n + 1]
      OBVIOUS
    <2>1. UpTo(A, s)[n] = UpTo(B, t)[n] /\ s[n + 1] = t[n + 1]
          /\ (s[n + 1] \in A <=> s[n + 1] \in B)
      BY <1>2
    <2>2. IsUpTo(UpTo(A, s), A, s) /\ IsUpTo(UpTo(B, t), B, t)
      BY UpToStep
    <2> QED
      BY <2>1, <2>2 DEF IsUpTo
  <1> HIDE DEF S
  <1>3. \A n \in Nat : n \in S
    BY <1>1, <1>2, Induction
  <1> QED
    BY <1>3 DEF S

\* Things that do not belong add nothing.
LEMMA UpToRest ==
  ASSUME NEW set, NEW seq, NEW m \in Nat, NEW l \in Nat,
         \A i \in m + 1 .. l : seq[i] \notin set
  PROVE  \A n \in m .. l : UpTo(set, seq)[n] = UpTo(set, seq)[m]
  <1> DEFINE S == {n \in Nat : m <= n /\ n <= l => UpTo(set, seq)[n] = UpTo(set, seq)[m]}
  <1>1. 0 \in S
    OBVIOUS
  <1>2. ASSUME NEW n \in Nat, n \in S PROVE n + 1 \in S
    <2> SUFFICES ASSUME m <= n, n + 1 <= l
                 PROVE  UpTo(set, seq)[n + 1] = UpTo(set, seq)[m]
      OBVIOUS
    <2>1. UpTo(set, seq)[n] = UpTo(set, seq)[m] /\ seq[n + 1] \notin set
      BY <1>2
    <2>2. IsUpTo(UpTo(set, seq), set, seq)
      BY UpToStep
    <2> QED
      BY <2>1, <2>2 DEF IsUpTo
  <1> HIDE DEF S
  <1>3. \A n \in Nat : n \in S
    BY <1>1, <1>2, Induction
  <1> QED
    BY <1>3 DEF S

\* What is among the first things stays in front.
LEMMA UpToGrows ==
  ASSUME NEW set, NEW T, NEW seq \in Seq(T), NEW m \in 0 .. Len(seq)
  PROVE  \A n \in m .. Len(seq) :
           /\ Len(UpTo(set, seq)[m]) <= Len(UpTo(set, seq)[n])
           /\ UpTo(set, seq)[m] = SubSeq(UpTo(set, seq)[n], 1, Len(UpTo(set, seq)[m]))
  <1> DEFINE u == UpTo(set, seq)
             S == {n \in Nat : m <= n /\ n <= Len(seq) =>
                                 /\ Len(u[m]) <= Len(u[n])
                                 /\ u[m] = SubSeq(u[n], 1, Len(u[m]))}
  <1>t. \A n \in 0 .. Len(seq) : u[n] \in Seq(T)
    BY UpToType
  <1>r. IsUpTo(u, set, seq)
    BY UpToStep
  <1>s. \A n \in Nat : u[n + 1] = Append(u[n], seq[n + 1]) \/ u[n + 1] = u[n]
    BY <1>r DEF IsUpTo
  <1> HIDE DEF u
  <1>0. ASSUME NEW n \in Nat, n = m PROVE n \in S
    <2>1. u[m] = SubSeq(u[m], 1, Len(u[m])) /\ Len(u[m]) \in Nat
      BY <1>t
    <2> QED
      BY <1>0, <2>1
  <1>1. 0 \in S
    <2>1. CASE m = 0
      BY <1>0, <2>1
    <2>2. CASE m > 0
      BY <2>2
    <2> QED
      BY <2>1, <2>2
  <1>2. ASSUME NEW n \in Nat, n \in S PROVE n + 1 \in S
    <2>1. CASE m = n + 1
      BY <1>0, <2>1
    <2>2. CASE m > n + 1
      BY <2>2
    <2>3. CASE m <= n
      <3> SUFFICES ASSUME n + 1 <= Len(seq)
                   PROVE  /\ Len(u[m]) <= Len(u[n + 1])
                          /\ u[m] = SubSeq(u[n + 1], 1, Len(u[m]))
        OBVIOUS
      <3>1. Len(u[m]) <= Len(u[n]) /\ u[m] = SubSeq(u[n], 1, Len(u[m]))
        BY <1>2, <2>3
      <3>2. u[m] \in Seq(T) /\ u[n] \in Seq(T) /\ seq[n + 1] \in T
            /\ Len(u[m]) \in Nat /\ Len(u[n]) \in Nat
        BY <1>t, <2>3
      <3>3. CASE u[n + 1] = Append(u[n], seq[n + 1])
        <4>1. /\ Len(Append(u[n], seq[n + 1])) = Len(u[n]) + 1
              /\ SubSeq(Append(u[n], seq[n + 1]), 1, Len(u[m])) = SubSeq(u[n], 1, Len(u[m]))
          BY <3>1, <3>2
        <4> QED
          BY <3>1, <3>2, <3>3, <4>1
      <3> QED
        BY <1>s, <3>1, <3>3
    <2> QED
      BY <2>1, <2>2, <2>3
  <1> HIDE DEF S
  <1>3. \A n \in Nat : n \in S
    BY <1>1, <1>2, Induction
  <1> QED
    BY <1>3 DEF S, u

LEMMA OnlyNothing ==
  ASSUME NEW set
  PROVE  Only(set, <<>>) = <<>>
  <1>1. IsUpTo(UpTo(set, <<>>), set, <<>>)
    BY UpToStep
  <1> QED
    BY <1>1 DEF IsUpTo, Only

\* One more thing.
LEMMA OnlyAppend ==
  ASSUME NEW set, NEW seq \in Seq(Things), NEW e \in Things
  PROVE  /\ \A n \in 0 .. Len(seq) : UpTo(set, Append(seq, e))[n] = UpTo(set, seq)[n]
         /\ e \in set => Only(set, Append(seq, e)) = Append(Only(set, seq), e)
         /\ e \notin set => Only(set, Append(seq, e)) = Only(set, seq)
  <1> DEFINE t == Append(seq, e)
             m == Len(seq)
  <1>1. m \in Nat /\ Len(t) = m + 1 /\ t[m + 1] = e /\ \A i \in 1 .. m : seq[i] = t[i]
    OBVIOUS
  <1> HIDE DEF t, m
  <1>2. \A n \in 0 .. m : UpTo(set, seq)[n] = UpTo(set, t)[n]
    BY <1>1, UpToSame
  <1>3. UpTo(set, t)[m] = UpTo(set, seq)[m]
    BY <1>1, <1>2
  <1>4. UpTo(set, t)[m + 1] = IF e \in set THEN Append(UpTo(set, seq)[m], e)
                                ELSE UpTo(set, seq)[m]
    <2>1. IsUpTo(UpTo(set, t), set, t)
      BY UpToStep
    <2> QED
      BY <1>1, <1>3, <2>1 DEF IsUpTo
  <1> QED
    BY <1>1, <1>2, <1>4 DEF Only, t, m

(***************************************************************************)
(* The stream.                                                             *)
(***************************************************************************)
Shapes ==
  /\ out \in Seq(Things) /\ Len(out) <= 1 /\ last \in BOOLEAN /\ tool \in 0 .. MaxEvents
  /\ chan \in Seq(Things) /\ Len(chan) <= Capacity /\ closed \in BOOLEAN
  /\ reader \in {"reading", "gone", "done"} /\ got \in Seq(Things)
  /\ sent \in Seq(Things) /\ wire \in Seq(Things) /\ eof \in {"open", "end", "cut"}

\* A round of the goroutine sends what it has made; the round of an error is the last.
Rounds ==
  /\ pc # "push" => out = <<>>
  /\ last => pc \in {"push", "over"}
  /\ closed => pc = "over"
  /\ Has("error", Chunks) => last

\* No event is about a later one, a tool call has the place of its start, and a stream
\* has nothing but "end" behind its end.
Honest ==
  \A i \in 1 .. Len(sent) :
    /\ sent[i].id \in 1 .. i
    /\ sent[i].kind = "start" => sent[i].id = i
    /\ sent[i].kind \in {"finish", "end"} =>
         \A j \in i + 1 .. Len(sent) : sent[j].kind = "end"

\* Nothing but "end" can come any more.
Over == eof # "open" \/ Has("finish", sent) \/ Has("end", sent)

\* A strict client that has not failed could read all of the first k events.
Clean(k) == dialect # "responses" /\ ~Has("error", Chunks) =>
              \A i \in 1 .. k : sent[i].ok \/ sent[i].kind = "end"

\* A client that stops without an error leaves nothing unread.
Whole(k) == last /\ ~Has("error", Chunks) =>
              Over /\ \A i \in k + 1 .. Len(sent) : sent[i].kind = "end"

LegibleProse == Legible(Prose)
Asked  == Legible({"start", "args"})
Called == [kind : CallKinds, id : 0 .. MaxEvents, ok : BOOLEAN]

\* The id that arguments should have behind some events about tool calls.
Current(calls, events) ==
  IF calls = <<>> \/ Last(calls).kind = "argsdone" THEN 0
  ELSE IF events[Last(calls).id].ok THEN Last(calls).id ELSE 0

\* Arguments have had it so far.
Booking(k) == LET real == UpTo(Asked, sent)[k]
               told == Only(Asked, Chunks)
           IN /\ tool = Current(UpTo(Called, sent)[k], sent)
              /\ Len(told) = Len(real)
              /\ \A i \in 1 .. Len(real) : told[i] = Booked(real[i], sent)

\* The goroutine has read k events.  The next ones are on the wire, up to the last one
\* unless the body was cut, and what the read ones say has come out.
Read(k) ==
  /\ k + Len(wire) <= Len(sent)
  /\ \A i \in 1 .. Len(wire) : wire[i] = sent[k + i]
  /\ eof # "cut" => k + Len(wire) = Len(sent)
  /\ Only(LegibleProse, Chunks) = UpTo(LegibleProse, sent)[k]
  /\ Clean(k) /\ Whole(k)
  /\ dialect = "responses" /\ InTurn(sent) => Booking(k)

SInv == /\ CInv /\ Shapes /\ Rounds /\ Honest
        /\ \E k \in 0 .. Len(sent) : Read(k)

LEMMA ThingParts ==
  /\ \A e \in Things : /\ e.kind \in Kinds /\ e.id \in 0 .. MaxEvents /\ e.ok \in BOOLEAN
                       /\ e.ok => e = NewChunk(e.kind, e.id)
  /\ \A kind \in Kinds, id \in 0 .. MaxEvents :
       /\ NewChunk(kind, id) \in Things /\ NewChunk(kind, id).kind = kind
       /\ NewChunk(kind, id).id = id /\ NewChunk(kind, id).ok
  BY DEF Things, NewChunk

LEMMA Members ==
  \A e \in Things :
    /\ e \in LegibleProse <=> e.kind \in Prose /\ e.ok
    /\ e \in Asked <=> e.kind \in {"start", "args"} /\ e.ok
    /\ e \in Pieces <=> e.kind \in Prose
    /\ e \in Called <=> e.kind \in CallKinds
  BY DEF Things, Legible, LegibleProse, Asked, Pieces, Called

LEMMA ChunksType == Shapes => Chunks \in Seq(Things)
  BY DEF Shapes, Chunks

LEMMA ChunkType ==
  ASSUME NEW e \in Things, tool \in 0 .. MaxEvents
  PROVE  /\ Chunk(e) \in Things /\ Chunk(e).kind = e.kind /\ Chunk(e).ok
         /\ Chunk(e).id = IF e.kind # "args" THEN e.id
                          ELSE IF dialect = "responses" THEN tool ELSE 0
         /\ e.ok /\ e.kind # "args" => Chunk(e) = e
  <1>1. e.kind \in Kinds /\ e.id \in 0 .. MaxEvents /\ 0 \in 0 .. MaxEvents
    BY ThingParts, BoundsAssumption
  <1> QED
    BY <1>1, ThingParts DEF Chunk

\* An event becomes an error, or a chunk of its kind, or nothing.
LEMMA BecomesType ==
  ASSUME NEW e \in Things, tool \in 0 .. MaxEvents,
         dialect \in {"completions", "messages", "responses"}
  PROVE  \/ Becomes(e) = <<>> /\ ~Fatal(e)
         \/ \E c \in Things : /\ Becomes(e) = <<c>> /\ c.ok
                              /\ Fatal(e) <=> c.kind = "error"
                              /\ ~Fatal(e) => e.ok /\ c = Chunk(e)
  <1>1. CASE Fatal(e)
    <2> DEFINE c == NewChunk("error", 0)
    <2>1. c \in Things /\ c.kind = "error" /\ c.ok
      BY ThingParts, BoundsAssumption DEF Kinds
    <2>2. Becomes(e) = <<c>>
      BY <1>1 DEF Becomes
    <2> QED
      BY <1>1, <2>1, <2>2
  <1>2. CASE ~Fatal(e) /\ e.ok /\ e.kind \in Shown[dialect]
    <2>1. Becomes(e) = <<Chunk(e)>>
      BY <1>2 DEF Becomes
    <2>2. Chunk(e) \in Things /\ Chunk(e).kind = e.kind /\ Chunk(e).ok
      BY ChunkType
    <2>3. e.kind # "error"
      BY <1>2 DEF Shown, CompletionsShow, MessagesShow, ResponsesShow
    <2> QED
      BY <1>2, <2>1, <2>2, <2>3
  <1>3. CASE ~Fatal(e) /\ ~(e.ok /\ e.kind \in Shown[dialect])
    BY <1>3 DEF Becomes
  <1> QED
    BY <1>1, <1>2, <1>3

\* Text and the finish reason that parse come out as they are, in every dialect, and
\* nothing else comes out as one of them.
LEMMA ProseShown ==
  ASSUME NEW e \in Things, tool \in 0 .. MaxEvents,
         dialect \in {"completions", "messages", "responses"}
  PROVE  /\ e \in LegibleProse => Becomes(e) = <<e>>
         /\ e \notin LegibleProse => \A c \in Things : Becomes(e) = <<c>> => c \notin LegibleProse
  <1>1. CASE e \in LegibleProse
    <2>1. e.kind \in {"text", "finish"} /\ e.ok
      BY <1>1, Members DEF Prose
    <2>2. ~Fatal(e) /\ e.kind \in Shown[dialect]
      BY <2>1 DEF Fatal, Shown, CompletionsShow, MessagesShow, ResponsesShow
    <2>3. Chunk(e) = e
      BY <2>1, ChunkType
    <2> QED
      BY <1>1, <2>1, <2>2, <2>3 DEF Becomes
  <1>2. ASSUME e \notin LegibleProse, NEW c \in Things, Becomes(e) = <<c>>
        PROVE  c \notin LegibleProse
    <2>1. c.kind = "error" \/ (e.ok /\ c = Chunk(e))
      BY <1>2, BecomesType
    <2>2. Chunk(e).kind = e.kind
      BY ChunkType
    <2>3. e.ok => e.kind \notin Prose
      BY <1>2, Members
    <2> QED
      BY <2>1, <2>2, <2>3, Members DEF Prose
  <1> QED
    BY <1>1, <1>2

\* The same for tool calls and their arguments, in the Responses dialect.
LEMMA AskedShown ==
  ASSUME NEW e \in Things, tool \in 0 .. MaxEvents, dialect = "responses"
  PROVE  /\ e \in Asked => Becomes(e) = <<Chunk(e)>> /\ Chunk(e) \in Asked
         /\ e \notin Asked => \A c \in Things : Becomes(e) = <<c>> => c \notin Asked
  <1>0. Chunk(e) \in Things /\ Chunk(e).kind = e.kind /\ Chunk(e).ok
    BY ChunkType
  <1>1. CASE e \in Asked
    <2>1. e.kind \in {"start", "args"} /\ e.ok
      BY <1>1, Members
    <2>2. ~Fatal(e) /\ e.kind \in Shown[dialect]
      BY <2>1 DEF Fatal, Shown, ResponsesShow
    <2> QED
      BY <1>0, <1>1, <2>1, <2>2, Members DEF Becomes
  <1>2. ASSUME e \notin Asked, NEW c \in Things, Becomes(e) = <<c>>
        PROVE  c \notin Asked
    <2>1. c.kind = "error" \/ (e.ok /\ c = Chunk(e))
      BY <1>2, BecomesType
    <2>2. e.ok => e.kind \notin {"start", "args"}
      BY <1>2, Members
    <2> QED
      BY <1>0, <2>1, <2>2, Members
  <1> QED
    BY <1>1, <1>2

\* OnlyAppend, in the form that a state needs.
LEMMA OneMore ==
  ASSUME NEW set, NEW c \in Things
  PROVE  \A s \in Seq(Things) :
           /\ c \in set => Only(set, Append(s, c)) = Append(Only(set, s), c)
           /\ c \notin set => Only(set, Append(s, c)) = Only(set, s)
  <1> TAKE s \in Seq(Things)
  <1>1. c \in set => Only(set, Append(s, c)) = Append(Only(set, s), c)
    BY OnlyAppend
  <1>2. c \notin set => Only(set, Append(s, c)) = Only(set, s)
    BY OnlyAppend
  <1> QED
    BY <1>1, <1>2

\* Nothing moves, but for a chunk on its way.
LEMMA SameRead ==
  ASSUME NEW k, Read(k), Honest,
         UNCHANGED <<sent, wire, eof, dialect, tool, last, Chunks>>
  PROVE  Read(k)' /\ Honest'
  BY DEF Read, Honest, Clean, Whole, Over, Booking, Has

LEMMA ChunkAdded ==
  ASSUME Shapes, out = <<>>, UNCHANGED <<got, chan>>, NEW c \in Things, out' = <<c>>
  PROVE  /\ Chunks' = Append(Chunks, c)
         /\ Has("error", Chunks)' <=> Has("error", Chunks) \/ c.kind = "error"
  <1>1. Chunks' = Append(Chunks, c)
    BY DEF Shapes, Chunks
  <1>2. /\ Chunks \in Seq(Things) /\ Len(Append(Chunks, c)) = Len(Chunks) + 1
        /\ DOMAIN Chunks = 1 .. Len(Chunks)
        /\ DOMAIN Append(Chunks, c) = 1 .. Len(Chunks) + 1
        /\ \A i \in 1 .. Len(Chunks) : Append(Chunks, c)[i] = Chunks[i]
        /\ Append(Chunks, c)[Len(Chunks) + 1] = c
    BY ChunksType
  <1>3. Len(Chunks) \in Nat
    BY <1>2
  <1> QED
    BY <1>1, <1>2, <1>3 DEF Has

\* What InTurn says of an event about a tool call, behind those that came before.
Turn(calls, e) ==
  IF e.kind = "start" THEN calls = <<>> \/ Last(calls).kind = "argsdone"
  ELSE /\ calls # <<>> /\ Last(calls).kind # "argsdone"
       /\ Last(calls).id = e.id

LEMMA TurnAt ==
  ASSUME NEW seq \in Seq(Things), InTurn(seq), NEW k \in Nat, k + 1 \in 1 .. Len(seq),
         seq[k + 1] \in Called
  PROVE  Turn(UpTo(Called, seq)[k], seq[k + 1])
  <1> DEFINE u == UpTo(Called, seq)
             e == seq[k + 1]
             n == Len(seq)
             c == u[k]
  <1>1. /\ n \in Nat /\ n \in 0 .. n /\ k \in 0 .. n /\ k + 1 \in 0 .. n
        /\ n \in k + 1 .. n
    OBVIOUS
  <1>2. c \in Seq(Things) /\ u[k + 1] \in Seq(Things) /\ u[n] \in Seq(Things)
    BY <1>1, UpToType
  <1>3. u[k + 1] = Append(c, e)
    <2>1. IsUpTo(UpTo(Called, seq), Called, seq)
      BY UpToStep
    <2> QED
      BY <1>1, <2>1 DEF IsUpTo
  <1>4. u[k + 1] = SubSeq(u[n], 1, Len(u[k + 1])) /\ Len(u[k + 1]) <= Len(u[n])
    BY <1>1, UpToGrows
  <1>5. \A i \in DOMAIN u[n] :
          IF u[n][i].kind = "start" THEN i = 1 \/ u[n][i - 1].kind = "argsdone"
          ELSE i > 1 /\ u[n][i - 1].kind # "argsdone" /\ u[n][i - 1].id = u[n][i].id
    BY DEF InTurn, Only, Called
  <1>6. e \in Things
    OBVIOUS
  <1> DEFINE w == u[n]
             m == Len(c)
  <1>7. /\ w \in Seq(Things) /\ Append(c, e) = SubSeq(w, 1, Len(Append(c, e)))
        /\ Len(Append(c, e)) <= Len(w)
    BY <1>2, <1>3, <1>4
  <1>8. \A i \in DOMAIN w :
          IF w[i].kind = "start" THEN i = 1 \/ w[i - 1].kind = "argsdone"
          ELSE i > 1 /\ w[i - 1].kind # "argsdone" /\ w[i - 1].id = w[i].id
    BY <1>5
  <1> HIDE DEF u, e, n, c, w
  <1>9. /\ m \in Nat /\ m + 1 \in DOMAIN w /\ w[m + 1] = e
        /\ c = <<>> <=> m = 0
        /\ m > 0 => w[m] = c[m]
    <2>1. Len(Append(c, e)) = m + 1 /\ Append(c, e)[m + 1] = e /\ m \in Nat
          /\ \A i \in 1 .. m : Append(c, e)[i] = c[i]
      BY <1>2, <1>6
    <2>2. \A i \in 1 .. m + 1 : SubSeq(w, 1, m + 1)[i] = w[i]
      BY <1>7, <2>1
    <2> QED
      BY <1>2, <1>7, <2>1, <2>2
  <1>10. m > 0 => Last(c) = w[m] /\ (m + 1) - 1 = m
    BY <1>9 DEF Last
  <1> HIDE DEF m
  <1>11. Turn(c, e)
    <2>1. IF e.kind = "start" THEN m + 1 = 1 \/ w[(m + 1) - 1].kind = "argsdone"
          ELSE m + 1 > 1 /\ w[(m + 1) - 1].kind # "argsdone" /\ w[(m + 1) - 1].id = e.id
      BY <1>8, <1>9
    <2>2. CASE m = 0
      BY <1>9, <2>1, <2>2 DEF Turn
    <2>3. CASE m > 0
      <3>1. (m + 1) - 1 = m /\ Last(c) = w[m] /\ m + 1 # 1 /\ c # <<>>
        BY <1>9, <1>10, <2>3
      <3> QED
        BY <2>1, <3>1, Zenon DEF Turn
    <2> QED
      BY <1>9, <2>2, <2>3
  <1> QED
    BY <1>11 DEF c, u, e

LEMMA TurnBefore ==
  ASSUME NEW seq \in Seq(Things), NEW e \in Things, InTurn(Append(seq, e))
  PROVE  InTurn(seq)
  <1> DEFINE c == Only(Called, seq)
             d == Only(Called, Append(seq, e))
  <1>1. c \in Seq(Things)
    BY UpToType DEF Only
  <1>2. d = c \/ d = Append(c, e)
    BY OneMore
  <1>3. \A i \in DOMAIN d :
          IF d[i].kind = "start" THEN i = 1 \/ d[i - 1].kind = "argsdone"
          ELSE i > 1 /\ d[i - 1].kind # "argsdone" /\ d[i - 1].id = d[i].id
    BY DEF InTurn, Called
  <1> HIDE DEF c, d
  <1>4. \A i \in DOMAIN c : i \in DOMAIN d /\ d[i] = c[i] /\ (i > 1 => d[i - 1] = c[i - 1])
    BY <1>1, <1>2
  <1>5. \A i \in DOMAIN c : i \in Nat /\ i >= 1
    BY <1>1
  <1>6. \A i \in DOMAIN c :
          IF c[i].kind = "start" THEN i = 1 \/ c[i - 1].kind = "argsdone"
          ELSE i > 1 /\ c[i - 1].kind # "argsdone" /\ c[i - 1].id = c[i].id
    BY <1>3, <1>4, <1>5
  <1> QED
    BY <1>6 DEF InTurn, Called, c

\* currentToolCallID is what it should be, as long as calls come one after another.
LEMMA TrackFollows ==
  ASSUME NEW calls \in Seq(Things), NEW e \in Things, NEW events,
         tool = Current(calls, events), e \in Called => Turn(calls, e),
         e.kind = "start" => events[e.id] = e
  PROVE  /\ e \in Called => Track(e) = Current(Append(calls, e), events)
         /\ e \notin Called => Track(e) = tool
         /\ e.kind = "args" => tool = IF events[e.id].ok THEN e.id ELSE 0
  <1>0. Append(calls, e) # <<>> /\ Last(Append(calls, e)) = e
    BY DEF Last
  <1>1. CASE e.kind = "start"
    <2>1. tool = 0 /\ e \in Called
      BY <1>1, Members DEF Turn, Current, CallKinds
    <2> QED
      BY <1>0, <1>1, <2>1 DEF Track, Current
  <1>2. CASE e.kind = "args"
    <2>1. /\ calls # <<>> /\ Last(calls).kind # "argsdone" /\ Last(calls).id = e.id
          /\ e \in Called
      BY <1>2, Members DEF Turn, CallKinds
    <2> QED
      BY <1>0, <1>2, <2>1 DEF Track, Current
  <1>3. CASE e.kind = "argsdone"
    <2>1. e \in Called
      BY <1>3, Members DEF CallKinds
    <2> QED
      BY <1>0, <1>3, <2>1 DEF Track, Current
  <1>4. CASE e.kind \notin {"start", "args", "argsdone"}
    <2>1. e \notin Called
      BY <1>4, Members DEF CallKinds
    <2> QED
      BY <1>4, <2>1 DEF Track
  <1> QED
    BY <1>1, <1>2, <1>3, <1>4

\* An event becomes nothing, or one more chunk.
LEMMA ChunksBecome ==
  ASSUME Shapes, out = <<>>, UNCHANGED <<got, chan>>, NEW e \in Things,
         dialect \in {"completions", "messages", "responses"}, out' = Becomes(e)
  PROVE  /\ Becomes(e) = <<>> => Chunks' = Chunks
         /\ \A c \in Things : Becomes(e) = <<c>> => Chunks' = Append(Chunks, c)
         /\ Has("error", Chunks)' <=> Has("error", Chunks) \/ Fatal(e)
         /\ out' \in Seq(Things) /\ Len(out') <= 1
  <1>t. tool \in 0 .. MaxEvents
    BY DEF Shapes
  <1>1. CASE Becomes(e) = <<>> /\ ~Fatal(e)
    <2>1. Chunks' = Chunks
      BY <1>1 DEF Chunks
    <2>2. \A c : <<c>> # <<>>
      OBVIOUS
    <2> QED
      BY <1>1, <2>1, <2>2 DEF Has
  <1>2. ASSUME NEW c \in Things, Becomes(e) = <<c>>, Fatal(e) <=> c.kind = "error"
        PROVE  /\ Chunks' = Append(Chunks, c)
               /\ Has("error", Chunks)' <=> Has("error", Chunks) \/ Fatal(e)
               /\ out' \in Seq(Things) /\ Len(out') <= 1
    <2>1. out' = <<c>>
      BY <1>2
    <2>2. Chunks' = Append(Chunks, c)
          /\ (Has("error", Chunks)' <=> Has("error", Chunks) \/ c.kind = "error")
      BY <2>1, ChunkAdded
    <2>3. out' \in Seq(Things) /\ Len(out') <= 1
      BY <2>1
    <2> QED
      BY <1>2, <2>2, <2>3
  <1>3. \A c, d : <<c>> # <<>> /\ (<<c>> = <<d>> => c = d)
    OBVIOUS
  <1>4. CASE \E c \in Things : Becomes(e) = <<c>> /\ (Fatal(e) <=> c.kind = "error")
    <2>1. PICK c \in Things : Becomes(e) = <<c>> /\ (Fatal(e) <=> c.kind = "error")
      BY <1>4
    <2>2. /\ Chunks' = Append(Chunks, c)
          /\ Has("error", Chunks)' <=> Has("error", Chunks) \/ Fatal(e)
          /\ out' \in Seq(Things) /\ Len(out') <= 1
      BY <1>2, <2>1
    <2> QED
      BY <1>3, <2>1, <2>2
  <1> QED
    BY <1>t, <1>1, <1>4, BecomesType

\* An event adds nothing to what has come out of a set, when neither it nor what it
\* becomes belongs there.
LEMMA ReadElse ==
  ASSUME Shapes, NEW set, NEW e \in Things, tool \in 0 .. MaxEvents,
         dialect \in {"completions", "messages", "responses"},
         out = <<>>, UNCHANGED <<got, chan>>, out' = Becomes(e),
         \A c \in Things : Becomes(e) = <<c>> => c \notin set
  PROVE  Only(set, Chunks') = Only(set, Chunks)
  <1>1. CASE Becomes(e) = <<>>
    BY <1>1, ChunksBecome
  <1>2. ASSUME NEW c \in Things, Becomes(e) = <<c>>
        PROVE  Only(set, Chunks') = Only(set, Chunks)
    <2>1. Chunks' = Append(Chunks, c) /\ c \notin set /\ Chunks \in Seq(Things)
      BY <1>2, ChunksBecome, ChunksType
    <2> QED
      BY <1>2, <2>1, OneMore
  <1> QED
    BY <1>1, <1>2, BecomesType

\* An event leaves the wire.
LEMMA EventRead ==
  ASSUME CInv, Shapes, Rounds, Honest, NEW k \in 0 .. Len(sent), Read(k), Scan
  PROVE  k + 1 \in 0 .. Len(sent) /\ Read(k + 1)'
  <1> DEFINE e == Head(wire)
  <1>1. /\ wire \in Seq(Things) /\ wire # <<>> /\ e = wire[1] /\ Len(wire) \in Nat \ {0}
        /\ Tail(wire) \in Seq(Things) /\ Len(Tail(wire)) = Len(wire) - 1
        /\ \A i \in 1 .. Len(Tail(wire)) : Tail(wire)[i] = wire[i + 1]
    BY DEF Scan, Shapes
  <1>2. /\ k \in Nat /\ k + 1 \in 1 .. Len(sent) /\ sent[k + 1] = e /\ e \in Things
        /\ Len(sent) \in Nat /\ k + 1 \in 0 .. Len(sent) /\ sent \in Seq(Things)
    BY <1>1 DEF Read, Shapes
  <1>3. /\ UNCHANGED <<sent, eof, dialect, got, chan>> /\ wire' = Tail(wire)
        /\ out = <<>> /\ ~last /\ ~Has("error", Chunks)
        /\ out' = Becomes(e) /\ last' = Ends(e)
        /\ tool' = (IF dialect = "responses" THEN Track(e) ELSE tool)
    BY DEF Scan, call, Rounds
  <1>t. /\ tool \in 0 .. MaxEvents /\ dialect \in {"completions", "messages", "responses"}
        /\ Chunks \in Seq(Things)
    BY ChunksType DEF Shapes, CInv, CallType
  <1> HIDE DEF e
  <1>4. Has("error", Chunks)' <=> Fatal(e)
    BY <1>2, <1>3, <1>t, ChunksBecome
  <1>5. Only(LegibleProse, Chunks') = UpTo(LegibleProse, sent)[k + 1]
    <2>1. Only(LegibleProse, Chunks) = UpTo(LegibleProse, sent)[k]
      BY DEF Read
    <2>2. UpTo(LegibleProse, sent)[k + 1] = IF e \in LegibleProse
                                            THEN Append(UpTo(LegibleProse, sent)[k], e)
                                            ELSE UpTo(LegibleProse, sent)[k]
      <3>1. IsUpTo(UpTo(LegibleProse, sent), LegibleProse, sent)
        BY UpToStep
      <3> QED
        BY <1>2, <3>1 DEF IsUpTo
    <2>3. CASE e \in LegibleProse
      <3>1. Becomes(e) = <<e>>
        BY <1>2, <1>t, <2>3, ProseShown
      <3>2. Chunks' = Append(Chunks, e)
        BY <1>2, <1>3, <1>t, <3>1, ChunksBecome
      <3>3. Only(LegibleProse, Append(Chunks, e)) = Append(Only(LegibleProse, Chunks), e)
        BY <1>2, <1>t, <2>3, OneMore
      <3> QED
        BY <2>1, <2>2, <2>3, <3>2, <3>3
    <2>4. CASE e \notin LegibleProse
      <3>1. \A c \in Things : Becomes(e) = <<c>> => c \notin LegibleProse
        BY <1>2, <1>t, <2>4, ProseShown
      <3>2. Only(LegibleProse, Chunks') = Only(LegibleProse, Chunks)
        BY <1>2, <1>3, <1>t, <3>1, ReadElse
      <3> QED
        BY <2>1, <2>2, <2>4, <3>2
    <2> QED
      BY <2>3, <2>4
  <1>6. Clean(k + 1)'
    <2> SUFFICES ASSUME dialect # "responses", ~Fatal(e)
                 PROVE  \A i \in 1 .. k + 1 : sent[i].ok \/ sent[i].kind = "end"
      BY <1>3, <1>4 DEF Clean
    <2>1. \A i \in 1 .. k : sent[i].ok \/ sent[i].kind = "end"
      BY <1>3 DEF Read, Clean
    <2>2. sent[k + 1].ok \/ sent[k + 1].kind = "end"
      BY <1>2 DEF Fatal
    <2> QED
      BY <1>2, <2>1, <2>2
  <1>7. Whole(k + 1)'
    <2> SUFFICES ASSUME Ends(e), ~Fatal(e)
                 PROVE  Over /\ \A i \in (k + 1) + 1 .. Len(sent) : sent[i].kind = "end"
      BY <1>2, <1>3, <1>4 DEF Whole, Over, Has
    <2>1. e.kind \in {"finish", "end"}
      BY DEF Ends
    <2>2. Over
      BY <1>2, <2>1 DEF Over, Has
    <2>3. \A i \in (k + 1) + 1 .. Len(sent) : sent[i].kind = "end"
      BY <1>2, <2>1 DEF Honest
    <2> QED
      BY <1>2, <2>2, <2>3
  <1>8. ASSUME dialect = "responses", InTurn(sent) PROVE Booking(k + 1)'
    <2> DEFINE calls == UpTo(Called, sent)[k]
               real  == UpTo(Asked, sent)[k]
               told  == Only(Asked, Chunks)
    <2>1. /\ tool = Current(calls, sent) /\ Len(told) = Len(real)
          /\ \A i \in 1 .. Len(real) : told[i] = Booked(real[i], sent)
      BY <1>8 DEF Read, Booking
    <2>2. calls \in Seq(Things) /\ real \in Seq(Things) /\ told \in Seq(Things)
      <3>1. UpTo(Called, sent)[k] \in Seq(Things)
        BY <1>2, UpToType
      <3>2. UpTo(Asked, sent)[k] \in Seq(Things)
        BY <1>2, UpToType
      <3>3. Only(Asked, Chunks) \in Seq(Things)
        BY <1>t, UpToType DEF Only
      <3> QED
        BY <3>1, <3>2, <3>3
    <2>3. e \in Called => Turn(calls, e)
      BY <1>2, <1>8, TurnAt
    <2>4. e.kind = "start" => sent[e.id] = e
      BY <1>2 DEF Honest
    <2>5. UpTo(Called, sent)[k + 1] = IF e \in Called THEN Append(calls, e) ELSE calls
      <3>1. IsUpTo(UpTo(Called, sent), Called, sent)
        BY UpToStep
      <3> QED
        BY <1>2, <3>1 DEF IsUpTo
    <2>6. UpTo(Asked, sent)[k + 1] = IF e \in Asked THEN Append(real, e) ELSE real
      <3>1. IsUpTo(UpTo(Asked, sent), Asked, sent)
        BY UpToStep
      <3> QED
        BY <1>2, <3>1 DEF IsUpTo
    <2>7. Only(Asked, Chunks') = IF e \in Asked THEN Append(told, Chunk(e)) ELSE told
      <3>1. CASE e \in Asked
        <4> DEFINE c == Chunk(e)
        <4>1. c \in Things /\ c \in Asked /\ Becomes(e) = <<c>>
          BY <1>2, <1>8, <1>t, <3>1, AskedShown, ChunkType
        <4> HIDE DEF c
        <4>2. Chunks' = Append(Chunks, c)
          BY <1>2, <1>3, <1>t, <4>1, ChunksBecome
        <4> QED
          BY <1>t, <3>1, <4>1, <4>2, OneMore DEF c
      <3>2. CASE e \notin Asked
        BY <1>2, <1>3, <1>8, <1>t, <3>2, AskedShown, ReadElse
      <3> QED
        BY <3>1, <3>2
    <2> HIDE DEF calls, real, told
    <2>8. tool' = Current(UpTo(Called, sent)[k + 1], sent)
      BY <1>2, <1>3, <1>8, <2>1, <2>2, <2>3, <2>4, <2>5, TrackFollows
    <2>9. e \in Asked => Chunk(e) = Booked(e, sent)
      <3> SUFFICES ASSUME e \in Asked PROVE Chunk(e) = Booked(e, sent)
        OBVIOUS
      <3>1. e.ok /\ e.kind \in {"start", "args"} /\ e = NewChunk(e.kind, e.id)
        BY <1>2, Members, ThingParts
      <3>2. CASE e.kind = "start"
        BY <1>2, <1>t, <3>1, <3>2, ChunkType DEF Booked
      <3>3. CASE e.kind = "args"
        <4>1. tool = IF sent[e.id].ok THEN e.id ELSE 0
          BY <1>2, <2>1, <2>2, <2>3, <2>4, <3>3, TrackFollows
        <4>2. Chunk(e) = NewChunk("args", tool)
          BY <1>8, <3>3 DEF Chunk
        <4> QED
          BY <3>1, <3>3, <4>1, <4>2 DEF Booked
      <3> QED
        BY <3>1, <3>2, <3>3
    <2> DEFINE c == Chunk(e)
               real2 == UpTo(Asked, sent)[k + 1]
               told2 == Only(Asked, Chunks')
    <2>10. /\ Len(told2) = Len(real2)
           /\ \A i \in 1 .. Len(real2) : told2[i] = Booked(real2[i], sent)
      <3>1. CASE e \in Asked
        <4>1. real2 = Append(real, e) /\ told2 = Append(told, c) /\ c = Booked(e, sent)
          BY <2>6, <2>7, <2>9, <3>1
        <4>2. c \in Things
          BY <1>2, <1>t, ChunkType
        <4> HIDE DEF c, real2, told2
        <4>3. /\ Len(real2) = Len(real) + 1 /\ Len(told2) = Len(told) + 1
              /\ real2[Len(real) + 1] = e /\ told2[Len(told) + 1] = c
              /\ \A i \in 1 .. Len(real) : real2[i] = real[i]
              /\ \A i \in 1 .. Len(told) : told2[i] = told[i]
              /\ Len(real) \in Nat
          BY <1>2, <2>2, <4>1, <4>2
        <4>4. ASSUME NEW i \in 1 .. Len(real2) PROVE told2[i] = Booked(real2[i], sent)
          <5>1. CASE i \in 1 .. Len(real)
            BY <2>1, <4>3, <5>1
          <5>2. CASE i = Len(real) + 1
            BY <2>1, <4>1, <4>3, <5>2
          <5> QED
            BY <4>3, <5>1, <5>2
        <4> QED
          BY <2>1, <4>3, <4>4
      <3>2. CASE e \notin Asked
        BY <2>1, <2>6, <2>7, <3>2
      <3> QED
        BY <3>1, <3>2
    <2> HIDE DEF c, real2, told2
    <2> QED
      BY <1>3, <2>8, <2>10 DEF Booking, real2, told2
  <1>9. /\ (k + 1) + Len(wire') <= Len(sent')
        /\ \A i \in 1 .. Len(wire') : wire'[i] = sent'[(k + 1) + i]
        /\ eof' # "cut" => (k + 1) + Len(wire') = Len(sent')
    <2>1. ASSUME NEW i \in 1 .. Len(wire') PROVE wire'[i] = sent[(k + 1) + i]
      <3>1. i + 1 \in 1 .. Len(wire) /\ k + (i + 1) = (k + 1) + i /\ wire'[i] = wire[i + 1]
        BY <1>1, <1>2, <1>3
      <3> QED
        BY <3>1 DEF Read
    <2> QED
      BY <1>1, <1>2, <1>3, <2>1 DEF Read
  <1>10. Read(k + 1)'
    BY <1>3, <1>5, <1>6, <1>7, <1>8, <1>9 DEF Read
  <1> QED
    BY <1>2, <1>10

\* The server sends an event.
LEMMA EventSent ==
  ASSUME CInv, Shapes, Honest, NEW k \in 0 .. Len(sent), Read(k),
         NEW kind \in Kinds, NEW ok \in BOOLEAN, Emit(kind, ok)
  PROVE  /\ \E e \in Things : e.kind = kind /\ e.ok = ok /\ sent' = Append(sent, e)
         /\ sent' \in Seq(Things) /\ wire' \in Seq(Things)
         /\ Honest' /\ k \in 0 .. Len(sent') /\ Read(k)'
  <1> DEFINE n == Len(sent)
  <1>1. /\ sent \in Seq(Things) /\ wire \in Seq(Things) /\ n \in Nat /\ Len(wire) \in Nat
        /\ k \in Nat /\ k <= n /\ n < MaxEvents
    BY DEF Shapes, Emit
  <1>2. PICK id \in Ids(kind) :
          LET e == [kind |-> kind, id |-> id, ok |-> ok]
          IN sent' = Append(sent, e) /\ wire' = Append(wire, e)
    BY DEF Emit
  <1> DEFINE e == [kind |-> kind, id |-> id, ok |-> ok]
  <1>3. /\ sent' = Append(sent, e) /\ wire' = Append(wire, e)
        /\ eof = "open" /\ UNCHANGED <<eof, dialect, tool, last, got, chan, out>>
        /\ Has("finish", sent) => kind = "end"
        /\ ~Has("end", sent)
    BY <1>2 DEF Emit, call
  <1>4. id \in 1 .. n + 1 /\ (kind = "start" => id = n + 1)
    BY <1>1 DEF Ids
  <1>5. e \in Things /\ e.kind = kind /\ e.id = id /\ e.ok = ok
    BY <1>1, <1>4, BoundsAssumption DEF Things
  <1> HIDE DEF e
  <1>6. /\ Len(sent') = n + 1 /\ sent'[n + 1] = e /\ \A i \in 1 .. n : sent'[i] = sent[i]
        /\ Len(wire') = Len(wire) + 1 /\ wire'[Len(wire) + 1] = e
        /\ \A i \in 1 .. Len(wire) : wire'[i] = wire[i]
        /\ sent' \in Seq(Things) /\ wire' \in Seq(Things)
    BY <1>1, <1>3, <1>5
  <1>7. ASSUME NEW set, NEW i \in 0 .. n PROVE UpTo(set, sent')[i] = UpTo(set, sent)[i]
    BY <1>1, <1>3, <1>5, OnlyAppend
  <1>8. ASSUME NEW i \in 1 .. n, sent[i].kind \in {"finish", "end"} PROVE kind = "end"
    BY <1>1, <1>3, <1>8 DEF Has
  <1>9. Honest'
    <2>1. ASSUME NEW i \in 1 .. n
          PROVE  /\ sent'[i].id \in 1 .. i /\ (sent'[i].kind = "start" => sent'[i].id = i)
                 /\ sent'[i].kind \in {"finish", "end"} =>
                      \A j \in i + 1 .. n + 1 : sent'[j].kind = "end"
      <3>1. /\ sent[i].id \in 1 .. i /\ (sent[i].kind = "start" => sent[i].id = i)
            /\ sent[i].kind \in {"finish", "end"} =>
                 \A j \in i + 1 .. n : sent[j].kind = "end"
        BY DEF Honest
      <3>2. sent[i].kind \in {"finish", "end"} => sent'[n + 1].kind = "end"
        BY <1>5, <1>6, <1>8
      <3>3. ASSUME sent'[i].kind \in {"finish", "end"}, NEW j \in i + 1 .. n + 1
            PROVE  sent'[j].kind = "end"
        <4>1. sent[i].kind \in {"finish", "end"}
          BY <1>6, <3>3
        <4>2. CASE j = n + 1
          BY <3>2, <4>1, <4>2
        <4>3. CASE j \in i + 1 .. n
          <5>1. j \in 1 .. n
            BY <1>1, <4>3
          <5> QED
            BY <1>6, <3>1, <4>1, <4>3, <5>1
        <4> QED
          BY <1>1, <4>2, <4>3
      <3> QED
        BY <1>6, <3>1, <3>3
    <2>2. /\ sent'[n + 1].id \in 1 .. n + 1
          /\ sent'[n + 1].kind = "start" => sent'[n + 1].id = n + 1
      BY <1>4, <1>5, <1>6
    <2> QED
      BY <1>1, <1>6, <2>1, <2>2 DEF Honest
  <1>10. /\ k + Len(wire') <= Len(sent')
         /\ \A i \in 1 .. Len(wire') : wire'[i] = sent'[k + i]
         /\ eof' # "cut" => k + Len(wire') = Len(sent')
    <2>1. k + Len(wire) = n
      BY <1>3 DEF Read
    <2>2. ASSUME NEW i \in 1 .. Len(wire') PROVE wire'[i] = sent'[k + i]
      <3>1. CASE i \in 1 .. Len(wire)
        <4>1. k + i \in 1 .. n
          BY <1>1, <2>1, <3>1
        <4> QED
          BY <1>6, <3>1, <4>1 DEF Read
      <3>2. CASE i = Len(wire) + 1
        BY <1>1, <1>6, <2>1, <3>2
      <3> QED
        BY <1>1, <1>6, <3>1, <3>2
    <2> QED
      BY <1>1, <1>6, <2>1, <2>2
  <1>11. Chunks' = Chunks
    BY <1>3 DEF Chunks
  <1>12. Clean(k)'
    <2>1. \A i \in 1 .. k : sent'[i] = sent[i]
      BY <1>1, <1>6
    <2> QED
      BY <1>3, <1>11, <2>1 DEF Read, Clean
  <1>13. Whole(k)'
    <2> SUFFICES ASSUME last, ~Has("error", Chunks)
                 PROVE  Over' /\ \A i \in k + 1 .. n + 1 : sent'[i].kind = "end"
      BY <1>3, <1>6, <1>11 DEF Whole
    <2>1. Over /\ \A i \in k + 1 .. n : sent[i].kind = "end"
      BY DEF Read, Whole
    <2>2. PICK i \in 1 .. n : sent[i].kind = "finish"
      BY <1>1, <1>3, <2>1 DEF Over, Has
    <2>3. i \in DOMAIN sent' /\ sent'[i].kind = "finish"
      BY <1>1, <1>6, <2>2
    <2>4. kind = "end"
      BY <1>8, <2>2
    <2>5. Over'
      BY <2>3 DEF Over, Has
    <2>6. ASSUME NEW j \in k + 1 .. n + 1 PROVE sent'[j].kind = "end"
      <3>1. CASE j = n + 1
        BY <1>5, <1>6, <2>4, <3>1
      <3>2. CASE j \in k + 1 .. n
        <4>1. j \in 1 .. n
          BY <1>1, <3>2
        <4> QED
          BY <1>6, <2>1, <3>2, <4>1
      <3> QED
        BY <1>1, <3>1, <3>2
    <2> QED
      BY <2>5, <2>6
  <1>14. ASSUME dialect = "responses", InTurn(sent') PROVE Booking(k)'
    <2> DEFINE T == {x \in Things : x.id \in 1 .. n}
               calls == UpTo(Called, sent)[k]
               real  == UpTo(Asked, sent)[k]
    <2>1. InTurn(sent)
      BY <1>1, <1>3, <1>5, <1>14, TurnBefore
    <2>2. Booking(k)
      BY <1>14, <2>1 DEF Read
    <2>3. sent \in Seq(T)
      <3>1. \A i \in 1 .. n : sent[i] \in T
        BY <1>1 DEF Honest
      <3> QED
        BY <1>1, <3>1
    <2> HIDE DEF T
    <2>4. calls \in Seq(T) /\ real \in Seq(T)
      <3>1. UpTo(Called, sent)[k] \in Seq(T)
        BY <2>3, UpToType
      <3>2. UpTo(Asked, sent)[k] \in Seq(T)
        BY <2>3, UpToType
      <3> QED
        BY <3>1, <3>2
    <2>5. UpTo(Called, sent')[k] = calls /\ UpTo(Asked, sent')[k] = real
      <3>1. k \in 0 .. n
        BY <1>1
      <3>2. UpTo(Called, sent')[k] = UpTo(Called, sent)[k]
        BY <1>7, <3>1
      <3>3. UpTo(Asked, sent')[k] = UpTo(Asked, sent)[k]
        BY <1>7, <3>1
      <3> QED
        BY <3>2, <3>3
    <2>6. /\ tool = Current(calls, sent) /\ Len(Only(Asked, Chunks)) = Len(real)
          /\ \A i \in 1 .. Len(real) : Only(Asked, Chunks)[i] = Booked(real[i], sent)
      BY <2>2 DEF Booking
    <2> HIDE DEF calls, real
    <2>7. \A x \in T : sent'[x.id] = sent[x.id]
      BY <1>6 DEF T
    <2>8. Current(calls, sent') = Current(calls, sent)
      <3>1. calls # <<>> => Last(calls) \in T
        BY <2>4 DEF Last
      <3> QED
        BY <2>7, <3>1 DEF Current
    <2>9. ASSUME NEW i \in 1 .. Len(real) PROVE Booked(real[i], sent') = Booked(real[i], sent)
      <3>1. real[i] \in T
        BY <2>4
      <3> QED
        BY <2>7, <3>1 DEF Booked
    <2> QED
      BY <1>3, <1>11, <2>5, <2>6, <2>8, <2>9 DEF Booking
  <1>15. Read(k)'
    <2>1. UpTo(LegibleProse, sent')[k] = UpTo(LegibleProse, sent)[k]
      BY <1>1, <1>7
    <2> QED
      BY <1>3, <1>10, <1>11, <1>12, <1>13, <1>14, <2>1 DEF Read
  <1> QED
    BY <1>1, <1>3, <1>5, <1>6, <1>9, <1>15

LEMMA SInvInit == Init => SInv
  <1> SUFFICES ASSUME Init PROVE SInv
    OBVIOUS
  <1> USE BoundsAssumption
  <1>1. Shapes
    <2>1. last \in BOOLEAN /\ closed \in BOOLEAN
      BY Zenon DEF Init
    <2>2. <<>> \in Seq(Things) /\ Len(<<>>) = 0
      OBVIOUS
    <2>3. /\ out \in Seq(Things) /\ chan \in Seq(Things) /\ got \in Seq(Things)
          /\ sent \in Seq(Things) /\ wire \in Seq(Things) /\ Len(out) = 0 /\ Len(chan) = 0
      BY <2>2, Zenon DEF Init
    <2>4. /\ tool \in 0 .. MaxEvents /\ reader \in {"reading", "gone", "done"}
          /\ eof \in {"open", "end", "cut"}
      BY DEF Init
    <2> QED
      BY <2>1, <2>3, <2>4 DEF Shapes
  <1>2. Chunks = <<>> /\ sent = <<>> /\ wire = <<>> /\ tool = 0
    BY DEF Init, Chunks
  <1>3. Rounds
    BY <1>2 DEF Init, Rounds, Has
  <1>4. Honest
    BY <1>2 DEF Honest
  <1>5. Read(0)
    <2>1. \A set : Only(set, <<>>) = <<>> /\ UpTo(set, <<>>)[0] = <<>>
      BY OnlyNothing DEF Only
    <2>2. Booking(0)
      <3>1. Current(<<>>, sent) = 0 /\ Len(<<>>) = 0
        BY DEF Current
      <3> QED
        BY <1>2, <2>1, <3>1 DEF Booking
    <2>3. Clean(0) /\ Whole(0)
      BY <1>2 DEF Clean, Whole, Init
    <2> QED
      BY <1>2, <2>1, <2>2, <2>3 DEF Read
  <1> QED
    BY <1>1, <1>2, <1>3, <1>4, <1>5, CInvInit DEF SInv

\* Before the stream begins.
LEMMA StreamWaits ==
  ASSUME SInv, UNCHANGED stream, dialect' = dialect,
         pc \notin {"scan", "push", "over"}, pc' # "push"
  PROVE  Shapes' /\ Rounds' /\ Honest' /\ \E k \in 0 .. Len(sent') : Read(k)'
  <1>1. Chunks' = Chunks /\ UNCHANGED <<sent, wire, eof, tool, out, last, closed>>
    BY DEF stream, Chunks
  <1>2. Shapes'
    BY DEF stream, SInv, Shapes
  <1>3. Rounds'
    BY <1>1 DEF SInv, Rounds
  <1>4. PICK k \in 0 .. Len(sent) : Read(k)
    BY DEF SInv
  <1> QED
    BY <1>1, <1>2, <1>3, <1>4, SameRead DEF SInv

\* What is in the channel and with its caller moves.
LEMMA StreamMoves ==
  ASSUME SInv, Shapes', Chunks' = Chunks,
         UNCHANGED <<sent, wire, eof, dialect, tool, last, closed>>,
         pc' # "push" => out' = <<>>, last' => pc' \in {"push", "over"},
         closed' => pc' = "over"
  PROVE  Shapes' /\ Rounds' /\ Honest' /\ \E k \in 0 .. Len(sent') : Read(k)'
  <1>1. Rounds'
    BY DEF SInv, Rounds
  <1>2. PICK k \in 0 .. Len(sent) : Read(k)
    BY DEF SInv
  <1> QED
    BY <1>1, <1>2, SameRead DEF SInv

LEMMA StreamGoes ==
  ASSUME SInv, Scan \/ ScanEnds \/ Push \/ Pushed \/ Receive \/ Leave
  PROVE  Shapes' /\ Rounds' /\ Honest' /\ \E k \in 0 .. Len(sent') : Read(k)'
  <1> USE BoundsAssumption
  <1>s. Shapes /\ Rounds /\ Honest /\ CInv
    BY DEF SInv
  <1>1. CASE Scan
    <2> DEFINE e == Head(wire)
    <2>1. /\ wire \in Seq(Things) /\ wire # <<>> /\ e \in Things /\ Tail(wire) \in Seq(Things)
          /\ tool \in 0 .. MaxEvents /\ dialect \in {"completions", "messages", "responses"}
      BY <1>1, <1>s DEF Scan, Shapes, CInv, CallType
    <2>2. Track(e) \in 0 .. MaxEvents
      BY <2>1, ThingParts DEF Track
    <2>3. out = <<>> /\ ~last /\ ~closed /\ ~Has("error", Chunks)
      BY <1>1, <1>s DEF Scan, Rounds
    <2> HIDE DEF e
    <2>4. /\ out' = Becomes(e) /\ last' = Ends(e)
          /\ tool' = (IF dialect = "responses" THEN Track(e) ELSE tool)
          /\ wire' = Tail(wire) /\ pc' = "push"
          /\ UNCHANGED <<chan, closed, reader, got, sent, eof>>
      BY <1>1 DEF Scan, e
    <2>5. /\ out' \in Seq(Things) /\ Len(out') <= 1
          /\ Has("error", Chunks)' <=> Has("error", Chunks) \/ Fatal(e)
      BY <1>s, <2>1, <2>3, <2>4, ChunksBecome
    <2>6. Shapes'
      <3>1. tool' \in 0 .. MaxEvents /\ last' \in BOOLEAN
        BY <2>1, <2>2, <2>4 DEF Ends
      <3> QED
        BY <1>s, <2>1, <2>4, <2>5, <3>1 DEF Shapes
    <2>7. Rounds'
      BY <2>3, <2>4, <2>5 DEF Rounds, Ends
    <2>8. PICK k \in 0 .. Len(sent) : Read(k)
      BY DEF SInv
    <2>9. k + 1 \in 0 .. Len(sent) /\ Read(k + 1)'
      BY <1>1, <1>s, <2>8, EventRead
    <2>10. Honest'
      BY <1>s, <2>4 DEF Honest
    <2> QED
      BY <2>4, <2>6, <2>7, <2>9, <2>10
  <1>2. CASE ScanEnds
    <2> DEFINE c == NewChunk("error", 0)
    <2>1. c \in Things /\ c.kind = "error"
      BY ThingParts DEF Kinds
    <2>2. /\ out = <<>> /\ ~last /\ ~closed
          /\ UNCHANGED <<dialect, tool, chan, closed, reader, got, sent, wire, eof>>
          /\ pc' = "push" /\ last' = TRUE /\ out' = (IF eof = "cut" THEN <<c>> ELSE <<>>)
          /\ wire = <<>> /\ eof # "open" /\ ~Has("error", Chunks)
      BY <1>2, <1>s DEF ScanEnds, call, Rounds
    <2> HIDE DEF c
    <2>3. Shapes'
      <3>1. out' \in Seq(Things) /\ Len(out') <= 1
        BY <2>1, <2>2
      <3> QED
        BY <1>s, <2>2, <3>1 DEF Shapes
    <2>4. Rounds'
      BY <2>2 DEF Rounds
    <2>5. PICK k \in 0 .. Len(sent) : Read(k)
      BY DEF SInv
    <2>6. CASE eof # "cut"
      <3>1. Chunks' = Chunks /\ (Has("error", Chunks)' <=> Has("error", Chunks))
        BY <2>2, <2>6 DEF Chunks, Has
      <3>2. k = Len(sent)
        BY <1>s, <2>2, <2>5, <2>6 DEF Read, Shapes
      <3>3. Whole(k)'
        BY <1>s, <2>2, <3>2 DEF Whole, Over, Shapes
      <3>4. Clean(k)'
        BY <2>2, <2>5, <3>1 DEF Read, Clean
      <3>5. Read(k)'
        BY <2>2, <2>5, <3>1, <3>3, <3>4 DEF Read, Booking
      <3>6. Honest'
        BY <1>s, <2>2 DEF Honest
      <3> QED
        BY <2>2, <2>3, <2>4, <2>5, <3>5, <3>6
    <2>7. CASE eof = "cut"
      <3>1. Chunks' = Append(Chunks, c) /\ Chunks \in Seq(Things)
        BY <1>s, <2>1, <2>2, <2>7, ChunkAdded, ChunksType
      <3>0. Has("error", Chunks)'
        BY <1>s, <2>1, <2>2, <2>7, ChunkAdded
      <3>2. /\ Only(LegibleProse, Append(Chunks, c)) = Only(LegibleProse, Chunks)
            /\ Only(Asked, Append(Chunks, c)) = Only(Asked, Chunks)
        <4>1. c \notin LegibleProse /\ c \notin Asked
          BY <2>1, Members DEF Prose
        <4> QED
          BY <2>1, <3>1, <4>1, OneMore
      <3>3. Read(k)'
        BY <2>2, <2>5, <3>0, <3>1, <3>2 DEF Read, Clean, Whole, Booking
      <3>4. Honest'
        BY <1>s, <2>2 DEF Honest
      <3> QED
        BY <2>2, <2>3, <2>4, <2>5, <3>3, <3>4
    <2> QED
      BY <2>6, <2>7
  <1>3. CASE Push
    <2>1. /\ chan \in Seq(Things) /\ out \in Seq(Things) /\ got \in Seq(Things)
          /\ chan' = chan \o out /\ out' = <<>> /\ got' = got
          /\ Len(chan) < Capacity /\ Len(out) <= 1
      BY <1>3, <1>s DEF Push, Shapes
    <2>2. chan' \in Seq(Things) /\ Len(chan') <= Capacity /\ out' \in Seq(Things) /\ Len(out') <= 1
      <3>1. Len(chan \o out) = Len(chan) + Len(out) /\ Len(chan) \in Nat /\ Len(out) \in Nat
        BY <2>1
      <3> QED
        BY <2>1, <3>1
    <2>3. Chunks' = Chunks
      <3>1. (got \o (chan \o out)) \o <<>> = (got \o chan) \o out
        BY <2>1
      <3> QED
        BY <2>1, <3>1 DEF Chunks
    <2>4. Shapes'
      BY <1>3, <1>s, <2>2 DEF Push, Shapes
    <2>5. UNCHANGED <<pc, sent, wire, eof, dialect, tool, last, closed>> /\ out' = <<>>
      BY <1>3 DEF Push, call
    <2> QED
      BY <1>s, <2>3, <2>4, <2>5, StreamMoves DEF Rounds
  <1>4. CASE Pushed
    <2>1. /\ UNCHANGED <<out, last, tool, chan, reader, got, sent, wire, eof, dialect>>
          /\ out = <<>> /\ ~closed /\ closed' = last
          /\ pc' = (IF last THEN "over" ELSE "scan")
      BY <1>4, <1>s DEF Pushed, Rounds
    <2>2. Shapes'
      BY <1>s, <2>1 DEF Shapes
    <2>3. Chunks' = Chunks
      BY <2>1 DEF Chunks
    <2>4. Rounds'
      BY <1>s, <2>1, <2>3 DEF Rounds
    <2>5. PICK k \in 0 .. Len(sent) : Read(k)
      BY DEF SInv
    <2> QED
      BY <1>s, <2>1, <2>2, <2>3, <2>4, <2>5, SameRead
  <1>5. CASE Receive
    <2>1. /\ chan \in Seq(Things) /\ out \in Seq(Things) /\ got \in Seq(Things)
          /\ UNCHANGED <<pc, out, last, closed, sent, wire, eof, dialect, tool>>
      BY <1>5, <1>s DEF Receive, Shapes, call
    <2>2. CASE chan # <<>> /\ got' = Append(got, Head(chan)) /\ chan' = Tail(chan)
      <3>1. /\ Head(chan) \in Things /\ Tail(chan) \in Seq(Things)
            /\ Len(Tail(chan)) = Len(chan) - 1 /\ Len(chan) \in Nat
            /\ chan = <<Head(chan)>> \o Tail(chan)
        BY <2>1, <2>2
      <3>2. got' \in Seq(Things) /\ chan' \in Seq(Things) /\ Len(chan') <= Capacity
        BY <1>s, <2>1, <2>2, <3>1 DEF Shapes
      <3>3. Shapes'
        BY <1>5, <1>s, <3>2 DEF Receive, Shapes
      <3>4. Chunks' = Chunks
        <4>1. Append(got, Head(chan)) \o Tail(chan) = got \o chan
          BY <2>1, <3>1
        <4> QED
          BY <2>1, <2>2, <4>1 DEF Chunks
      <3> QED
        BY <1>s, <2>1, <3>3, <3>4, StreamMoves DEF Rounds
    <2>3. CASE UNCHANGED <<got, chan>>
      <3>1. Shapes'
        BY <1>5, <1>s, <2>3 DEF Receive, Shapes
      <3>2. Chunks' = Chunks
        BY <2>1, <2>3 DEF Chunks
      <3> QED
        BY <1>s, <2>1, <3>1, <3>2, StreamMoves DEF Rounds
    <2> QED
      BY <1>5, <2>2, <2>3 DEF Receive
  <1>6. CASE Leave
    <2>1. UNCHANGED <<pc, out, last, tool, chan, closed, got, sent, wire, eof, dialect>>
      BY <1>6 DEF Leave, call
    <2>2. Shapes'
      BY <1>6, <1>s, <2>1 DEF Leave, Shapes
    <2>3. Chunks' = Chunks
      BY <2>1 DEF Chunks
    <2> QED
      BY <1>s, <2>1, <2>2, <2>3, StreamMoves DEF Rounds
  <1> QED
    BY <1>1, <1>2, <1>3, <1>4, <1>5, <1>6

\* The server's side.
LEMMA StreamComes ==
  ASSUME SInv, (\E kind \in Kinds, ok \in BOOLEAN : Emit(kind, ok)) \/ EndOfBody \/ Cut
  PROVE  Shapes' /\ Rounds' /\ Honest' /\ \E k \in 0 .. Len(sent') : Read(k)'
  <1>s. Shapes /\ Rounds /\ Honest /\ CInv
    BY DEF SInv
  <1>k. PICK k \in 0 .. Len(sent) : Read(k)
    BY DEF SInv
  <1>1. UNCHANGED <<pc, dialect, out, last, tool, chan, closed, reader, got>>
    BY DEF Emit, EndOfBody, Cut, call
  <1>2. Chunks' = Chunks
    BY <1>1 DEF Chunks
  <1>3. Rounds'
    BY <1>s, <1>1, <1>2 DEF Rounds
  <1>4. ASSUME NEW kind \in Kinds, NEW ok \in BOOLEAN, Emit(kind, ok)
        PROVE  Shapes' /\ Honest' /\ \E j \in 0 .. Len(sent') : Read(j)'
    <2>1. sent' \in Seq(Things) /\ wire' \in Seq(Things) /\ Honest'
          /\ k \in 0 .. Len(sent') /\ Read(k)'
      BY <1>4, <1>k, <1>s, EventSent
    <2>2. Shapes'
      BY <1>4, <1>s, <1>1, <2>1 DEF Shapes, Emit
    <2> QED
      BY <2>1, <2>2
  <1>5. CASE EndOfBody
    <2>1. UNCHANGED <<sent, wire>> /\ eof = "open" /\ eof' = "end"
      BY <1>5 DEF EndOfBody
    <2>2. Shapes'
      BY <1>s, <1>1, <2>1 DEF Shapes
    <2>3. Honest'
      BY <1>s, <2>1 DEF Honest
    <2>4. Read(k)'
      BY <1>k, <1>1, <1>2, <2>1 DEF Read, Clean, Whole, Over, Booking, Has
    <2> QED
      BY <1>3, <1>k, <2>1, <2>2, <2>3, <2>4
  <1>6. CASE Cut
    <2>1. PICK n \in 0 .. Len(wire) : wire' = SubSeq(wire, 1, n)
      BY <1>6 DEF Cut
    <2>2. sent' = sent /\ eof = "open" /\ eof' = "cut"
      BY <1>6 DEF Cut
    <2>3. /\ wire' \in Seq(Things) /\ Len(wire') = n /\ n <= Len(wire) /\ Len(wire) \in Nat
          /\ n \in Nat /\ \A i \in 1 .. n : wire'[i] = wire[i]
      BY <1>s, <2>1 DEF Shapes
    <2>4. Shapes'
      BY <1>s, <1>1, <2>2, <2>3 DEF Shapes
    <2>5. Honest'
      BY <1>s, <2>2 DEF Honest
    <2>6. /\ k + Len(wire') <= Len(sent') /\ \A i \in 1 .. Len(wire') : wire'[i] = sent'[k + i]
      <3>1. k \in Nat /\ Len(sent) \in Nat
        BY <1>s DEF Shapes
      <3>2. k + Len(wire) <= Len(sent) /\ \A i \in 1 .. Len(wire) : wire[i] = sent[k + i]
        BY <1>k DEF Read
      <3>3. ASSUME NEW i \in 1 .. n PROVE wire'[i] = sent[k + i]
        <4>1. n \in Nat /\ Len(wire) \in Nat /\ n <= Len(wire) /\ wire'[i] = wire[i]
          BY <2>3
        <4>2. i \in 1 .. Len(wire)
          BY <4>1
        <4> QED
          BY <3>2, <4>1, <4>2
      <3>4. Len(wire') = n /\ n \in Nat /\ Len(wire) \in Nat /\ n <= Len(wire)
        BY <2>3
      <3>5. k + Len(wire') <= Len(sent')
        BY <2>2, <3>1, <3>2, <3>4
      <3> QED
        BY <2>2, <3>3, <3>4, <3>5
    <2>7. Read(k)'
      BY <1>k, <1>1, <1>2, <2>2, <2>6 DEF Read, Clean, Whole, Over, Booking, Has
    <2> QED
      BY <1>3, <1>k, <2>2, <2>4, <2>5, <2>7
  <1> QED
    BY <1>3, <1>4, <1>5, <1>6

LEMMA SInvNext == SInv /\ [Next]_vars => SInv'
  <1> SUFFICES ASSUME SInv, [Next]_vars
               PROVE  Shapes' /\ Rounds' /\ Honest' /\ \E k \in 0 .. Len(sent') : Read(k)'
    BY CInvNext DEF SInv
  <1>1. CASE SendFails \/ Answered \/ Decode \/ Refused \/ Retry \/ Cancelled
    <2>1. /\ UNCHANGED stream /\ dialect' = dialect
          /\ pc \notin {"scan", "push", "over"} /\ pc' # "push"
      BY <1>1 DEF SendFails, Answered, Decode, Refused, Retry, Cancelled, Fails, Sentinel
    <2> QED
      BY <2>1, StreamWaits
  <1>2. CASE Scan \/ ScanEnds \/ Push \/ Pushed \/ Receive \/ Leave
    BY <1>2, StreamGoes
  <1>3. CASE (\E kind \in Kinds, ok \in BOOLEAN : Emit(kind, ok)) \/ EndOfBody \/ Cut
    BY <1>3, StreamComes
  <1>4. CASE UNCHANGED vars
    <2>1. Shapes'
      BY <1>4 DEF SInv, vars, stream, Shapes
    <2>2. /\ UNCHANGED <<pc, out, sent, wire, eof, dialect, tool, last, closed>>
          /\ Chunks' = Chunks
      BY <1>4 DEF vars, stream, call, Chunks
    <2> QED
      BY <2>1, <2>2, StreamMoves DEF SInv, Rounds
  <1> QED
    BY <1>1, <1>2, <1>3, <1>4 DEF Next, Do, Client

LEMMA SInvAlways == Spec => []SInv
  BY SInvInit, SInvNext, PTL DEF Spec

\* Type correctness, with the bounds on the requests and on the channel.
THEOREM Typing == Spec => []TypeOK
  <1>1. SInv => TypeOK
    BY BoundsAssumption DEF SInv, CInv, CallType, Owed, Shapes, TypeOK
  <1> QED
    BY <1>1, SInvAlways, PTL

\* In the Responses dialect, when the server sends its tool calls one after another,
\* arguments that have come out carry the id of their own tool call, or none when the
\* event that added it did not parse, for streams of any length, wherever they break and
\* however slowly they are read (openairesponses 248-288).
THEOREM ArgsAreBooked == Spec => []ArgsFindTheirCall
  <1>1. ASSUME SInv PROVE ArgsFindTheirCall
    <2> DEFINE told == Only(Asked, Chunks)
               real == Only(Asked, sent)
    <2> SUFFICES ASSUME dialect = "responses", InTurn(sent)
                 PROVE  Len(told) <= Len(real)
                        /\ \A i \in DOMAIN told : told[i] = Booked(real[i], sent)
      BY DEF ArgsFindTheirCall, Asked
    <2>1. PICK k \in 0 .. Len(sent) : Read(k)
      BY <1>1 DEF SInv
    <2> DEFINE first == UpTo(Asked, sent)[k]
    <2>2. sent \in Seq(Things) /\ Chunks \in Seq(Things) /\ Len(sent) \in k .. Len(sent)
      BY <1>1, ChunksType DEF SInv, Shapes
    <2>3. first = SubSeq(real, 1, Len(first)) /\ Len(first) <= Len(real)
      BY <2>2, UpToGrows DEF Only
    <2>4. first \in Seq(Things) /\ real \in Seq(Things)
      <3>1. first \in Seq(Things)
        BY <2>2, UpToType
      <3>2. real \in Seq(Things)
        BY <2>2, UpToType DEF Only
      <3> QED
        BY <3>1, <3>2
    <2>5. told \in Seq(Things)
      <3>1. Len(Chunks) \in 0 .. Len(Chunks)
        BY <2>2
      <3> QED
        BY <2>2, <3>1, UpToType DEF Only
    <2>6. Len(told) = Len(first) /\ \A i \in 1 .. Len(first) : told[i] = Booked(first[i], sent)
      BY <2>1 DEF Read, Booking
    <2> HIDE DEF told, real, first
    <2>7. \A i \in 1 .. Len(first) : SubSeq(real, 1, Len(first))[i] = real[i]
      BY <2>3, <2>4
    <2>8. \A i \in 1 .. Len(first) : first[i] = real[i]
      BY <2>3, <2>7
    <2>9. DOMAIN told = 1 .. Len(first)
      BY <2>5, <2>6
    <2> QED
      BY <2>3, <2>6, <2>8, <2>9
  <1> QED
    BY <1>1, SInvAlways, PTL

\* The state of ChunkStream that a state of Completion stands for.
State   == IF closed THEN "closed" ELSE IF Has("error", Chunks) THEN "failed" ELSE "open"
Due     == IF dialect = "responses" THEN LegibleProse ELSE Pieces
Written == Only(Due, sent)
Passed  == Only(LegibleProse, Chunks)
Lenient == dialect = "responses"

StreamNext == Stream!Write \/ Stream!Give \/ Stream!Fail \/ Stream!Close

LEMMA SameDialect ==
  ASSUME [Next]_vars
  PROVE  dialect' = dialect /\ Due' = Due /\ Lenient' = Lenient
  <1>1. dialect' = dialect
    BY DEF Next, Do, Client, vars, call, SendFails, Answered, Decode, Refused, Retry,
           Cancelled, Emit, EndOfBody, Cut, Scan, ScanEnds, Push, Pushed, Receive, Leave
  <1> QED
    BY <1>1 DEF Due, Lenient, LegibleProse, Legible, Pieces

LEMMA DueMembers ==
  \A e \in Things : /\ e \in LegibleProse => e \in Due
                    /\ e \in Due => e.kind \in Prose /\ (e.ok => e \in LegibleProse)
                    /\ e.kind \in Prose /\ e \notin Due => dialect = "responses"
  BY Members DEF Due

\* What has been given is what was due among the events that were read.
LEMMA PassedRead ==
  ASSUME SInv, NEW k \in 0 .. Len(sent), Read(k), ~Has("error", Chunks)
  PROVE  Passed = UpTo(Due, sent)[k]
  <1>1. sent \in Seq(Things) /\ k \in Nat /\ Len(sent) \in Nat /\ k \in 0 .. k
    BY DEF SInv, Shapes
  <1>2. Passed = UpTo(LegibleProse, sent)[k]
    BY DEF Read, Passed
  <1>3. CASE dialect = "responses"
    BY <1>2, <1>3 DEF Due
  <1>4. CASE dialect # "responses"
    <2>1. ASSUME NEW i \in 1 .. k PROVE sent[i] \in LegibleProse <=> sent[i] \in Due
      <3>1. sent[i] \in Things
        BY <1>1
      <3>2. sent[i].ok \/ sent[i].kind = "end"
        BY <1>4 DEF Read, Clean
      <3> QED
        BY <3>1, <3>2, DueMembers DEF Prose
    <2>2. UpTo(LegibleProse, sent)[k] = UpTo(Due, sent)[k]
      <3>1. \A i \in 1 .. k : /\ sent[i] = sent[i]
                              /\ sent[i] \in LegibleProse <=> sent[i] \in Due
        BY <2>1
      <3>2. \A n \in 0 .. k : UpTo(LegibleProse, sent)[n] = UpTo(Due, sent)[n]
        BY <1>1, <3>1, UpToSame
      <3> QED
        BY <1>1, <3>2
    <2> QED
      BY <1>2, <2>2
  <1> QED
    BY <1>3, <1>4

\* What has been given is the beginning of what is due.
LEMMA PassedFirst ==
  ASSUME SInv, NEW k \in 0 .. Len(sent), Read(k), k + 1 \in 0 .. Len(sent),
         ~Has("error", Chunks), sent[k + 1] \in LegibleProse
  PROVE  Len(Passed) < Len(Written) /\ Written[Len(Passed) + 1] = sent[k + 1]
  <1>1. /\ sent \in Seq(Things) /\ Len(sent) \in Nat /\ k \in Nat
        /\ Len(sent) \in k + 1 .. Len(sent) /\ sent[k + 1] \in Things
    BY DEF SInv, Shapes
  <1> DEFINE u == UpTo(Due, sent)
             e == sent[k + 1]
             n == Len(sent)
  <1>2. u[k + 1] = Append(u[k], e)
    <2>1. IsUpTo(UpTo(Due, sent), Due, sent) /\ e \in Due
      BY <1>1, UpToStep, DueMembers
    <2> QED
      BY <1>1, <2>1 DEF IsUpTo
  <1>3. u[k + 1] = SubSeq(u[n], 1, Len(u[k + 1])) /\ Len(u[k + 1]) <= Len(u[n])
    BY <1>1, UpToGrows
  <1>4. u[k] \in Seq(Things) /\ u[n] \in Seq(Things) /\ u[k + 1] \in Seq(Things)
    <2>1. \A i \in 0 .. Len(sent) : UpTo(Due, sent)[i] \in Seq(Things)
      BY <1>1, UpToType
    <2>2. k \in 0 .. Len(sent) /\ n \in 0 .. Len(sent) /\ k + 1 \in 0 .. Len(sent)
      BY <1>1
    <2> QED
      BY <2>1, <2>2
  <1>5. Passed = u[k] /\ Written = u[n]
    BY PassedRead DEF Written, Only
  <1>6. e \in Things
    BY <1>1
  <1> HIDE DEF u, e, n
  <1>7. Len(u[k + 1]) = Len(u[k]) + 1 /\ u[k + 1][Len(u[k]) + 1] = e /\ Len(u[k]) \in Nat
    BY <1>2, <1>4, <1>6
  <1>8. Len(u[n]) >= Len(u[k]) + 1 /\ u[n][Len(u[k]) + 1] = e
    <2> DEFINE m == Len(u[k]) + 1
    <2>1. Len(u[n]) \in Nat /\ m \in 1 .. Len(u[n]) /\ Len(u[k + 1]) = m /\ u[k + 1][m] = e
      BY <1>3, <1>4, <1>7
    <2> HIDE DEF m
    <2>2. SubSeq(u[n], 1, m)[m] = u[n][m]
      BY <1>4, <2>1
    <2> QED
      BY <1>3, <2>1, <2>2 DEF m
  <1> QED
    BY <1>4, <1>5, <1>7, <1>8 DEF e

\* Nothing is due that has not been given, when the goroutine returns without an error.
LEMMA PassedAll ==
  ASSUME SInv, last, ~Has("error", Chunks)
  PROVE  Passed = Written
  <1>1. PICK k \in 0 .. Len(sent) : Read(k)
    BY DEF SInv
  <1>2. sent \in Seq(Things) /\ k \in Nat /\ Len(sent) \in Nat /\ Len(sent) \in k .. Len(sent)
    BY DEF SInv, Shapes
  <1>3. ASSUME NEW i \in k + 1 .. Len(sent) PROVE sent[i] \notin Due
    <2>1. sent[i].kind = "end" /\ sent[i] \in Things
      BY <1>1, <1>2 DEF Read, Whole
    <2> QED
      BY <2>1, DueMembers DEF Prose
  <1>4. UpTo(Due, sent)[Len(sent)] = UpTo(Due, sent)[k]
    BY <1>2, <1>3, UpToRest
  <1> QED
    BY <1>1, <1>4, PassedRead DEF Written, Only

\* The actions of ChunkStream, in these terms.
LEMMA Given ==
  ASSUME NEW e \in LegibleProse, State = "open", State' = "open", Lenient' = Lenient,
         Written' = Written, Len(Passed) < Len(Written), Written[Len(Passed) + 1] = e,
         Passed' = Append(Passed, e)
  PROVE  Stream!Give
  BY DEF Stream!Give, State, Lenient, Written, Due, Passed, LegibleProse

LEMMA Wrote ==
  ASSUME NEW e \in Due, State # "closed", State' = State, Lenient' = Lenient,
         Passed' = Passed, Written' = Append(Written, e)
  PROVE  Stream!Write
  BY DEF Stream!Write, State, Lenient, Written, Due, Passed, LegibleProse

LEMMA Failed ==
  ASSUME State = "open", State' = "failed", Lenient' = Lenient,
         Written' = Written, Passed' = Passed
  PROVE  Stream!Fail
  BY DEF Stream!Fail, State, Lenient, Written, Due, Passed, LegibleProse

LEMMA Closed ==
  ASSUME State # "closed", State = "open" => Passed = Written, State' = "closed",
         Lenient' = Lenient, Written' = Written, Passed' = Passed
  PROVE  Stream!Close
  <1>1. State \in {"open", "failed", "closed"}
    BY DEF State
  <1> QED
    BY <1>1 DEF Stream!Close, State, Lenient, Written, Due, Passed, LegibleProse

Mapped == <<Lenient, Written, Passed, State>>

\* A step that neither writes nor shows anything new, nor closes.
LEMMA Unseen ==
  ASSUME sent' = sent, closed' = closed, Chunks' = Chunks, Due' = Due, Lenient' = Lenient
  PROVE  UNCHANGED Mapped
  <1>1. Written' = Written
    BY DEF Written, Only, UpTo
  <1>2. Passed' = Passed
    BY DEF Passed, LegibleProse, Legible, Only, UpTo
  <1>3. State' = State
    BY DEF State, Has
  <1> QED
    BY <1>1, <1>2, <1>3 DEF Mapped

\* A round of the goroutine makes a chunk: text is given, an error fails the stream.
LEMMA ChunkGiven ==
  ASSUME SInv, UNCHANGED <<sent, closed, got, chan>>, ~closed, out = <<>>,
         Due' = Due, Lenient' = Lenient,
         ~Has("error", Chunks), NEW c \in Things, out' = <<c>>, c.ok,
         c \in LegibleProse => /\ Len(Passed) < Len(Written)
                               /\ Written[Len(Passed) + 1] = c
  PROVE  StreamNext \/ UNCHANGED Mapped
  <1>1. Chunks' = Append(Chunks, c) /\ (Has("error", Chunks)' <=> c.kind = "error")
    BY ChunkAdded DEF SInv
  <1>2. Chunks \in Seq(Things)
    BY ChunksType DEF SInv
  <1>3. Written' = Written
    BY DEF Written, Only, UpTo
  <1>4. State = "open" /\ State' = IF c.kind = "error" THEN "failed" ELSE "open"
    BY <1>1 DEF State
  <1>5. Passed' = Only(LegibleProse, Append(Chunks, c))
    BY <1>1 DEF Passed, LegibleProse, Legible, Only, UpTo
  <1>6. CASE c \in LegibleProse
    <2>1. Only(LegibleProse, Append(Chunks, c)) = Append(Only(LegibleProse, Chunks), c)
      BY <1>2, <1>6, OneMore
    <2>2. Passed' = Append(Passed, c)
      BY <1>5, <2>1 DEF Passed
    <2>3. State' = "open"
      BY <1>4, <1>6, Members DEF Prose
    <2>4. Stream!Give
      BY <1>3, <1>4, <1>6, <2>2, <2>3, Given
    <2> QED
      BY <2>4 DEF StreamNext
  <1>7. CASE c \notin LegibleProse
    <2>1. Only(LegibleProse, Append(Chunks, c)) = Only(LegibleProse, Chunks)
      BY <1>2, <1>7, OneMore
    <2>2. Passed' = Passed
      BY <1>5, <2>1 DEF Passed
    <2>3. c.kind = "error" => Stream!Fail
      BY <1>3, <1>4, <2>2, Failed
    <2>4. c.kind # "error" => UNCHANGED Mapped
      BY <1>3, <1>4, <2>2 DEF Mapped
    <2> QED
      BY <2>3, <2>4 DEF StreamNext
  <1> QED
    BY <1>6, <1>7

LEMMA StepImplements ==
  ASSUME SInv, [Next]_vars
  PROVE  StreamNext \/ UNCHANGED Mapped
  <1>s. Shapes /\ Rounds /\ Honest /\ CInv
    BY DEF SInv
  <1>d. Due' = Due /\ Lenient' = Lenient
    BY SameDialect
  <1>1. CASE SendFails \/ Answered \/ Decode \/ Refused \/ Retry \/ Cancelled
    <2>1. UNCHANGED stream
      BY <1>1 DEF SendFails, Answered, Decode, Refused, Retry, Cancelled
    <2> QED
      BY <1>d, <2>1, Unseen DEF stream, Chunks
  <1>2. CASE EndOfBody \/ Cut \/ Leave \/ UNCHANGED vars
    <2>1. UNCHANGED <<sent, closed, got, chan, out>>
      BY <1>2 DEF EndOfBody, Cut, Leave, vars, stream
    <2> QED
      BY <1>d, <2>1, Unseen DEF Chunks
  <1>3. ASSUME NEW kind \in Kinds, NEW ok \in BOOLEAN, Emit(kind, ok)
        PROVE  StreamNext \/ UNCHANGED Mapped
    <2>1. PICK k \in 0 .. Len(sent) : Read(k)
      BY DEF SInv
    <2>2. PICK e \in Things : sent' = Append(sent, e)
      BY <1>3, <1>s, <2>1, EventSent
    <2>3. UNCHANGED <<closed, Chunks>> /\ sent \in Seq(Things) /\ ~closed
      BY <1>3, <1>s DEF Emit, Streaming, Rounds, Chunks, Shapes
    <2>4. Passed' = Passed /\ State' = State /\ State # "closed"
      BY <2>3 DEF Passed, LegibleProse, Legible, State, Only, UpTo, Has
    <2>5. Written' = Only(Due, Append(sent, e))
      <3>1. Written' = Only(Due', sent')
        BY DEF Written, Only, UpTo
      <3> QED
        BY <1>d, <2>2, <3>1
    <2>6. CASE e \in Due
      <3>1. Only(Due, Append(sent, e)) = Append(Only(Due, sent), e)
        BY <2>2, <2>3, <2>6, OneMore
      <3>2. Written' = Append(Written, e)
        BY <2>5, <3>1 DEF Written
      <3>3. Stream!Write
        BY <1>d, <2>4, <2>6, <3>2, Wrote
      <3> QED
        BY <3>3 DEF StreamNext
    <2>7. CASE e \notin Due
      <3>1. Only(Due, Append(sent, e)) = Only(Due, sent)
        BY <2>2, <2>3, <2>7, OneMore
      <3>2. Written' = Written
        BY <2>5, <3>1 DEF Written
      <3> QED
        BY <1>d, <2>4, <3>2 DEF Mapped
    <2> QED
      BY <2>6, <2>7
  <1>4. CASE Scan
    <2> DEFINE e == Head(wire)
    <2>1. /\ wire \in Seq(Things) /\ wire # <<>> /\ e \in Things /\ e = wire[1]
          /\ tool \in 0 .. MaxEvents /\ dialect \in {"completions", "messages", "responses"}
      BY <1>4, <1>s DEF Scan, Shapes, CInv, CallType
    <2>2. /\ out = <<>> /\ ~last /\ ~closed /\ ~Has("error", Chunks)
          /\ UNCHANGED <<sent, closed, got, chan>>
          /\ out' = Becomes(e)
      BY <1>4, <1>s DEF Scan, Rounds
    <2>3. PICK k \in 0 .. Len(sent) : Read(k)
      BY DEF SInv
    <2>4. k + 1 \in 0 .. Len(sent) /\ sent[k + 1] = e
      <3>1. k \in Nat /\ Len(sent) \in Nat /\ Len(wire) \in Nat \ {0}
        BY <1>s, <2>1 DEF Shapes
      <3>2. k + Len(wire) <= Len(sent) /\ \A i \in 1 .. Len(wire) : wire[i] = sent[k + i]
        BY <2>3 DEF Read
      <3> QED
        BY <2>1, <3>1, <3>2
    <2> HIDE DEF e
    <2>5. ASSUME NEW c \in Things, Becomes(e) = <<c>>, c.ok
          PROVE  StreamNext \/ UNCHANGED Mapped
      <3>1. c \in LegibleProse => e \in LegibleProse /\ c = e
        <4>1. e \notin LegibleProse => c \notin LegibleProse
          BY <2>1, <2>5, ProseShown
        <4>2. e \in LegibleProse => <<c>> = <<e>>
          BY <2>1, <2>5, ProseShown
        <4>3. <<c>> = <<e>> => c = e
          OBVIOUS
        <4> QED
          BY <4>1, <4>2, <4>3
      <3>2. c \in LegibleProse => /\ Len(Passed) < Len(Written)
                                  /\ Written[Len(Passed) + 1] = c
        BY <2>2, <2>3, <2>4, <3>1, PassedFirst
      <3>3. out' = <<c>>
        BY <2>2, <2>5
      <3> QED
        BY <1>d, <2>2, <2>5, <3>2, <3>3, ChunkGiven
    <2>6. CASE Becomes(e) = <<>>
      BY <1>d, <2>2, <2>6, Unseen DEF Chunks
    <2> QED
      BY <2>1, <2>5, <2>6, BecomesType
  <1>5. CASE ScanEnds
    <2> DEFINE c == NewChunk("error", 0)
    <2>1. c \in Things /\ c.ok /\ c \notin LegibleProse
      <3>1. c \in Things /\ c.ok /\ c.kind = "error"
        BY ThingParts, BoundsAssumption DEF Kinds
      <3> QED
        BY <3>1, Members DEF Prose
    <2>2. /\ out = <<>> /\ ~last /\ ~closed /\ ~Has("error", Chunks)
          /\ UNCHANGED <<sent, closed, got, chan>>
          /\ out' = IF eof = "cut" THEN <<c>> ELSE <<>>
      BY <1>5, <1>s DEF ScanEnds, Rounds
    <2> HIDE DEF c
    <2>3. CASE eof = "cut"
      BY <1>d, <2>1, <2>2, <2>3, ChunkGiven
    <2>4. CASE eof # "cut"
      BY <1>d, <2>2, <2>4, Unseen DEF Chunks
    <2> QED
      BY <2>3, <2>4
  <1>6. CASE Push
    <2>1. /\ chan \in Seq(Things) /\ out \in Seq(Things) /\ got \in Seq(Things)
          /\ chan' = chan \o out /\ out' = <<>> /\ got' = got /\ UNCHANGED <<sent, closed>>
      BY <1>6, <1>s DEF Push, Shapes
    <2>2. (got \o (chan \o out)) \o <<>> = (got \o chan) \o out
      BY <2>1
    <2> QED
      BY <1>d, <2>1, <2>2, Unseen DEF Chunks
  <1>7. CASE Pushed
    <2>1. UNCHANGED <<out, chan, got, sent>> /\ ~closed /\ closed' = last
      BY <1>7, <1>s DEF Pushed, Rounds
    <2>2. Chunks' = Chunks
      BY <2>1 DEF Chunks
    <2>3. CASE last
      <3>1. State # "closed" /\ State' = "closed"
        BY <2>1, <2>3 DEF State
      <3>2. Written' = Written /\ Passed' = Passed
        BY <1>d, <2>1, <2>2 DEF Written, Passed, LegibleProse, Legible, Only, UpTo
      <3>3. State = "open" => Passed = Written
        BY <2>3, PassedAll DEF State
      <3> QED
        BY <1>d, <3>1, <3>2, <3>3, Closed DEF StreamNext
    <2>4. CASE ~last
      <3>1. closed' = closed
        BY <1>s, <2>1, <2>4 DEF Shapes
      <3> QED
        BY <1>d, <2>1, <2>2, <3>1, Unseen
    <2> QED
      BY <2>3, <2>4
  <1>8. CASE Receive
    <2>1. /\ chan \in Seq(Things) /\ out \in Seq(Things) /\ got \in Seq(Things)
          /\ UNCHANGED <<out, closed, sent>>
      BY <1>8, <1>s DEF Receive, Shapes
    <2>2. CASE chan # <<>> /\ got' = Append(got, Head(chan)) /\ chan' = Tail(chan)
      <3>1. /\ Head(chan) \in Things /\ Tail(chan) \in Seq(Things)
            /\ chan = <<Head(chan)>> \o Tail(chan)
        BY <2>1, <2>2
      <3>2. Append(got, Head(chan)) \o Tail(chan) = got \o chan
        BY <2>1, <3>1
      <3> QED
        BY <1>d, <2>1, <2>2, <3>2, Unseen DEF Chunks
    <2>3. CASE UNCHANGED <<got, chan>>
      <3>1. Chunks' = Chunks
        BY <2>1, <2>3 DEF Chunks
      <3> QED
        BY <1>d, <2>1, <3>1, Unseen
    <2> QED
      BY <1>8, <2>2, <2>3 DEF Receive
  <1> QED
    BY <1>1, <1>2, <1>3, <1>4, <1>5, <1>6, <1>7, <1>8 DEF Next, Do, Client

\* Every call of ChatStream is a stream of ChunkStream: what its caller is given is what
\* the model writes, in order, nothing comes behind an error, and a stream that closes
\* without one has given every piece, or in the Responses dialect every piece that
\* parses, for any channel and any number of events (openai 293-346,
\* anthropic 264-335, openairesponses 222-350).
THEOREM Implementation == Spec => ImplementsStream
  <1>1. Init => Stream!Init
    <2> SUFFICES ASSUME Init PROVE Stream!Init
      OBVIOUS
    <2>1. sent = <<>> /\ Chunks = <<>> /\ ~closed /\ ~Has("error", Chunks)
      BY DEF Init, Chunks, Has
    <2>2. \A set : Only(set, <<>>) = <<>>
      BY OnlyNothing
    <2> QED
      BY <2>1, <2>2 DEF Stream!Init
  <1>2. SInv /\ [Next]_vars => StreamNext \/ UNCHANGED Mapped
    BY StepImplements
  <1> QED
    BY <1>1, <1>2, SInvAlways, PTL
    DEF Spec, ImplementsStream, Stream!Spec, StreamNext, Mapped, Written, Due, Passed, State,
        Lenient, LegibleProse

(***************************************************************************)
(* Joining sequences.                                                      *)
(***************************************************************************)
\* g is the function that FlattenSeq defines, on 1 .. m.
Joined(seqs, g, n) == IF n = 1 THEN seqs[n] ELSE g[n - 1] \o seqs[n]

IsJoined(seqs, m, g) == g = [n \in 1 .. m |-> Joined(seqs, g, n)]

LEMMA JoinedAt ==
  ASSUME NEW seqs, NEW m, NEW g, IsJoined(seqs, m, g), NEW n \in 1 .. m
  PROVE  g[n] = Joined(seqs, g, n)
  BY Zenon DEF IsJoined

LEMMA JoinedExists ==
  ASSUME NEW seqs
  PROVE  \A m \in Nat : \E g : IsJoined(seqs, m, g)
  <1> DEFINE S == {m \in Nat : \E g : IsJoined(seqs, m, g)}
  <1>1. 0 \in S
    <2> DEFINE h == [n \in 1 .. 0 |-> <<>>]
    <2>1. h = [n \in 1 .. 0 |-> Joined(seqs, h, n)]
      OBVIOUS
    <2> HIDE DEF h
    <2>2. IsJoined(seqs, 0, h)
      BY <2>1 DEF IsJoined
    <2> QED
      BY <2>2
  <1>2. ASSUME NEW m \in Nat, m \in S PROVE m + 1 \in S
    <2>1. PICK g : IsJoined(seqs, m, g)
      BY <1>2
    <2> DEFINE h == [n \in 1 .. m + 1 |-> Joined(seqs, g, n)]
    <2>2. ASSUME NEW n \in 1 .. m PROVE h[n] = g[n]
      BY <2>1 DEF IsJoined
    <2>3. ASSUME NEW n \in 1 .. m + 1 PROVE h[n] = Joined(seqs, h, n)
      <3>1. CASE n = 1
        BY <3>1 DEF Joined
      <3>2. CASE n # 1
        <4>1. n - 1 \in 1 .. m
          BY <3>2
        <4>2. h[n - 1] = g[n - 1]
          BY <4>1, <2>2
        <4>3. h[n] = Joined(seqs, g, n)
          OBVIOUS
        <4> HIDE DEF h
        <4> QED
          BY <4>2, <4>3 DEF Joined
      <3> QED
        BY <3>1, <3>2
    <2>4. IsJoined(seqs, m + 1, h)
      <3>1. h = [n \in 1 .. m + 1 |-> h[n]]
        OBVIOUS
      <3> HIDE DEF h
      <3> QED
        BY <2>3, <3>1 DEF IsJoined
    <2> QED
      BY <2>4
  <1> HIDE DEF S
  <1>3. \A m \in Nat : m \in S
    BY <1>1, <1>2, Induction
  <1> QED
    BY <1>3 DEF S

\* What FlattenSeq yields is the last value of such a function.
LEMMA FlattenDef ==
  ASSUME NEW seqs, Len(seqs) \in Nat, Len(seqs) # 0
  PROVE  \E g : IsJoined(seqs, Len(seqs), g) /\ FlattenSeq(seqs) = g[Len(seqs)]
  <1> DEFINE F == CHOOSE g : g = [n \in 1 .. Len(seqs) |->
                                    IF n = 1 THEN seqs[n] ELSE g[n - 1] \o seqs[n]]
  <1>1. F = [n \in 1 .. Len(seqs) |-> IF n = 1 THEN seqs[n] ELSE F[n - 1] \o seqs[n]]
    <2>1. \E g : g = [n \in 1 .. Len(seqs) |->
                        IF n = 1 THEN seqs[n] ELSE g[n - 1] \o seqs[n]]
      BY JoinedExists DEF IsJoined, Joined
    <2> QED
      BY <2>1, Zenon
  <1>2. FlattenSeq(seqs) = F[Len(seqs)]
    BY DEF FlattenSeq
  <1> HIDE DEF F
  <1>3. IsJoined(seqs, Len(seqs), F)
    BY <1>1, Zenon DEF IsJoined, Joined
  <1> QED
    BY <1>2, <1>3

\* Two such functions agree as far as their sequences do.
LEMMA JoinedSame ==
  ASSUME NEW s, NEW t, NEW m \in Nat, NEW l \in Nat, NEW g, NEW h, m <= l,
         IsJoined(s, m, g), IsJoined(t, l, h), \A i \in 1 .. m : s[i] = t[i]
  PROVE  \A n \in 1 .. m : g[n] = h[n]
  <1> DEFINE S == {n \in Nat : n \in 1 .. m => g[n] = h[n]}
  <1>1. 0 \in S
    OBVIOUS
  <1>2. ASSUME NEW n \in Nat, n \in S PROVE n + 1 \in S
    <2> SUFFICES ASSUME n + 1 \in 1 .. m PROVE g[n + 1] = h[n + 1]
      OBVIOUS
    <2>0. n + 1 \in 1 .. l
      OBVIOUS
    <2>1. /\ g[n + 1] = Joined(s, g, n + 1) /\ h[n + 1] = Joined(t, h, n + 1)
          /\ s[n + 1] = t[n + 1] /\ (n + 1) - 1 = n
      BY <2>0, JoinedAt
    <2>2. CASE n = 0
      BY <2>1, <2>2 DEF Joined
    <2>3. CASE n # 0
      <3>1. n \in 1 .. m
        BY <2>3
      <3>2. g[n] = h[n]
        BY <1>2, <3>1
      <3>3. n + 1 # 1
        BY <2>3
      <3> QED
        BY <2>1, <3>2, <3>3 DEF Joined
    <2> QED
      BY <2>2, <2>3
  <1> HIDE DEF S
  <1>3. \A n \in Nat : n \in S
    BY <1>1, <1>2, Induction
  <1> QED
    BY <1>3 DEF S

LEMMA JoinNothing == FlattenSeq(<<>>) = <<>>
  BY DEF FlattenSeq

LEMMA JoinAppend ==
  ASSUME NEW T, NEW seqs \in Seq(Seq(T)), NEW x \in Seq(T)
  PROVE  FlattenSeq(Append(seqs, x)) = FlattenSeq(seqs) \o x
  <1> DEFINE n == Len(seqs)
             more == Append(seqs, x)
  <1>1. n \in Nat /\ Len(more) = n + 1 /\ n + 1 # 0 /\ more[n + 1] = x
        /\ \A i \in 1 .. n : more[i] = seqs[i]
    OBVIOUS
  <1> HIDE DEF more
  <1>2. PICK h : IsJoined(more, n + 1, h) /\ FlattenSeq(more) = h[n + 1]
    BY <1>1, FlattenDef
  <1>3. h[n + 1] = Joined(more, h, n + 1)
    <2>1. n + 1 \in 1 .. n + 1
      BY <1>1
    <2> QED
      BY <1>2, <2>1, JoinedAt
  <1>4. CASE n = 0
    <2>1. seqs = <<>>
      BY <1>4
    <2>2. FlattenSeq(seqs) = <<>>
      BY <2>1, JoinNothing
    <2>3. h[n + 1] = x
      BY <1>1, <1>3, <1>4 DEF Joined
    <2> QED
      BY <1>2, <2>2, <2>3 DEF more
  <1>5. CASE n # 0
    <2>1. PICK g : IsJoined(seqs, n, g) /\ FlattenSeq(seqs) = g[n]
      BY <1>1, <1>5, FlattenDef
    <2>2. n <= n + 1 /\ n + 1 \in Nat /\ n \in 1 .. n
      BY <1>1, <1>5
    <2>3. g[n] = h[n]
      <3> HIDE DEF n
      <3> QED
        BY <1>1, <1>2, <2>1, <2>2, JoinedSame
    <2>4. h[n + 1] = h[n] \o x
      <3>1. n + 1 # 1 /\ (n + 1) - 1 = n
        BY <1>1, <1>5
      <3> QED
        BY <1>1, <1>3, <3>1 DEF Joined
    <2> QED
      BY <1>2, <2>1, <2>3, <2>4 DEF more
  <1> QED
    BY <1>4, <1>5

\* What holds of nothing, and of what is joined when one more is, holds of the whole:
\* P[k] is what the first k, joined, may be.
LEMMA JoinInduction ==
  ASSUME NEW T, NEW seqs \in Seq(Seq(T)), NEW P, <<>> \in P[0],
         \A k \in Nat, s \in Seq(T) :
           s \in P[k] /\ k < Len(seqs) => s \o seqs[k + 1] \in P[k + 1]
  PROVE  FlattenSeq(seqs) \in P[Len(seqs)] /\ FlattenSeq(seqs) \in Seq(T)
  <1> DEFINE n == Len(seqs)
  <1>1. n \in Nat
    OBVIOUS
  <1>2. CASE n = 0
    <2>1. seqs = <<>>
      BY <1>2
    <2>2. FlattenSeq(seqs) = <<>> /\ <<>> \in Seq(T)
      BY <2>1, JoinNothing
    <2> QED
      BY <1>2, <2>2, Zenon
  <1>3. CASE n # 0
    <2>1. PICK g : IsJoined(seqs, n, g) /\ FlattenSeq(seqs) = g[n]
      BY <1>1, <1>3, FlattenDef
    <2> DEFINE R == {k \in Nat : k \in 1 .. n => g[k] \in P[k] /\ g[k] \in Seq(T)}
    <2>2. 0 \in R
      OBVIOUS
    <2>3. ASSUME NEW k \in Nat, k \in R PROVE k + 1 \in R
      <3> SUFFICES ASSUME k + 1 \in 1 .. n
                   PROVE  g[k + 1] \in P[k + 1] /\ g[k + 1] \in Seq(T)
        OBVIOUS
      <3>1. g[k + 1] = Joined(seqs, g, k + 1) /\ (k + 1) - 1 = k
        BY <2>1, JoinedAt
      <3>2. k < Len(seqs) /\ seqs[k + 1] \in Seq(T)
        OBVIOUS
      <3>3. CASE k = 0
        <4>1. g[k + 1] = seqs[k + 1] /\ seqs[k + 1] = <<>> \o seqs[k + 1]
          BY <3>1, <3>2, <3>3 DEF Joined
        <4>2. <<>> \in Seq(T) /\ <<>> \in P[k]
          BY <3>3
        <4>3. <<>> \o seqs[k + 1] \in P[k + 1]
          BY <3>2, <4>2
        <4> QED
          BY <3>2, <4>1, <4>3, Zenon
      <3>4. CASE k # 0
        <4>1. k \in 1 .. n /\ k + 1 # 1
          BY <3>4
        <4>2. g[k + 1] = g[k] \o seqs[k + 1]
          BY <3>1, <4>1 DEF Joined
        <4>3. g[k] \in P[k] /\ g[k] \in Seq(T)
          BY <2>3, <4>1
        <4>4. g[k] \o seqs[k + 1] \in Seq(T)
          BY <3>2, <4>3
        <4> QED
          BY <3>2, <4>2, <4>3, <4>4
      <3> QED
        BY <3>3, <3>4
    <2> HIDE DEF R
    <2>4. \A k \in Nat : k \in R
      BY <2>2, <2>3, Induction
    <2>5. n \in R /\ n \in 1 .. n
      BY <1>1, <1>3, <2>4
    <2> QED
      BY <2>1, <2>5 DEF R
  <1> QED
    BY <1>2, <1>3

LEMMA JoinType ==
  ASSUME NEW T, NEW seqs \in Seq(Seq(T))
  PROVE  FlattenSeq(seqs) \in Seq(T)
  <1> DEFINE P == [k \in Nat |-> Seq(T)]
  <1>1. <<>> \in P[0]
    BY EmptySeq
  <1>2. ASSUME NEW k \in Nat, NEW s \in Seq(T), s \in P[k], k < Len(seqs)
        PROVE  s \o seqs[k + 1] \in P[k + 1]
    <2>1. seqs[k + 1] \in Seq(T)
      BY <1>2
    <2>2. s \o seqs[k + 1] \in Seq(T)
      BY <2>1, ConcatProperties
    <2>3. P[k + 1] = Seq(T)
      OBVIOUS
    <2> QED
      BY <2>2, <2>3, Zenon
  <1> HIDE DEF P
  <1> QED
    BY <1>1, <1>2, JoinInduction

LEMMA JoinOne ==
  ASSUME NEW T, NEW s \in Seq(T)
  PROVE  FlattenSeq(<<s>>) = s
  <1>1. <<>> \in Seq(Seq(T)) /\ <<s>> = Append(<<>>, s) /\ <<>> \o s = s
    OBVIOUS
  <1> QED
    BY <1>1, JoinAppend, JoinNothing

LEMMA JoinConcat ==
  ASSUME NEW T, NEW s \in Seq(Seq(T)), NEW t \in Seq(Seq(T))
  PROVE  FlattenSeq(s \o t) = FlattenSeq(s) \o FlattenSeq(t)
  <1> DEFINE j == FlattenSeq(s)
             f(k) == FlattenSeq(s \o SubSeq(t, 1, k))
             P == [k \in Nat |-> {u \in Seq(T) : f(k) = j \o u}]
  <1>0. j \in Seq(T)
    BY JoinType
  <1> HIDE DEF j
  <1>1. <<>> \in P[0]
    <2>1. SubSeq(t, 1, 0) = <<>> /\ <<>> \in Seq(T)
      BY SubSeqEmpty, EmptySeq
    <2>2. s \o <<>> = s /\ j \o <<>> = j
      BY <1>0, ConcatEmptySeq
    <2> QED
      BY <2>1, <2>2 DEF j
  <1>2. ASSUME NEW k \in Nat, NEW u \in Seq(T), u \in P[k], k < Len(t)
        PROVE  u \o t[k + 1] \in P[k + 1]
    <2> DEFINE x == t[k + 1]
               first == SubSeq(t, 1, k)
    <2>1. x \in Seq(T) /\ k + 1 \in 1 .. Len(t) /\ 1 \in 1 .. Len(t) /\ (k + 1) - 1 = k
      BY <1>2
    <2>2. first \in Seq(Seq(T))
      BY <1>2
    <2>3. SubSeq(t, 1, k + 1) = first \o <<x>>
      BY <2>1, SubSeqRecursiveSecond
    <2>4. s \o SubSeq(t, 1, k + 1) = Append(s \o first, x) /\ s \o first \in Seq(Seq(T))
      <3>1. <<x>> \in Seq(Seq(T))
        BY <2>1
      <3> HIDE DEF first, x
      <3>2. s \o (first \o <<x>>) = (s \o first) \o <<x>>
        BY <2>2, <3>1, ConcatAssociative
      <3>3. s \o first \in Seq(Seq(T))
        BY <2>2, ConcatProperties, Zenon
      <3>4. Append(s \o first, x) = (s \o first) \o <<x>>
        BY <2>1, <3>3, AppendIsConcat, Zenon
      <3> QED
        BY <2>3, <3>2, <3>3, <3>4
    <2>5. f(k + 1) = f(k) \o x
      <3> HIDE DEF P, x
      <3>1. FlattenSeq(Append(s \o first, x)) = FlattenSeq(s \o first) \o x
        BY <2>1, <2>4, JoinAppend
      <3> QED
        BY <2>4, <3>1
    <2>6. f(k) = j \o u
      BY <1>2
    <2> HIDE DEF f, x
    <2>7. (j \o u) \o x = j \o (u \o x)
      <3>1. \A a, b, c \in Seq(T) : (a \o b) \o c = a \o (b \o c)
        OBVIOUS
      <3> QED
        BY <1>0, <2>1, <3>1, Zenon
    <2>8. u \o x \in Seq(T)
      BY <2>1, ConcatProperties, Zenon
    <2>9. f(k + 1) = j \o (u \o x) /\ k + 1 \in Nat
      BY <2>5, <2>6, <2>7
    <2> QED
      BY <2>8, <2>9 DEF x
  <1>3. FlattenSeq(t) \in P[Len(t)]
    <2> HIDE DEF P
    <2> QED
      BY <1>1, <1>2, JoinInduction
  <1>4. SubSeq(t, 1, Len(t)) = t /\ Len(t) \in Nat
    BY SubSeqFull
  <1> QED
    BY <1>3, <1>4 DEF j

(***************************************************************************)
(* The things that the items of a request contain.                         *)
(***************************************************************************)
Items == [kind : {"user", "system", "tool", "assistant", "call"}, things : Seq(Nat)]

Parts(items) == [i \in DOMAIN items |-> items[i].things]

LEMMA PartsType ==
  ASSUME NEW items \in Seq(Items)
  PROVE  /\ Parts(items) \in Seq(Seq(Nat)) /\ Len(Parts(items)) = Len(items)
         /\ ThingsOf(items) = FlattenSeq(Parts(items))
  <1>1. DOMAIN items = 1 .. Len(items) /\ \A i \in DOMAIN items : items[i].things \in Seq(Nat)
    <2>1. DOMAIN items = 1 .. Len(items)
      BY LenProperties, Zenon
    <2>2. \A i \in DOMAIN items : items[i] \in Items
      BY <2>1, ElementOfSeq, Zenon
    <2> QED
      BY <2>1, <2>2 DEF Items
  <1>2. Parts(items) \in Seq(Seq(Nat)) /\ Len(Parts(items)) = Len(items)
    BY <1>1 DEF Parts
  <1> QED
    BY <1>2 DEF Parts, ThingsOf

LEMMA ThingsType ==
  ASSUME NEW items \in Seq(Items)
  PROVE  ThingsOf(items) \in Seq(Nat)
  <1>1. Parts(items) \in Seq(Seq(Nat)) /\ ThingsOf(items) = FlattenSeq(Parts(items))
    BY PartsType
  <1> QED
    BY <1>1, JoinType

LEMMA ThingsNothing == ThingsOf(<<>>) = <<>>
  <1>1. Parts(<<>>) = <<>>
    BY DEF Parts
  <1>2. <<>> \in Seq(Items)
    OBVIOUS
  <1> QED
    BY <1>1, <1>2, PartsType, JoinNothing

LEMMA ThingsOne ==
  ASSUME NEW item \in Items
  PROVE  ThingsOf(<<item>>) = item.things /\ <<item>> \in Seq(Items)
  <1>1. <<item>> \in Seq(Items) /\ item.things \in Seq(Nat)
    BY DEF Items
  <1>2. Parts(<<item>>) = <<item.things>>
    BY DEF Parts
  <1> QED
    BY <1>1, <1>2, PartsType, JoinOne

LEMMA ThingsConcat ==
  ASSUME NEW a \in Seq(Items), NEW b \in Seq(Items)
  PROVE  ThingsOf(a \o b) = ThingsOf(a) \o ThingsOf(b)
  <1>1. a \o b \in Seq(Items)
    OBVIOUS
  <1>2. Parts(a \o b) = Parts(a) \o Parts(b)
    <2>1. /\ Len(Parts(a)) = Len(a) /\ Len(Parts(b)) = Len(b) /\ Len(Parts(a \o b)) = Len(a \o b)
          /\ Parts(a) \in Seq(Seq(Nat)) /\ Parts(b) \in Seq(Seq(Nat))
          /\ Parts(a \o b) \in Seq(Seq(Nat))
      BY <1>1, PartsType
    <2>2. Len(Parts(a) \o Parts(b)) = Len(a \o b) /\ Parts(a) \o Parts(b) \in Seq(Seq(Nat))
      BY <2>1, ConcatProperties
    <2>3. ASSUME NEW i \in 1 .. Len(a \o b)
          PROVE  Parts(a \o b)[i] = (Parts(a) \o Parts(b))[i]
      <3>1. Parts(a \o b)[i] = (a \o b)[i].things
        BY <1>1 DEF Parts
      <3>2. CASE i <= Len(a)
        <4>1. (a \o b)[i] = a[i] /\ i \in DOMAIN a
          BY <3>2
        <4>2. (Parts(a) \o Parts(b))[i] = Parts(a)[i]
          BY <2>1, <3>2
        <4> QED
          BY <3>1, <4>1, <4>2 DEF Parts
      <3>3. CASE i > Len(a)
        <4>1. (a \o b)[i] = b[i - Len(a)] /\ i - Len(a) \in DOMAIN b
          BY <3>3
        <4>2. (Parts(a) \o Parts(b))[i] = Parts(b)[i - Len(a)]
          <5>1. i \in 1 .. Len(Parts(a)) + Len(Parts(b)) /\ ~(i <= Len(Parts(a)))
            BY <2>1, <3>3
          <5>2. \A p, q \in Seq(Seq(Nat)) : \A k \in 1 .. Len(p) + Len(q) :
                  ~(k <= Len(p)) => (p \o q)[k] = q[k - Len(p)]
            OBVIOUS
          <5>3. (Parts(a) \o Parts(b))[i] = Parts(b)[i - Len(Parts(a))]
            BY <2>1, <5>1, <5>2, Zenon
          <5> QED
            BY <2>1, <5>3, Zenon
        <4> QED
          BY <3>1, <4>1, <4>2 DEF Parts
      <3>4. i <= Len(a) \/ i > Len(a)
        <4>1. Len(a) \in Nat /\ Len(a \o b) \in Nat
          BY <1>1, LenProperties
        <4> QED
          BY <4>1
      <3> QED
        BY <3>2, <3>3, <3>4, Zenon
    <2> QED
      BY <2>1, <2>2, <2>3, SeqEqual
  <1> QED
    <2>1. Parts(a) \in Seq(Seq(Nat)) /\ Parts(b) \in Seq(Seq(Nat))
      BY PartsType
    <2>2. FlattenSeq(Parts(a) \o Parts(b))
            = FlattenSeq(Parts(a)) \o FlattenSeq(Parts(b))
      BY <2>1, JoinConcat
    <2> QED
      BY <1>1, <1>2, <2>2, PartsType

LEMMA ThingsOfCalls ==
  ASSUME NEW m, m.ToolCalls \in Seq(Nat)
  PROVE  Calls(m) \in Seq(Items) /\ ThingsOf(Calls(m)) = m.ToolCalls
  <1> DEFINE c == m.ToolCalls
             pieces == [i \in 1 .. Len(c) |-> <<c[i]>>]
             P == [k \in Nat |-> {SubSeq(c, 1, k)}]
  <1>1. DOMAIN c = 1 .. Len(c) /\ Len(c) \in Nat /\ \A i \in 1 .. Len(c) : c[i] \in Nat
    BY ElementOfSeq, LenProperties
  <1>2. Calls(m) \in Seq(Items)
    <2>1. Calls(m) = [i \in 1 .. Len(c) |-> [kind |-> "call", things |-> <<c[i]>>]]
      BY <1>1 DEF Calls, Item
    <2>2. \A i \in 1 .. Len(c) : [kind |-> "call", things |-> <<c[i]>>] \in Items
      BY <1>1 DEF Items
    <2> QED
      BY <1>1, <2>1, <2>2
  <1>3. Parts(Calls(m)) = pieces
    BY <1>1 DEF Parts, Calls, Item
  <1>4. pieces \in Seq(Seq(Nat)) /\ Len(pieces) = Len(c)
    <2>1. \A i \in 1 .. Len(c) : <<c[i]>> \in Seq(Nat)
      BY <1>1
    <2> QED
      BY <1>1, <2>1
  <1>5. <<>> \in P[0]
    BY SubSeqEmpty
  <1>6. ASSUME NEW k \in Nat, NEW s \in Seq(Nat), s \in P[k], k < Len(pieces)
        PROVE  s \o pieces[k + 1] \in P[k + 1]
    <2>1. s = SubSeq(c, 1, k) /\ k + 1 \in 1 .. Len(c) /\ 1 \in 1 .. Len(c) /\ (k + 1) - 1 = k
      BY <1>1, <1>4, <1>6
    <2>2. pieces[k + 1] = <<c[k + 1]>>
      BY <2>1
    <2>3. SubSeq(c, 1, k + 1) = SubSeq(c, 1, k) \o <<c[k + 1]>>
      BY <2>1, SubSeqRecursiveSecond
    <2>4. P[k + 1] = {SubSeq(c, 1, k + 1)}
      OBVIOUS
    <2> HIDE DEF c, pieces, P
    <2> QED
      BY <2>1, <2>2, <2>3, <2>4, Zenon
  <1>7. FlattenSeq(pieces) \in P[Len(pieces)]
    <2> HIDE DEF P, pieces, c
    <2> QED
      BY <1>4, <1>5, <1>6, JoinInduction
  <1>8. FlattenSeq(pieces) = c
    <2>1. SubSeq(c, 1, Len(c)) = c
      BY SubSeqFull
    <2> HIDE DEF pieces, c
    <2> QED
      BY <1>1, <1>4, <1>7, <2>1
  <1> HIDE DEF pieces, c
  <1> QED
    BY <1>2, <1>3, <1>8, PartsType DEF c

(***************************************************************************)
(* What the model is told.                                                 *)
(***************************************************************************)
Roles    == {"user", "system", "tool", "assistant"}
Messages == [Role : Roles, Content : Seq(Nat), ToolCalls : Seq(Nat), ToolCallID : Nat \cup {Zero}]
Sayings  == [kind : {"user", "system", "tool", "text", "call"}, of : Nat \cup {Zero}, at : Nat]

Numbers == DOMAIN said
From(i) == {n \in Numbers : said[n].at = i}

\* Of what has been said, f, s tells the things N, each once, in the order of the history.
Tells(f, s, N) ==
  /\ s \in Seq(Nat) /\ N \subseteq DOMAIN f
  /\ \A i \in 1 .. Len(s) : s[i] \in N
  /\ \A n \in N : \E i \in 1 .. Len(s) : s[i] = n
  /\ \A i, j \in 1 .. Len(s) : i < j => s[i] # s[j] /\ f[s[i]].at <= f[s[j]].at

LEMMA TellsNothing ==
  ASSUME NEW f
  PROVE  Tells(f, <<>>, {})
  <1>1. <<>> \in Seq(Nat) /\ Len(<<>>) = 0
    BY EmptySeq
  <1> QED
    BY <1>1 DEF Tells, Numbers

LEMMA TellsBoth ==
  ASSUME NEW f, NEW s, NEW M, NEW t, NEW N, Tells(f, s, M), Tells(f, t, N),
         \A m \in M, n \in N : m # n /\ f[m].at <= f[n].at
  PROVE  Tells(f, s \o t, M \cup N)
  <1> DEFINE st == s \o t
  <1>1. s \in Seq(Nat) /\ t \in Seq(Nat) /\ Len(s) \in Nat /\ Len(t) \in Nat
    BY LenProperties DEF Tells, Numbers
  <1>2. /\ st \in Seq(Nat) /\ Len(st) = Len(s) + Len(t)
        /\ \A i \in 1 .. Len(s) : st[i] = s[i]
        /\ \A i \in 1 .. Len(t) : st[Len(s) + i] = t[i]
    BY <1>1
  <1> HIDE DEF st
  <1>3. ASSUME NEW i \in 1 .. Len(st)
        PROVE  \/ i \in 1 .. Len(s) /\ st[i] = s[i]
               \/ \E k \in 1 .. Len(t) : i = Len(s) + k /\ st[i] = t[k]
    <2>1. CASE i <= Len(s)
      BY <1>1, <1>2, <2>1
    <2>2. CASE i > Len(s)
      <3>1. i - Len(s) \in 1 .. Len(t) /\ i = Len(s) + (i - Len(s))
        BY <1>1, <1>2, <2>2
      <3> QED
        BY <1>2, <3>1
    <2> QED
      BY <1>1, <1>2, <2>1, <2>2
  <1>4. \A i \in 1 .. Len(st) : st[i] \in M \cup N
    BY <1>3 DEF Tells, Numbers
  <1>5. ASSUME NEW n \in M \cup N PROVE \E i \in 1 .. Len(st) : st[i] = n
    <2>1. CASE n \in M
      <3>1. PICK i \in 1 .. Len(s) : s[i] = n
        BY <2>1 DEF Tells, Numbers
      <3>2. i \in 1 .. Len(st) /\ st[i] = n
        BY <1>1, <1>2, <3>1
      <3> QED
        BY <3>2
    <2>2. CASE n \in N
      <3>1. PICK i \in 1 .. Len(t) : t[i] = n
        BY <2>2 DEF Tells, Numbers
      <3>2. Len(s) + i \in 1 .. Len(st) /\ st[Len(s) + i] = n
        BY <1>1, <1>2, <3>1
      <3> QED
        BY <3>2
    <2> QED
      BY <2>1, <2>2
  <1>6. ASSUME NEW i \in 1 .. Len(st), NEW j \in 1 .. Len(st), i < j
        PROVE  st[i] # st[j] /\ f[st[i]].at <= f[st[j]].at
    <2>1. CASE j \in 1 .. Len(s) /\ st[j] = s[j]
      <3>1. i \in 1 .. Len(s) /\ st[i] = s[i]
        BY <1>1, <1>2, <1>6, <2>1
      <3> QED
        BY <1>6, <2>1, <3>1 DEF Tells, Numbers
    <2>2. CASE \E k \in 1 .. Len(t) : j = Len(s) + k /\ st[j] = t[k]
      <3>1. PICK k \in 1 .. Len(t) : j = Len(s) + k /\ st[j] = t[k]
        BY <2>2
      <3>2. CASE i \in 1 .. Len(s) /\ st[i] = s[i]
        <4>1. st[i] \in M /\ st[j] \in N
          BY <3>1, <3>2 DEF Tells, Numbers
        <4> QED
          BY <4>1
      <3>3. CASE \E l \in 1 .. Len(t) : i = Len(s) + l /\ st[i] = t[l]
        <4>1. PICK l \in 1 .. Len(t) : i = Len(s) + l /\ st[i] = t[l]
          BY <3>3
        <4>2. l < k
          BY <1>1, <1>6, <3>1, <4>1
        <4> QED
          BY <3>1, <4>1, <4>2 DEF Tells, Numbers
      <3> QED
        BY <1>3, <3>2, <3>3
    <2> QED
      BY <1>3, <2>1, <2>2
  <1>7. M \cup N \subseteq DOMAIN f
    BY DEF Tells, Numbers
  <1> QED
    BY <1>2, <1>4, <1>5, <1>6, <1>7 DEF Tells, st, Numbers

\* The history and what has been said: a message contains what was said in it.
Fits(i) ==
  LET m == history[i] IN
  /\ m.Role # "assistant" => m.ToolCalls = <<>> /\ m.Content # <<>>
  /\ Tells(said, m.Content \o m.ToolCalls, From(i))
  /\ \A j \in 1 .. Len(m.Content) :
       said[m.Content[j]].kind = IF m.Role = "assistant" THEN "text" ELSE m.Role
  /\ \A j \in 1 .. Len(m.ToolCalls) : said[m.ToolCalls[j]].kind = "call"

Spoken ==
  /\ history \in Seq(Messages) /\ said \in Seq(Sayings)
  /\ \A i \in 1 .. Len(history) : Fits(i)
  /\ \A n \in Numbers :
       /\ said[n].at \in 1 .. Len(history)
       /\ said[n].kind = "tool" =>
            /\ said[n].of \in Numbers /\ said[said[n].of].kind = "call"
            /\ said[said[n].of].at < said[n].at

\* A thing is what the message it is in lets it be.
LEMMA KindOf ==
  ASSUME Spoken, NEW n \in Numbers
  PROVE  LET m == history[said[n].at] IN
         /\ m \in Messages
         /\ said[n].kind = "system" <=> m.Role = "system"
         /\ said[n].kind = "call" => m.ToolCalls # <<>> /\ m.Role = "assistant"
         /\ said[n].kind = "call" <=> \E j \in 1 .. Len(m.ToolCalls) : m.ToolCalls[j] = n
  <1> DEFINE i == said[n].at
             m == history[i]
             c == m.Content
             t == m.ToolCalls
  <1>1. i \in 1 .. Len(history) /\ n \in From(i) /\ Fits(i) /\ m \in Messages
    BY DEF Spoken, From
  <1> HIDE DEF i
  <1>2. c \in Seq(Nat) /\ t \in Seq(Nat) /\ m.Role \in Roles /\ Len(c) \in Nat /\ Len(t) \in Nat
    BY <1>1, LenProperties DEF Messages
  <1>3. /\ m.Role # "assistant" => t = <<>>
        /\ \A j \in 1 .. Len(c) : said[c[j]].kind = IF m.Role = "assistant" THEN "text" ELSE m.Role
        /\ \A j \in 1 .. Len(t) : said[t[j]].kind = "call"
    BY <1>1 DEF Fits
  <1>a. \E k \in 1 .. Len(c \o t) : (c \o t)[k] = n
    BY <1>1 DEF Fits, Tells, Numbers
  <1> HIDE DEF m, c, t
  <1>b. Len(c \o t) = Len(c) + Len(t)
    BY <1>2, ConcatProperties, Zenon
  <1>4. PICK k \in 1 .. Len(c) + Len(t) : (c \o t)[k] = n
    BY <1>a, <1>b, Zenon
  <1>5. \/ \E j \in 1 .. Len(c) : c[j] = n
        \/ \E j \in 1 .. Len(t) : t[j] = n
    <2>1. CASE k <= Len(c)
      BY <1>2, <1>4, <2>1
    <2>2. CASE k > Len(c)
      <3>1. k - Len(c) \in 1 .. Len(t)
        BY <1>2, <2>2
      <3>2. (c \o t)[k] = t[k - Len(c)]
        BY <1>2, <2>2, ConcatProperties
      <3> QED
        BY <1>4, <3>1, <3>2
    <2> QED
      BY <1>2, <2>1, <2>2
  <1>6. CASE \E j \in 1 .. Len(c) : c[j] = n
    <2>1. said[n].kind = IF m.Role = "assistant" THEN "text" ELSE m.Role
      BY <1>3, <1>6
    <2>2. said[n].kind # "call"
      BY <1>2, <2>1 DEF Roles
    <2>3. ~ \E j \in 1 .. Len(t) : t[j] = n
      BY <1>3, <2>2
    <2> QED
      BY <1>1, <1>2, <2>1, <2>2, <2>3 DEF Roles, i, m, c, t
  <1>7. CASE \E j \in 1 .. Len(t) : t[j] = n
    <2>1. said[n].kind = "call"
      BY <1>3, <1>7
    <2>2. t # <<>> /\ m.Role = "assistant"
      <3>1. Len(t) # 0
        BY <1>2, <1>7
      <3>2. t # <<>>
        BY <3>1, EmptySeq
      <3> QED
        BY <1>3, <3>2
    <2> QED
      BY <1>1, <1>7, <2>1, <2>2 DEF i, m, c, t
  <1> QED
    BY <1>5, <1>6, <1>7

(***************************************************************************)
(* What buildRequest makes of the history.                                 *)
(***************************************************************************)
ItemsOf(d, prev, m) ==
  CASE d = "completions" -> CompletionsItems(m)
    [] d = "messages"    -> MessagesItems(m)
    [] d = "responses"   -> ResponsesItems(m, prev)

\* What is left out: instructions go elsewhere, and a server that chains has the calls.
Omits(d, prev, m) ==
  \/ d # "completions" /\ m.Role = "system"
  \/ d = "responses" /\ prev # Zero /\ m.ToolCalls # <<>>

LEMMA TextTells ==
  ASSUME NEW m \in Messages
  PROVE  Text(m) \in Seq(Items) /\ ThingsOf(Text(m)) = m.Content
  <1>1. CASE m.Content = <<>>
    <2>1. Text(m) = <<>> /\ <<>> \in Seq(Items)
      BY <1>1, EmptySeq DEF Text
    <2> QED
      BY <1>1, <2>1, ThingsNothing, Zenon
  <1>2. CASE m.Content # <<>>
    <2>1. Item(m.Role, m.Content) \in Items
      BY DEF Item, Items, Messages, Roles
    <2>2. Item(m.Role, m.Content).things = m.Content
      BY DEF Item
    <2> QED
      BY <1>2, <2>1, <2>2, ThingsOne DEF Text
  <1> QED
    BY <1>1, <1>2

LEMMA ItemsTell ==
  ASSUME NEW m \in Messages, m.Role # "assistant" => m.ToolCalls = <<>>,
         NEW d \in Dialects, NEW prev
  PROVE  /\ ItemsOf(d, prev, m) \in Seq(Items)
         /\ ThingsOf(ItemsOf(d, prev, m))
              = IF Omits(d, prev, m) THEN <<>> ELSE m.Content \o m.ToolCalls
  <1> DEFINE one(role) == <<Item(role, m.Content)>>
             calls == Calls(m)
             items == ItemsOf(d, prev, m)
             told  == m.Content \o m.ToolCalls
  <1>0. m.Content \in Seq(Nat) /\ m.ToolCalls \in Seq(Nat) /\ m.Role \in Roles
    BY DEF Messages
  <1>1. ASSUME NEW role \in Roles
        PROVE  one(role) \in Seq(Items) /\ ThingsOf(one(role)) = m.Content
    <2>1. Item(role, m.Content) \in Items /\ Item(role, m.Content).things = m.Content
      BY <1>0 DEF Item, Items, Roles
    <2> QED
      BY <2>1, ThingsOne
  <1>2. calls \in Seq(Items) /\ ThingsOf(calls) = m.ToolCalls
    BY <1>0, ThingsOfCalls
  <1>3. Text(m) \in Seq(Items) /\ ThingsOf(Text(m)) = m.Content
    BY TextTells
  <1>4. ASSUME NEW a \in Seq(Items), ThingsOf(a) = m.Content
        PROVE  a \o calls \in Seq(Items) /\ ThingsOf(a \o calls) = told
    <2>1. a \o calls \in Seq(Items)
      BY <1>2, ConcatProperties
    <2>2. ThingsOf(a \o calls) = ThingsOf(a) \o ThingsOf(calls)
      BY <1>2, ThingsConcat
    <2> QED
      BY <1>2, <1>4, <2>1, <2>2, Zenon
  <1>5. m.ToolCalls = <<>> => m.Content = told
    BY <1>0, ConcatEmptySeq
  <1>6. <<>> \in Seq(Items) /\ ThingsOf(<<>>) = <<>>
    BY EmptySeq, ThingsNothing
  <1> HIDE DEF one, calls, told
  <1>7. \/ Omits(d, prev, m) /\ items = <<>>
        \/ ~Omits(d, prev, m) /\ \/ \E role \in Roles : items = one(role) \o calls
                                 \/ items = Text(m) \o calls
                                 \/ m.ToolCalls = <<>> /\ \E role \in Roles : items = one(role)
    <2>1. CASE d = "completions"
      <3>1. items = one(m.Role) \o calls /\ ~Omits(d, prev, m)
        BY <2>1 DEF ItemsOf, CompletionsItems, Omits, one, calls
      <3> QED
        BY <1>0, <3>1
    <2>2. CASE d = "messages"
      <3>1. items = IF m.Role = "system" THEN <<>>
                    ELSE IF m.Role = "tool" THEN one("tool")
                    ELSE IF m.ToolCalls # <<>> THEN Text(m) \o calls ELSE one(m.Role)
        BY <2>2 DEF ItemsOf, MessagesItems, IsSystem, one, calls
      <3>2. Omits(d, prev, m) <=> m.Role = "system"
        BY <2>2 DEF Omits
      <3> QED
        BY <1>0, <3>1, <3>2 DEF Roles
    <2>3. CASE d = "responses"
      <3>1. items = IF m.Role = "assistant" /\ m.ToolCalls # <<>>
                    THEN IF prev # Zero THEN <<>> ELSE Text(m) \o calls
                    ELSE IF m.Role = "system" THEN <<>> ELSE one(m.Role)
        BY <2>3 DEF ItemsOf, ResponsesItems, one, calls
      <3>2. Omits(d, prev, m) <=> m.Role = "system" \/ (prev # Zero /\ m.ToolCalls # <<>>)
        BY <2>3 DEF Omits
      <3> QED
        BY <1>0, <3>1, <3>2 DEF Roles
    <2> QED
      BY <2>1, <2>2, <2>3 DEF Dialects
  <1> HIDE DEF items
  <1>8. CASE Omits(d, prev, m) /\ items = <<>>
    BY <1>6, <1>8 DEF items
  <1>9. CASE ~Omits(d, prev, m)
    <2>1. items \in Seq(Items) /\ ThingsOf(items) = told
      <3>1. CASE \E role \in Roles : items = one(role) \o calls
        <4>1. PICK role \in Roles : items = one(role) \o calls
          BY <3>1
        <4>2. one(role) \in Seq(Items) /\ ThingsOf(one(role)) = m.Content
          BY <1>1
        <4> QED
          BY <1>4, <4>1, <4>2, Zenon
      <3>2. CASE items = Text(m) \o calls
        BY <1>3, <1>4, <3>2, Zenon
      <3>3. CASE m.ToolCalls = <<>> /\ \E role \in Roles : items = one(role)
        BY <1>1, <1>5, <3>3, Zenon
      <3> QED
        BY <1>7, <1>9, <3>1, <3>2, <3>3
    <2> QED
      BY <1>9, <2>1 DEF items, told
  <1> QED
    BY <1>7, <1>8, <1>9

Sent(d, prev) == {n \in Numbers : ~Omits(d, prev, history[said[n].at])}

\* A request tells all that is not left out of the messages it is made of, those of the
\* history behind lo.
LEMMA RequestTells ==
  ASSUME Spoken, NEW d \in Dialects, NEW prev, NEW lo \in 0 .. Len(history),
         NEW messages \in Seq(Messages), Len(messages) = Len(history) - lo,
         \A i \in 1 .. Len(messages) : messages[i] = history[lo + i],
         NEW pieces, pieces = [i \in DOMAIN messages |-> ItemsOf(d, prev, messages[i])]
  PROVE  /\ FlattenSeq(pieces) \in Seq(Items)
         /\ Tells(said, ThingsOf(FlattenSeq(pieces)),
                  {n \in Sent(d, prev) : said[n].at > lo})
  <1> DEFINE H == Len(history)
             Told(k) == {n \in Sent(d, prev) : said[n].at > lo /\ said[n].at <= lo + k}
             P == [k \in Nat |-> {s \in Seq(Items) : Tells(said, ThingsOf(s), Told(k))}]
  <1>0. /\ H \in Nat /\ lo \in Nat /\ Len(messages) \in Nat /\ DOMAIN messages = 1 .. Len(messages)
        /\ \A n \in Numbers : said[n].at \in 1 .. H
    BY LenProperties DEF Spoken
  <1>1. ASSUME NEW i \in 1 .. Len(messages)
        PROVE  /\ messages[i] = history[lo + i] /\ lo + i \in 1 .. H /\ messages[i] \in Messages
               /\ messages[i].Role # "assistant" => messages[i].ToolCalls = <<>>
               /\ Tells(said, messages[i].Content \o messages[i].ToolCalls, From(lo + i))
    <2>1. messages[i] = history[lo + i] /\ lo + i \in 1 .. H
      BY <1>0
    <2>2. Fits(lo + i) /\ history[lo + i] \in Messages
      BY <2>1 DEF Spoken
    <2> QED
      BY <2>1, <2>2 DEF Fits
  <1>2. pieces \in Seq(Seq(Items)) /\ Len(pieces) = Len(messages)
    <2>1. \A i \in 1 .. Len(messages) : ItemsOf(d, prev, messages[i]) \in Seq(Items)
      BY <1>1, ItemsTell
    <2>2. pieces = [i \in 1 .. Len(messages) |-> ItemsOf(d, prev, messages[i])]
      BY <1>0
    <2> QED
      BY <1>0, <2>1, <2>2
  <1>3. <<>> \in P[0]
    <2>1. Told(0) = {}
      BY <1>0 DEF Sent
    <2>2. <<>> \in Seq(Items) /\ Tells(said, ThingsOf(<<>>), Told(0))
      BY <2>1, ThingsNothing, TellsNothing, EmptySeq
    <2> QED
      BY <2>2
  <1>4. ASSUME NEW k \in Nat, NEW s \in Seq(Items), s \in P[k], k < Len(pieces)
        PROVE  s \o pieces[k + 1] \in P[k + 1]
    <2> DEFINE i == k + 1
               m == messages[i]
               b == From(lo + i)
    <2>1. i \in 1 .. Len(messages) /\ k + 1 \in Nat
      BY <1>2, <1>4
    <2>2. /\ pieces[i] = ItemsOf(d, prev, m) /\ m = history[lo + i] /\ m \in Messages
          /\ m.Role # "assistant" => m.ToolCalls = <<>>
          /\ Tells(said, m.Content \o m.ToolCalls, b)
      BY <1>0, <1>1, <2>1
    <2>3. /\ pieces[i] \in Seq(Items)
          /\ ThingsOf(pieces[i]) = IF Omits(d, prev, m) THEN <<>> ELSE m.Content \o m.ToolCalls
      <3>1. m \in Messages /\ (m.Role # "assistant" => m.ToolCalls = <<>>)
        BY <2>2
      <3>2. pieces[i] = ItemsOf(d, prev, m)
        BY <2>2
      <3> HIDE DEF m
      <3>3. /\ ItemsOf(d, prev, m) \in Seq(Items)
            /\ ThingsOf(ItemsOf(d, prev, m))
                 = IF Omits(d, prev, m) THEN <<>> ELSE m.Content \o m.ToolCalls
        BY <3>1, ItemsTell
      <3> QED
        BY <3>2, <3>3
    <2>4. /\ s \o pieces[i] \in Seq(Items)
          /\ ThingsOf(s \o pieces[i]) = ThingsOf(s) \o ThingsOf(pieces[i])
      BY <2>3, ConcatProperties, ThingsConcat
    <2>5. Tells(said, ThingsOf(s), Told(k)) /\ Told(k) \subseteq Numbers
      BY <1>4 DEF Sent
    <2>6. \A n \in Numbers : said[n].at \in Nat
      BY <1>0
    <2>7. Tells(said, ThingsOf(s \o pieces[i]), Told(k + 1))
      <3>1. CASE Omits(d, prev, m)
        <4>1. Told(k + 1) = Told(k)
          <5>1. \A n \in Sent(d, prev) : said[n].at # lo + i
            BY <2>2, <3>1, Zenon DEF Sent
          <5>2. ASSUME NEW n \in Sent(d, prev)
                PROVE  said[n].at <= lo + (k + 1) <=> said[n].at <= lo + k
            <6>1. said[n].at \in Nat /\ said[n].at # lo + (k + 1)
              BY <2>6, <5>1 DEF Sent
            <6>2. \A x \in Nat : x # lo + (k + 1) => (x <= lo + (k + 1) <=> x <= lo + k)
              BY <1>0
            <6> QED
              BY <6>1, <6>2, Zenon
          <5> QED
            BY <5>2
        <4>2. ThingsOf(s) \o <<>> = ThingsOf(s)
          BY ThingsType, ConcatEmptySeq
        <4>3. ThingsOf(s \o pieces[i]) = ThingsOf(s)
          BY <2>3, <2>4, <3>1, <4>2
        <4> HIDE DEF Told
        <4> QED
          BY <2>5, <4>1, <4>3
      <3>2. CASE ~Omits(d, prev, m)
        <4>1. Told(k + 1) = Told(k) \cup b
          <5>1. \A x \in Nat :
                  /\ (x > lo /\ x <= lo + (k + 1))
                       <=> ((x > lo /\ x <= lo + k) \/ x = lo + (k + 1))
                  /\ x = lo + (k + 1) => x > lo
            BY <1>0
          <5>2. \A n \in b : n \in Sent(d, prev) /\ said[n].at = lo + (k + 1)
            BY <2>2, <3>2 DEF Sent, From
          <5>3. \A n \in Sent(d, prev) : said[n].at = lo + (k + 1) => n \in b
            BY DEF Sent, From
          <5>4. \A n \in Sent(d, prev) : said[n].at \in Nat
            BY <2>6 DEF Sent
          <5> HIDE DEF b
          <5> QED
            BY <5>1, <5>2, <5>3, <5>4
        <4>2. \A x \in Told(k), y \in b : x # y /\ said[x].at <= said[y].at
          BY <1>0, <2>6 DEF From, Sent
        <4>3. Tells(said, ThingsOf(pieces[i]), b)
          BY <2>2, <2>3, <3>2
        <4> HIDE DEF Told, b
        <4>4. Tells(said, ThingsOf(s) \o ThingsOf(pieces[i]), Told(k) \cup b)
          BY <2>5, <4>2, <4>3, TellsBoth
        <4> QED
          BY <2>4, <4>1, <4>4
      <3> QED
        BY <3>1, <3>2
    <2> HIDE DEF Told
    <2> QED
      BY <2>1, <2>4, <2>7
  <1>5. FlattenSeq(pieces) \in P[Len(pieces)] /\ FlattenSeq(pieces) \in Seq(Items)
    <2> HIDE DEF P
    <2> QED
      BY <1>2, <1>3, <1>4, JoinInduction
  <1>6. Told(Len(messages)) = {n \in Sent(d, prev) : said[n].at > lo}
    BY <1>0 DEF Sent
  <1>7. Tells(said, ThingsOf(FlattenSeq(pieces)), Told(Len(messages)))
    <2> HIDE DEF Told
    <2> QED
      BY <1>0, <1>2, <1>5
  <1> HIDE DEF Told, P
  <1> QED
    BY <1>5, <1>6, <1>7

(***************************************************************************)
(* What the model sees.                                                    *)
(***************************************************************************)
\* The things of the first K messages that every model sees.
Plain(f, K) == {n \in DOMAIN f : f[n].at <= K /\ f[n].kind # "system"}

\* s has what the first K messages contain: a thing may come twice, but no tool call does,
\* and each result comes behind its call.
Covers(f, s, K) ==
  /\ s \in Seq(Nat)
  /\ \A i \in 1 .. Len(s) : s[i] \in DOMAIN f /\ f[s[i]].at <= K
  /\ \A n \in Plain(f, K) : \E i \in 1 .. Len(s) : s[i] = n
  /\ \A i, j \in 1 .. Len(s) : i < j /\ s[i] = s[j] => f[s[i]].kind # "call"
  /\ \A j \in 1 .. Len(s) : f[s[j]].kind = "tool" =>
       \E i \in 1 .. j - 1 : s[i] = f[s[j]].of

LEMMA TellsCovers ==
  ASSUME Spoken, NEW s, NEW N, NEW K \in Nat, Tells(said, s, N), Plain(said, K) \subseteq N,
         \A n \in N : said[n].at <= K
  PROVE  Covers(said, s, K)
  <1>1. Len(s) \in Nat
    BY LenProperties DEF Tells, Numbers
  <1>2. \A n \in Numbers : said[n].at \in Nat
    BY LenProperties DEF Spoken
  <1>3. ASSUME NEW j \in 1 .. Len(s), said[s[j]].kind = "tool"
        PROVE  \E i \in 1 .. j - 1 : s[i] = said[s[j]].of
    <2> DEFINE n == s[j]
               c == said[n].of
    <2>1. n \in N /\ n \in Numbers
      BY DEF Tells, Numbers
    <2>2. c \in Numbers /\ said[c].kind = "call" /\ said[c].at < said[n].at
      BY <1>3, <2>1 DEF Spoken
    <2>3. c \in N
      <3>1. said[n].at <= K /\ said[n].at \in Nat /\ said[c].at \in Nat
        BY <1>2, <2>1, <2>2
      <3>2. \A x, y \in Nat : x < y /\ y <= K => x <= K
        OBVIOUS
      <3>3. said[c].at <= K
        BY <2>2, <3>1, <3>2, Zenon
      <3> QED
        BY <2>2, <3>3 DEF Plain, Numbers
    <2>4. PICK i \in 1 .. Len(s) : s[i] = c
      BY <2>3 DEF Tells, Numbers
    <2>5. ~(j <= i)
      <3>1. SUFFICES ASSUME j <= i PROVE FALSE
        OBVIOUS
      <3>2. said[n].at <= said[c].at
        <4>1. CASE i = j
          BY <1>2, <2>1, <2>4, <4>1
        <4>2. CASE j < i
          BY <2>4, <4>2 DEF Tells, Numbers
        <4> QED
          BY <3>1, <4>1, <4>2
      <3>3. \A x, y \in Nat : x < y => ~(y <= x)
        OBVIOUS
      <3> QED
        BY <1>2, <2>1, <2>2, <3>2, <3>3, Zenon
    <2> HIDE DEF n, c
    <2>6. i \in 1 .. j - 1
      BY <1>1, <2>5
    <2> QED
      BY <2>4, <2>6 DEF n, c
  <1>4. \A i \in 1 .. Len(s) : s[i] \in N
    BY DEF Tells, Numbers
  <1>5. \A i, j \in 1 .. Len(s) : i < j => s[i] # s[j]
    BY DEF Tells, Numbers
  <1>6. s \in Seq(Nat) /\ N \subseteq Numbers /\ \A n \in N : \E i \in 1 .. Len(s) : s[i] = n
    BY DEF Tells, Numbers
  <1> QED
    BY <1>3, <1>4, <1>5, <1>6 DEF Covers, Numbers

Known ==
  /\ known \in 0 .. Len(history)
  /\ \A i \in known + 1 .. Len(history) : history[i].Role # "assistant"

\* A caller that chains and sends its whole history: what it has sent before, it sends again,
\* but for the messages with tool calls.
LEMMA CoversAgain ==
  ASSUME Spoken, Known, NEW s, NEW t, NEW prev, prev # Zero, Covers(said, s, known),
         Tells(said, t, {n \in Sent("responses", prev) : said[n].at > 0})
  PROVE  Covers(said, s \o t, Len(history))
  <1> DEFINE st == s \o t
             H == Len(history)
  <1>0. H \in Nat /\ known \in 0 .. H
    BY LenProperties DEF Spoken, Known
  <1>1. s \in Seq(Nat) /\ t \in Seq(Nat) /\ Len(s) \in Nat /\ Len(t) \in Nat
    BY LenProperties DEF Tells, Covers, Numbers
  <1>2. /\ st \in Seq(Nat) /\ Len(st) = Len(s) + Len(t)
        /\ \A i \in 1 .. Len(s) : st[i] = s[i]
        /\ \A i \in 1 .. Len(t) : st[Len(s) + i] = t[i]
    BY <1>1
  <1> HIDE DEF st
  <1>3. ASSUME NEW i \in 1 .. Len(st)
        PROVE  \/ i \in 1 .. Len(s) /\ st[i] = s[i]
               \/ \E k \in 1 .. Len(t) : i = Len(s) + k /\ st[i] = t[k]
    <2>1. CASE i <= Len(s)
      BY <1>1, <1>2, <2>1
    <2>2. CASE i > Len(s)
      <3>1. i - Len(s) \in 1 .. Len(t) /\ i = Len(s) + (i - Len(s))
        BY <1>1, <1>2, <2>2
      <3> QED
        BY <1>2, <3>1
    <2> QED
      BY <1>1, <1>2, <2>1, <2>2
  <1>4. \A n \in Numbers : said[n].at \in 1 .. H
    BY DEF Spoken
  <1>5. ASSUME NEW n \in Numbers, history[said[n].at].ToolCalls # <<>>
        PROVE  n \notin Sent("responses", prev)
    BY <1>5 DEF Sent, Omits
  <1>6. \A n \in Numbers : said[n].kind = "call" =>
          n \notin Sent("responses", prev) /\ said[n].at <= known
    <2> SUFFICES ASSUME NEW n \in Numbers, said[n].kind = "call"
                 PROVE  n \notin Sent("responses", prev) /\ said[n].at <= known
      OBVIOUS
    <2> DEFINE a == said[n].at
    <2>1. history[a].ToolCalls # <<>> /\ history[a].Role = "assistant"
      BY KindOf
    <2>2. a \in 1 .. H
      BY <1>4
    <2>3. a \notin known + 1 .. H
      BY <2>1 DEF Known
    <2>4. n \notin Sent("responses", prev)
      BY <1>5, <2>1
    <2> HIDE DEF a
    <2>5. a <= known
      BY <1>0, <2>2, <2>3
    <2> QED
      BY <2>4, <2>5 DEF a
  <1>7. \A i \in 1 .. Len(t) : t[i] \in Numbers /\ t[i] \in Sent("responses", prev)
    BY DEF Tells, Sent, Numbers
  <1>8. \A i \in 1 .. Len(s) : s[i] \in Numbers
    BY DEF Covers, Numbers
  <1>9. ASSUME NEW i \in 1 .. Len(st) PROVE st[i] \in Numbers /\ said[st[i]].at <= H
    <2>1. st[i] \in Numbers
      BY <1>3, <1>7, <1>8
    <2> QED
      BY <1>4, <2>1
  <1>10. ASSUME NEW n \in Plain(said, H) PROVE \E i \in 1 .. Len(st) : st[i] = n
    <2>1. CASE said[n].at <= known
      <3>1. n \in Plain(said, known)
        BY <2>1 DEF Plain, Numbers
      <3>2. PICK i \in 1 .. Len(s) : s[i] = n
        BY <3>1 DEF Covers, Numbers
      <3>3. i \in 1 .. Len(st) /\ st[i] = n
        BY <1>1, <1>2, <3>2
      <3> QED
        BY <3>3
    <2>2. CASE ~(said[n].at <= known)
      <3> DEFINE m == history[said[n].at]
      <3>1. n \in Numbers /\ said[n].kind # "system" /\ said[n].at \in 1 .. H
        BY <1>4 DEF Plain, Numbers
      <3>2. m.Role # "assistant"
        BY <1>0, <2>2, <3>1 DEF Known
      <3>3. m.Role # "system"
        BY <3>1, KindOf
      <3>4. m.ToolCalls = <<>>
        BY <3>1, <3>2 DEF Spoken, Fits
      <3>5. n \in Sent("responses", prev) /\ said[n].at > 0
        BY <3>1, <3>3, <3>4 DEF Sent, Omits
      <3>6. PICK i \in 1 .. Len(t) : t[i] = n
        BY <3>5 DEF Tells, Numbers
      <3>7. Len(s) + i \in 1 .. Len(st)
        BY <1>1, <1>2
      <3>8. st[Len(s) + i] = n
        BY <1>2, <3>6
      <3> QED
        BY <3>7, <3>8
    <2> QED
      BY <2>1, <2>2
  <1>11. ASSUME NEW i \in 1 .. Len(st), NEW j \in 1 .. Len(st), i < j, st[i] = st[j]
         PROVE  said[st[i]].kind # "call"
    <2> SUFFICES ASSUME said[st[i]].kind = "call" PROVE FALSE
      OBVIOUS
    <2>1. st[i] \notin Sent("responses", prev) /\ st[j] \notin Sent("responses", prev)
      BY <1>6, <1>9, <1>11
    <2>2. i \in 1 .. Len(s) /\ st[i] = s[i] /\ j \in 1 .. Len(s) /\ st[j] = s[j]
      BY <1>3, <1>7, <2>1
    <2> QED
      BY <1>11, <2>2 DEF Covers, Numbers
  <1>12. ASSUME NEW j \in 1 .. Len(st), said[st[j]].kind = "tool"
         PROVE  \E i \in 1 .. j - 1 : st[i] = said[st[j]].of
    <2>1. CASE j \in 1 .. Len(s) /\ st[j] = s[j]
      <3>1. PICK i \in 1 .. j - 1 : s[i] = said[s[j]].of
        BY <1>12, <2>1 DEF Covers, Numbers
      <3>2. i \in 1 .. Len(s)
        BY <1>1, <2>1
      <3> QED
        BY <1>2, <2>1, <3>1, <3>2
    <2>2. CASE \E k \in 1 .. Len(t) : j = Len(s) + k /\ st[j] = t[k]
      <3> DEFINE c == said[st[j]].of
      <3>1. c \in Numbers /\ said[c].kind = "call"
        BY <1>9, <1>12 DEF Spoken
      <3>2. c \in Plain(said, known)
        BY <1>6, <3>1 DEF Plain, Numbers
      <3>3. PICK i \in 1 .. Len(s) : s[i] = c
        BY <3>2 DEF Covers, Numbers
      <3>4. st[i] = c
        BY <1>2, <3>3
      <3> HIDE DEF c
      <3>5. i \in 1 .. j - 1
        BY <1>1, <2>2
      <3> QED
        BY <3>4, <3>5 DEF c
    <2> QED
      BY <1>3, <2>1, <2>2
  <1> QED
    BY <1>2, <1>9, <1>10, <1>11, <1>12 DEF Covers, st, Numbers

(***************************************************************************)
(* The invariant: what the server has been sent is what the caller's state *)
(* makes of the history, and what a server has stored is what was said     *)
(* until the answer that the caller knows.                                 *)
(***************************************************************************)
ChainsTo(d) == style # "whole" /\ d = "responses" /\ rid # Zero
OptionsFor(d) ==
  [ToChatOptions(preset) EXCEPT
     !["PreviousResponseID"] = IF ChainsTo(d) THEN rid ELSE Zero]
MessagesFor(d) == IF ChainsTo(d) /\ style = "new" THEN Fresh ELSE history

\* The request that the server has is what the caller's state makes of it.
Requested ==
  place = "asked" =>
    \E d \in Dialects :
      req = [dialect |-> d, sent |-> BuildRequest(d, MessagesFor(d), OptionsFor(d))]

\* What a server has stored is what was said until then.
Stored ==
  \A r \in DOMAIN stored :
    /\ r = rid /\ style # "whole"
    /\ style = "new" => Tells(said, stored[r], Plain(said, known))
    /\ Covers(said, stored[r], known)

TalkInv ==
  /\ style \in {"whole", "new", "all"} /\ place \in {"talk", "asked"}
  /\ Spoken /\ Known /\ Requested /\ Stored

LEMMA RequestIs ==
  ASSUME NEW d \in Dialects, NEW messages, NEW o
  PROVE  LET r == BuildRequest(d, messages, o) IN
         /\ r.prev = IF d = "responses" THEN o["PreviousResponseID"] ELSE Zero
         /\ r.items = FlattenSeq([i \in DOMAIN messages |-> ItemsOf(d, r.prev, messages[i])])
  <1>1. CASE d = "completions"
    <2>1. BuildRequest(d, messages, o) = CompletionsRequest(messages, o)
      BY <1>1 DEF BuildRequest
    <2> QED
      BY <1>1, <2>1 DEF CompletionsRequest, Request, Flat, ItemsOf
  <1>2. CASE d = "messages"
    <2>1. BuildRequest(d, messages, o) = MessagesRequest(messages, o)
      BY <1>2 DEF BuildRequest
    <2> QED
      BY <1>2, <2>1 DEF MessagesRequest, Request, Flat, ItemsOf
  <1>3. CASE d = "responses"
    <2>1. BuildRequest(d, messages, o) = ResponsesRequest(messages, o)
      BY <1>3 DEF BuildRequest
    <2> QED
      BY <1>3, <2>1 DEF ResponsesRequest, Request, Flat, ItemsOf
  <1> QED
    BY <1>1, <1>2, <1>3 DEF Dialects

LEMMA Seeing ==
  ASSUME TalkInv, CanAnswer
  PROVE  /\ Covers(said, Seen, Len(history))
         /\ style # "all" =>
              \E N : Tells(said, Seen, N) /\ Plain(said, Len(history)) \subseteq N
         /\ style # "all" /\ req.dialect = "responses" =>
              Tells(said, Seen, Plain(said, Len(history)))
  <1> DEFINE H == Len(history)
             prev == req.sent.prev
             items == req.sent.items
  <1>0. Spoken /\ Known /\ Stored /\ H \in Nat /\ history \in Seq(Messages) /\ 0 \in 0 .. H
    BY LenProperties DEF TalkInv, Spoken
  <1>1. PICK d \in Dialects :
          req = [dialect |-> d, sent |-> BuildRequest(d, MessagesFor(d), OptionsFor(d))]
    BY DEF TalkInv, Requested, CanAnswer
  <1> DEFINE messages == MessagesFor(d)
             pieces == [i \in DOMAIN messages |-> ItemsOf(d, prev, messages[i])]
             T == ThingsOf(items)
  <1>2. OptionsFor(d)["PreviousResponseID"] = IF ChainsTo(d) THEN rid ELSE Zero
    BY DEF OptionsFor, ToChatOptions, Fields
  <1>3. /\ req.dialect = d /\ prev = IF ChainsTo(d) THEN rid ELSE Zero
        /\ items = FlattenSeq(pieces)
    <2>1. req.dialect = d /\ req.sent = BuildRequest(d, messages, OptionsFor(d))
      BY <1>1
    <2>2. prev = IF d = "responses" THEN OptionsFor(d)["PreviousResponseID"] ELSE Zero
      <3> DEFINE o == OptionsFor(d)
                 r == BuildRequest(d, messages, o)
      <3>1. r.prev = IF d = "responses" THEN o["PreviousResponseID"] ELSE Zero
        <4> HIDE DEF o, messages
        <4> QED
          BY RequestIs
      <3>2. prev = r.prev
        BY <2>1
      <3> QED
        BY <3>1, <3>2, Zenon
    <2>3. items = FlattenSeq(pieces)
      BY <2>1, RequestIs
    <2>4. d # "responses" => ~ChainsTo(d)
      BY DEF ChainsTo
    <2> QED
      BY <1>2, <2>1, <2>2, <2>3, <2>4, Zenon
  <1>4. prev # Zero <=> ChainsTo(d)
    BY <1>3 DEF ChainsTo
  <1>5. \A n \in Numbers : said[n].at \in 1 .. H
    BY <1>0 DEF Spoken
  <1>6. \A n \in Numbers : said[n].kind = "system" <=> history[said[n].at].Role = "system"
    BY <1>0, KindOf
  <1> HIDE DEF prev, items
  <1>7. ASSUME messages = history
        PROVE  Tells(said, T, {n \in Sent(d, prev) : said[n].at > 0})
    <2>1. Len(messages) = H - 0 /\ \A i \in 1 .. Len(messages) : messages[i] = history[0 + i]
      BY <1>0, <1>7
    <2>2. messages \in Seq(Messages)
      BY <1>0, <1>7
    <2> HIDE DEF messages, pieces, H
    <2>3. pieces = [i \in DOMAIN messages |-> ItemsOf(d, prev, messages[i])]
      BY DEF pieces
    <2>4. Tells(said, ThingsOf(FlattenSeq(pieces)), {n \in Sent(d, prev) : said[n].at > 0})
      BY <1>0, <2>1, <2>2, <2>3, RequestTells DEF H
    <2> QED
      BY <1>3, <2>4
  <1>8. CASE ~ChainsTo(d)
    <2>1. messages = history /\ prev = Zero
      BY <1>4, <1>8 DEF MessagesFor
    <2>2. Seen = T
      <3>1. T \in Seq(Nat)
        BY <1>7, <2>1 DEF Tells, Numbers
      <3>2. Seen = <<>> \o T
        BY <2>1 DEF Seen, prev, items
      <3> HIDE DEF T
      <3> QED
        BY <3>1, <3>2, ConcatEmptySeq
    <2> DEFINE N == {n \in Sent(d, prev) : said[n].at > 0}
    <2>3. Tells(said, T, N)
      BY <1>7, <2>1
    <2>4. Plain(said, H) \subseteq N /\ \A n \in N : said[n].at <= H
      BY <1>5, <1>6, <2>1 DEF Plain, Sent, Omits, Numbers
    <2>5. d = "responses" => N = Plain(said, H)
      BY <1>5, <1>6, <2>1 DEF Plain, Sent, Omits, Numbers
    <2> HIDE DEF N, H, T
    <2>6. Covers(said, T, H)
      BY <1>0, <2>3, <2>4, TellsCovers
    <2> QED
      BY <1>3, <2>2, <2>3, <2>4, <2>5, <2>6, Zenon DEF H
  <1>9. CASE ChainsTo(d)
    <2>1. d = "responses" /\ prev = rid /\ prev # Zero /\ prev \in DOMAIN stored
      BY <1>3, <1>4, <1>9 DEF ChainsTo, CanAnswer, prev
    <2>2. Seen = stored[prev] \o T
      BY <2>1 DEF Seen, prev, items
    <2>3. /\ style = "new" => Tells(said, stored[prev], Plain(said, known))
          /\ Covers(said, stored[prev], known)
      BY <1>0, <2>1 DEF Stored
    <2>4. CASE style = "new"
      <3>1. messages = SubSeq(history, known + 1, H)
        BY <1>9, <2>4 DEF MessagesFor, Fresh
      <3>2. known \in 0 .. H
        BY <1>0 DEF Known
      <3>3. /\ messages \in Seq(Messages) /\ Len(messages) = H - known
            /\ \A i \in 1 .. Len(messages) : messages[i] = history[known + i]
        BY <1>0, <3>1, <3>2
      <3> DEFINE N == {n \in Sent(d, prev) : said[n].at > known}
      <3>4. Tells(said, T, N)
        <4> HIDE DEF messages, pieces, H
        <4>1. pieces = [i \in DOMAIN messages |-> ItemsOf(d, prev, messages[i])]
          BY DEF pieces
        <4>2. Tells(said, ThingsOf(FlattenSeq(pieces)), N)
          BY <1>0, <3>2, <3>3, <4>1, RequestTells DEF H
        <4> QED
          BY <1>3, <4>2
      <3>5. \A n \in Numbers : said[n].at > known => history[said[n].at].ToolCalls = <<>>
        <4> SUFFICES ASSUME NEW n \in Numbers, said[n].at > known
                     PROVE  history[said[n].at].ToolCalls = <<>>
          OBVIOUS
        <4>1. said[n].at \in 1 .. H /\ said[n].at \in known + 1 .. H
          BY <1>0, <1>5, <3>2
        <4>2. history[said[n].at].Role # "assistant"
          BY <1>0, <4>1 DEF Known
        <4> QED
          BY <1>0, <4>1, <4>2 DEF Spoken, Fits
      <3>6. N = {n \in Numbers : said[n].at > known /\ said[n].kind # "system"}
        BY <1>6, <2>1, <3>5 DEF Sent, Omits
      <3>7. Plain(said, known) \cup N = Plain(said, H)
        BY <1>0, <1>5, <3>2, <3>6 DEF Plain, Numbers
      <3>8. \A x \in Plain(said, known), y \in N : x # y /\ said[x].at <= said[y].at
        BY <1>0, <1>5, <3>2, <3>6 DEF Plain, Numbers
      <3>9. Tells(said, Seen, Plain(said, H))
        <4> HIDE DEF N, T, H
        <4>1. Tells(said, stored[prev] \o T, Plain(said, known) \cup N)
          BY <2>3, <2>4, <3>4, <3>8, TellsBoth
        <4> QED
          BY <2>2, <3>7, <4>1
      <3>10. \A n \in Plain(said, H) : said[n].at <= H
        BY DEF Plain, Numbers
      <3>11. Covers(said, Seen, H)
        <4> HIDE DEF H
        <4> QED
          BY <1>0, <3>9, <3>10, TellsCovers
      <3> QED
        BY <3>9, <3>11
    <2>5. CASE style = "all"
      <3>1. messages = history
        BY <2>5 DEF MessagesFor
      <3>2. Tells(said, T, {n \in Sent("responses", prev) : said[n].at > 0})
        BY <1>7, <2>1, <3>1
      <3> HIDE DEF T
      <3>3. Covers(said, stored[prev] \o T, H)
        BY <1>0, <2>1, <2>3, <3>2, CoversAgain
      <3> QED
        BY <2>2, <2>5, <3>3
    <2> QED
      BY <1>9, <2>4, <2>5 DEF ChainsTo, TalkInv
  <1> QED
    BY <1>8, <1>9

LEMMA TimesAtLeast ==
  ASSUME NEW s \in Seq(Nat), NEW n, NEW k \in 1 .. Len(s), s[k] = n
  PROVE  Times(n, s) >= 1
  <1> DEFINE S == {i \in DOMAIN s : s[i] = n}
  <1>1. S \subseteq 1 .. Len(s) /\ Len(s) \in Nat /\ k \in S
    BY LenProperties
  <1>2. IsFiniteSet(S)
    BY <1>1, FS_Interval, FS_Subset
  <1>3. Cardinality(S) \in Nat /\ Cardinality(S) # 0
    BY <1>1, <1>2, FS_CardinalityType, FS_EmptySet
  <1>4. Times(n, s) = Cardinality(S)
    BY DEF Times
  <1> QED
    BY <1>3, <1>4

LEMMA TimesOnce ==
  ASSUME NEW s \in Seq(Nat), NEW n, NEW k \in 1 .. Len(s), s[k] = n,
         \A i, j \in 1 .. Len(s) : i < j /\ s[i] = s[j] => s[i] # n
  PROVE  Times(n, s) = 1
  <1> DEFINE S == {i \in DOMAIN s : s[i] = n}
  <1>1. DOMAIN s = 1 .. Len(s) /\ Len(s) \in Nat
    BY LenProperties
  <1>2. \A i, j \in 1 .. Len(s) : i < j \/ j < i \/ i = j
    BY <1>1
  <1>3. S = {k}
    BY <1>1, <1>2
  <1>4. Cardinality(S) = 1
    BY <1>3, FS_Singleton
  <1> QED
    BY <1>4 DEF Times

LEMMA TalkInvWhole == TalkInv => WholeConversation
  <1> SUFFICES ASSUME TalkInv, CanAnswer PROVE WholeConversation
    BY DEF WholeConversation
  <1> DEFINE s == Seen
             H == Len(history)
  <1>1. /\ Covers(said, s, H)
        /\ style # "all" => \E N : Tells(said, s, N) /\ Plain(said, H) \subseteq N
    BY Seeing
  <1>2. \A n \in Numbers : said[n].at <= H
    BY LenProperties DEF TalkInv, Spoken
  <1>3. \A n \in DOMAIN said \ Said("system") : n \in Plain(said, H)
    BY <1>2 DEF Said, Plain, Numbers
  <1> HIDE DEF s, H
  <1>4. s \in Seq(Nat) /\ Len(s) \in Nat
    BY <1>1, LenProperties DEF Covers, Numbers
  <1>5. ASSUME NEW n \in DOMAIN said \ Said("system")
        PROVE  Times(n, s) >= 1 /\ (style # "all" => Times(n, s) = 1)
    <2>1. PICK k \in 1 .. Len(s) : s[k] = n
      BY <1>1, <1>3 DEF Covers, Numbers
    <2>2. Times(n, s) >= 1
      BY <1>4, <2>1, TimesAtLeast
    <2>3. ASSUME style # "all" PROVE Times(n, s) = 1
      <3>1. \A i, j \in 1 .. Len(s) : i < j => s[i] # s[j]
        BY <1>1, <2>3 DEF Tells, Numbers
      <3> QED
        BY <1>4, <2>1, <3>1, TimesOnce
    <2> QED
      BY <2>2, <2>3
  <1>6. ASSUME style # "all", NEW i \in 2 .. Len(s)
        PROVE  said[s[i - 1]].at <= said[s[i]].at
    <2>1. i - 1 \in 1 .. Len(s) /\ i \in 1 .. Len(s) /\ i - 1 < i
      BY <1>4
    <2>2. PICK N : Tells(said, s, N)
      BY <1>1, <1>6
    <2> QED
      BY <2>1, <2>2 DEF Tells, Numbers
  <1> QED
    BY <1>5, <1>6 DEF WholeConversation, s

LEMMA TalkInvResults == TalkInv => ResultsFindTheirCalls
  <1> SUFFICES ASSUME TalkInv, CanAnswer PROVE ResultsFindTheirCalls
    BY DEF ResultsFindTheirCalls
  <1> DEFINE s == Seen
             H == Len(history)
  <1>1. Covers(said, s, H)
    BY Seeing
  <1>2. \A n \in Numbers : said[n].at <= H
    BY LenProperties DEF TalkInv, Spoken
  <1>3. \A n \in Said("call") : n \in Plain(said, H) /\ said[n].kind = "call"
    BY <1>2 DEF Said, Plain, Numbers
  <1> HIDE DEF s, H
  <1>4. s \in Seq(Nat) /\ DOMAIN s = 1 .. Len(s)
    BY <1>1, LenProperties DEF Covers, Numbers
  <1>5. ASSUME NEW c \in Said("call") PROVE Times(c, s) = 1
    <2>1. PICK k \in 1 .. Len(s) : s[k] = c
      BY <1>1, <1>3 DEF Covers, Numbers
    <2>2. \A i, j \in 1 .. Len(s) : i < j /\ s[i] = s[j] => s[i] # c
      BY <1>1, <1>3 DEF Covers, Numbers
    <2> QED
      BY <1>4, <2>1, <2>2, TimesOnce
  <1>6. \A j \in DOMAIN s : said[s[j]].kind = "tool" => \E i \in 1 .. j - 1 : s[i] = said[s[j]].of
    BY <1>1, <1>4 DEF Covers, Numbers
  <1> QED
    BY <1>5, <1>6 DEF ResultsFindTheirCalls, s

(***************************************************************************)
(* What is told stays told, when more is said.                             *)
(***************************************************************************)
Extends(f, g) == DOMAIN f \subseteq DOMAIN g /\ \A n \in DOMAIN f : g[n] = f[n]

LEMMA TellsStill ==
  ASSUME NEW f, NEW g, NEW s, NEW N, Extends(f, g), Tells(f, s, N)
  PROVE  Tells(g, s, N)
  <1>1. \A i \in 1 .. Len(s) : s[i] \in DOMAIN f
    BY DEF Tells
  <1>2. \A i \in 1 .. Len(s) : g[s[i]] = f[s[i]]
    BY <1>1 DEF Extends
  <1>3. N \subseteq DOMAIN g
    BY DEF Tells, Extends
  <1> QED
    BY <1>2, <1>3 DEF Tells

LEMMA PlainStill ==
  ASSUME NEW f, NEW g, NEW K, Extends(f, g), \A n \in DOMAIN g \ DOMAIN f : ~(g[n].at <= K)
  PROVE  Plain(g, K) = Plain(f, K)
  BY DEF Plain, Extends

LEMMA CoversStill ==
  ASSUME NEW f, NEW g, NEW s, NEW K, Extends(f, g), Covers(f, s, K),
         \A n \in DOMAIN g \ DOMAIN f : ~(g[n].at <= K)
  PROVE  Covers(g, s, K)
  <1>1. \A i \in 1 .. Len(s) : s[i] \in DOMAIN f /\ f[s[i]].at <= K
    BY DEF Covers
  <1>2. \A i \in 1 .. Len(s) : s[i] \in DOMAIN g /\ g[s[i]] = f[s[i]]
    BY <1>1 DEF Extends
  <1>3. Plain(g, K) = Plain(f, K)
    BY PlainStill
  <1> QED
    BY <1>1, <1>2, <1>3 DEF Covers

\* A server stores its answer behind what the model has seen.
LEMMA CoversAnswer ==
  ASSUME NEW f, NEW s, NEW t, NEW N, NEW K \in Nat, Covers(f, s, K), Tells(f, t, N),
         \A n \in DOMAIN f : f[n].at \in Nat,
         \A n \in N : f[n].at = K + 1 /\ f[n].kind # "tool",
         Plain(f, K + 1) \subseteq Plain(f, K) \cup N
  PROVE  Covers(f, s \o t, K + 1)
  <1> DEFINE st == s \o t
  <1>1. s \in Seq(Nat) /\ t \in Seq(Nat) /\ Len(s) \in Nat /\ Len(t) \in Nat
    BY LenProperties DEF Tells, Covers
  <1>2. /\ st \in Seq(Nat) /\ Len(st) = Len(s) + Len(t)
        /\ \A i \in 1 .. Len(s) : st[i] = s[i]
        /\ \A i \in 1 .. Len(t) : st[Len(s) + i] = t[i]
    BY <1>1
  <1> HIDE DEF st
  <1>3. ASSUME NEW i \in 1 .. Len(st)
        PROVE  \/ i \in 1 .. Len(s) /\ st[i] = s[i]
               \/ \E k \in 1 .. Len(t) : i = Len(s) + k /\ st[i] = t[k]
    <2>1. CASE i <= Len(s)
      BY <1>1, <1>2, <2>1
    <2>2. CASE i > Len(s)
      <3>1. i - Len(s) \in 1 .. Len(t) /\ i = Len(s) + (i - Len(s))
        BY <1>1, <1>2, <2>2
      <3> QED
        BY <1>2, <3>1
    <2>3. i <= Len(s) \/ i > Len(s)
      BY <1>1
    <2> QED
      BY <2>1, <2>2, <2>3
  <1>4. ASSUME NEW i \in 1 .. Len(s)
        PROVE  s[i] \in DOMAIN f /\ f[s[i]].at <= K /\ f[s[i]].at <= K + 1 /\ f[s[i]].at # K + 1
    <2>1. s[i] \in DOMAIN f /\ f[s[i]].at <= K /\ f[s[i]].at \in Nat
      BY DEF Covers
    <2>2. \A x \in Nat : x <= K => x <= K + 1 /\ x # K + 1
      OBVIOUS
    <2> QED
      BY <2>1, <2>2, Zenon
  <1>5. ASSUME NEW i \in 1 .. Len(t)
        PROVE  /\ t[i] \in DOMAIN f /\ f[t[i]].at = K + 1 /\ f[t[i]].at <= K + 1
               /\ f[t[i]].kind # "tool"
    <2>1. t[i] \in N /\ t[i] \in DOMAIN f
      BY DEF Tells
    <2> QED
      BY <2>1
  <1>6. \A i \in 1 .. Len(st) : st[i] \in DOMAIN f /\ f[st[i]].at <= K + 1
    BY <1>3, <1>4, <1>5
  <1>7. ASSUME NEW n \in Plain(f, K + 1) PROVE \E i \in 1 .. Len(st) : st[i] = n
    <2>1. CASE n \in Plain(f, K)
      <3>1. PICK i \in 1 .. Len(s) : s[i] = n
        BY <2>1 DEF Covers
      <3>2. i \in 1 .. Len(st) /\ st[i] = n
        BY <1>1, <1>2, <3>1
      <3> QED
        BY <3>2
    <2>2. CASE n \in N
      <3>1. PICK i \in 1 .. Len(t) : t[i] = n
        BY <2>2 DEF Tells
      <3>2. Len(s) + i \in 1 .. Len(st)
        BY <1>1, <1>2
      <3>3. st[Len(s) + i] = n
        BY <1>2, <3>1
      <3> QED
        BY <3>2, <3>3
    <2> QED
      BY <2>1, <2>2
  <1>8. ASSUME NEW i \in 1 .. Len(st), NEW j \in 1 .. Len(st), i < j, st[i] = st[j]
        PROVE  f[st[i]].kind # "call"
    <2>1. CASE i \in 1 .. Len(s) /\ st[i] = s[i] /\ j \in 1 .. Len(s) /\ st[j] = s[j]
      BY <1>8, <2>1 DEF Covers
    <2>2. CASE i \in 1 .. Len(s) /\ st[i] = s[i] /\ \E k \in 1 .. Len(t) : st[j] = t[k]
      BY <1>4, <1>5, <1>8, <2>2
    <2>3. CASE \E k \in 1 .. Len(t) : i = Len(s) + k /\ st[i] = t[k]
      <3>1. PICK k \in 1 .. Len(t) : i = Len(s) + k /\ st[i] = t[k]
        BY <2>3
      <3>2. ~(j \in 1 .. Len(s))
        BY <1>1, <1>8, <3>1
      <3>3. PICK l \in 1 .. Len(t) : j = Len(s) + l /\ st[j] = t[l]
        BY <1>3, <3>2
      <3>4. k < l
        BY <1>1, <1>8, <3>1, <3>3
      <3>5. t[k] # t[l]
        BY <3>4 DEF Tells
      <3> QED
        BY <1>8, <3>1, <3>3, <3>5
    <2> QED
      BY <1>3, <2>1, <2>2, <2>3
  <1>9. ASSUME NEW j \in 1 .. Len(st), f[st[j]].kind = "tool"
        PROVE  \E i \in 1 .. j - 1 : st[i] = f[st[j]].of
    <2>1. j \in 1 .. Len(s) /\ st[j] = s[j]
      BY <1>3, <1>5, <1>9
    <2>2. PICK i \in 1 .. j - 1 : s[i] = f[s[j]].of
      BY <1>9, <2>1 DEF Covers
    <2>3. i \in 1 .. Len(s)
      BY <1>1, <2>1
    <2> QED
      BY <1>2, <2>1, <2>2, <2>3
  <1> QED
    BY <1>2, <1>6, <1>7, <1>8, <1>9 DEF Covers, st

\* A message with what it says: the first n things are those that were said before.
Says(m, new, n) ==
  LET told == m.Content \o m.ToolCalls IN
  /\ \A i \in 1 .. Len(told) : told[i] \in n + 1 .. n + Len(new)
  /\ \A k \in n + 1 .. n + Len(new) : \E i \in 1 .. Len(told) : told[i] = k
  /\ \A i, j \in 1 .. Len(told) : i < j => told[i] # told[j]
  /\ \A j \in 1 .. Len(m.Content) :
       new[m.Content[j] - n].kind = IF m.Role = "assistant" THEN "text" ELSE m.Role
  /\ \A j \in 1 .. Len(m.ToolCalls) : new[m.ToolCalls[j] - n].kind = "call"
  /\ m.Role # "assistant" => m.ToolCalls = <<>> /\ m.Content # <<>>

LEMMA Longer ==
  ASSUME Spoken, NEW m \in Messages, NEW new \in Seq(Sayings),
         history' = Append(history, m), said' = said \o new,
         Says(m, new, Len(said)),
         \A j \in 1 .. Len(new) :
           /\ new[j].at = Len(history) + 1
           /\ new[j].kind = "tool" => new[j].of \in Numbers /\ said[new[j].of].kind = "call"
  PROVE  /\ Spoken' /\ Extends(said, said')
         /\ Len(history') = Len(history) + 1
         /\ \A i \in 1 .. Len(history) : history'[i] = history[i]
         /\ DOMAIN said' \ DOMAIN said = Len(said) + 1 .. Len(said) + Len(new)
         /\ \A j \in 1 .. Len(new) : said'[Len(said) + j] = new[j]
         /\ \A n \in DOMAIN said' \ DOMAIN said : said'[n].at = Len(history) + 1
  <1> DEFINE H == Len(history)
             L == Len(said)
             B == L + 1 .. L + Len(new)
             told == m.Content \o m.ToolCalls
  <1>1. H \in Nat /\ L \in Nat /\ Len(new) \in Nat /\ history \in Seq(Messages)
        /\ said \in Seq(Sayings)
    BY LenProperties DEF Spoken
  <1>2. /\ history' \in Seq(Messages) /\ Len(history') = H + 1 /\ history'[H + 1] = m
        /\ \A i \in 1 .. H : history'[i] = history[i]
    BY <1>1
  <1>3. /\ said' \in Seq(Sayings) /\ Len(said') = L + Len(new)
        /\ \A n \in 1 .. L : said'[n] = said[n]
        /\ \A j \in 1 .. Len(new) : said'[L + j] = new[j]
    BY <1>1
  <1>4. DOMAIN said = 1 .. L /\ DOMAIN said' = 1 .. L + Len(new)
    BY <1>1, <1>3
  <1>5. Extends(said, said')
    BY <1>1, <1>3, <1>4 DEF Extends
  <1>6. DOMAIN said' \ DOMAIN said = B /\ B \subseteq DOMAIN said'
    BY <1>1, <1>4
  <1>7. ASSUME NEW n \in B
        PROVE  /\ n - L \in 1 .. Len(new) /\ said'[n] = new[n - L] /\ said'[n].at = H + 1
               /\ said'[n].kind = "tool" =>
                    /\ said'[n].of \in Numbers /\ said[said'[n].of].kind = "call"
    <2>1. n - L \in 1 .. Len(new) /\ L + (n - L) = n
      BY <1>1
    <2>2. said'[n] = new[n - L]
      BY <1>3, <2>1
    <2> QED
      BY <2>1, <2>2
  <1>8. \A n \in DOMAIN said : said[n].at \in 1 .. H /\ said'[n] = said[n]
    BY <1>5 DEF Spoken, Extends, Numbers
  <1> HIDE DEF B
  <1>9. \A n \in DOMAIN said' : n \in DOMAIN said \/ n \in B
    BY <1>6
  <1>10. ASSUME NEW i \in 1 .. H PROVE From(i)' = From(i)
    <2>1. i # H + 1
      BY <1>1
    <2> QED
      BY <1>5, <1>6, <1>7, <1>8, <1>9, <2>1 DEF From, Numbers
  <1>11. ASSUME NEW i, i = H + 1 PROVE From(i)' = B
    <2>1. \A n \in DOMAIN said : said[n].at # i
      BY <1>1, <1>8, <1>11
    <2>2. {n \in DOMAIN said' : said'[n].at = i} = B
      BY <1>6, <1>7, <1>8, <1>9, <1>11, <2>1
    <2> QED
      BY <2>2 DEF From, Numbers
  <1>12. Tells(said', told, B)
    <2>1. told \in Seq(Nat)
      <3>1. m.Content \in Seq(Nat) /\ m.ToolCalls \in Seq(Nat)
        BY DEF Messages
      <3> QED
        BY <3>1, ConcatProperties
    <2>2. /\ \A i \in 1 .. Len(told) : told[i] \in B
          /\ \A n \in B : \E i \in 1 .. Len(told) : told[i] = n
          /\ \A i, j \in 1 .. Len(told) : i < j => told[i] # told[j]
      BY DEF Says, B
    <2> HIDE DEF told, H
    <2>3. \A i, j \in 1 .. Len(told) : said'[told[i]].at <= said'[told[j]].at
      <3>1. \A i \in 1 .. Len(told) : said'[told[i]].at = H + 1
        BY <1>7, <2>2
      <3>2. H + 1 <= H + 1
        BY <1>1
      <3> QED
        BY <3>1, <3>2, Zenon
    <2> QED
      BY <1>6, <2>1, <2>2, <2>3 DEF Tells
  <1>13. ASSUME NEW i \in 1 .. H PROVE Fits(i)'
    <2> DEFINE c == history[i].Content
               t == history[i].ToolCalls
    <2>0. history'[i] = history[i] /\ Fits(i) /\ history[i] \in Messages
      BY <1>1, <1>2 DEF Spoken
    <2>1. Tells(said, c \o t, From(i)) /\ c \in Seq(Nat) /\ t \in Seq(Nat)
      BY <2>0 DEF Fits, Messages
    <2>2. Tells(said', c \o t, From(i))
      <3> HIDE DEF c, t
      <3> QED
        BY <1>5, <2>1, TellsStill
    <2>3. /\ \A j \in 1 .. Len(c) : c[j] \in DOMAIN said
          /\ \A j \in 1 .. Len(t) : t[j] \in DOMAIN said
      <3> HIDE DEF c, t
      <3>1. \A k \in 1 .. Len(c \o t) : (c \o t)[k] \in DOMAIN said
        BY <2>1 DEF Tells
      <3>2. \A j \in 1 .. Len(c) : j \in 1 .. Len(c \o t) /\ (c \o t)[j] = c[j]
        BY <2>1
      <3>3. \A j \in 1 .. Len(t) :
              Len(c) + j \in 1 .. Len(c \o t) /\ (c \o t)[Len(c) + j] = t[j]
        BY <2>1
      <3> QED
        BY <3>1, <3>2, <3>3
    <2>4. /\ \A j \in 1 .. Len(c) : said'[c[j]] = said[c[j]]
          /\ \A j \in 1 .. Len(t) : said'[t[j]] = said[t[j]]
      BY <1>8, <2>3
    <2>5. /\ \A j \in 1 .. Len(c) :
               said'[c[j]].kind = IF history[i].Role = "assistant" THEN "text" ELSE history[i].Role
          /\ \A j \in 1 .. Len(t) : said'[t[j]].kind = "call"
          /\ history[i].Role # "assistant" => t = <<>> /\ c # <<>>
      BY <2>0, <2>4 DEF Fits
    <2>6. Tells(said', c \o t, From(i)')
      BY <1>10, <2>2
    <2> HIDE DEF c, t
    <2> QED
      BY <2>0, <2>5, <2>6 DEF Fits, c, t
  <1>14. ASSUME NEW i, i = H + 1 PROVE Fits(i)'
    <2> DEFINE c == m.Content
               t == m.ToolCalls
    <2>1. history'[i] = m /\ From(i)' = B
      BY <1>2, <1>11, <1>14
    <2>2. c \in Seq(Nat) /\ t \in Seq(Nat)
      BY DEF Messages
    <2>3. /\ \A j \in 1 .. Len(c) : c[j] \in B
          /\ \A j \in 1 .. Len(t) : t[j] \in B
      <3>1. \A k \in 1 .. Len(c \o t) : (c \o t)[k] \in B
        BY DEF Says, B
      <3> HIDE DEF c, t
      <3>2. \A j \in 1 .. Len(c) : j \in 1 .. Len(c \o t) /\ (c \o t)[j] = c[j]
        BY <2>2
      <3>3. \A j \in 1 .. Len(t) :
              Len(c) + j \in 1 .. Len(c \o t) /\ (c \o t)[Len(c) + j] = t[j]
        BY <2>2
      <3> QED
        BY <3>1, <3>2, <3>3
    <2>4. /\ \A j \in 1 .. Len(c) : said'[c[j]] = new[c[j] - L]
          /\ \A j \in 1 .. Len(t) : said'[t[j]] = new[t[j] - L]
      BY <1>7, <2>3
    <2>5. /\ \A j \in 1 .. Len(c) :
               said'[c[j]].kind = IF m.Role = "assistant" THEN "text" ELSE m.Role
          /\ \A j \in 1 .. Len(t) : said'[t[j]].kind = "call"
          /\ m.Role # "assistant" => t = <<>> /\ c # <<>>
      BY <2>4 DEF Says
    <2> QED
      BY <1>12, <2>1, <2>5 DEF Fits
  <1>15. ASSUME NEW n \in DOMAIN said'
         PROVE  /\ said'[n].at \in 1 .. Len(history')
                /\ said'[n].kind = "tool" =>
                     /\ said'[n].of \in DOMAIN said' /\ said'[said'[n].of].kind = "call"
                     /\ said'[said'[n].of].at < said'[n].at
    <2>1. CASE n \in DOMAIN said
      <3>1. said'[n] = said[n] /\ said[n].at \in 1 .. Len(history')
        BY <1>1, <1>2, <1>8, <2>1
      <3>2. ASSUME said[n].kind = "tool"
            PROVE  /\ said[n].of \in DOMAIN said /\ said[said[n].of].kind = "call"
                   /\ said[said[n].of].at < said[n].at
        BY <2>1, <3>2 DEF Spoken, Numbers
      <3> QED
        BY <1>5, <1>8, <3>1, <3>2 DEF Extends
    <2>2. CASE n \in B
      <3>1. said'[n].at = H + 1 /\ H + 1 \in 1 .. Len(history')
        BY <1>1, <1>2, <1>7, <2>2
      <3>2. ASSUME said'[n].kind = "tool"
            PROVE  /\ said'[n].of \in DOMAIN said /\ said[said'[n].of].kind = "call"
                   /\ said[said'[n].of].at < H + 1
        <4>1. said'[n].of \in DOMAIN said /\ said[said'[n].of].kind = "call"
          BY <1>7, <2>2, <3>2 DEF Numbers
        <4> QED
          BY <1>1, <1>8, <4>1
      <3> QED
        BY <1>5, <1>8, <3>1, <3>2 DEF Extends
    <2> QED
      BY <1>9, <2>1, <2>2
  <1>16. \A i \in 1 .. Len(history') : Fits(i)'
    <2>1. \A i \in 1 .. Len(history') : i \in 1 .. H \/ i = H + 1
      BY <1>1, <1>2
    <2> QED
      BY <1>13, <1>14, <2>1
  <1>17. Spoken'
    BY <1>2, <1>3, <1>15, <1>16 DEF Spoken, Numbers
  <1>18. \A n \in DOMAIN said' \ DOMAIN said : said'[n].at = H + 1
    BY <1>6, <1>7
  <1> QED
    BY <1>2, <1>3, <1>5, <1>6, <1>17, <1>18 DEF B

\* The things of one kind in an answer, as they are joined by convertResponse.
Picked(output, first, kind) ==
  [i \in DOMAIN output |-> IF output[i] = kind THEN <<first + i - 1>> ELSE <<>>]

OfKind(output, n, kind, k) == {x \in n + 1 .. n + k : output[x - n] = kind}

LEMMA TellsOne ==
  ASSUME NEW f, NEW n \in Nat, n \in DOMAIN f
  PROVE  Tells(f, <<n>>, {n})
  <1>1. <<n>> \in Seq(Nat) /\ Len(<<n>>) = 1 /\ <<n>>[1] = n
    OBVIOUS
  <1>2. \A i, j \in 1 .. 1 : ~(i < j)
    OBVIOUS
  <1> QED
    BY <1>1, <1>2 DEF Tells

LEMMA PickedTells ==
  ASSUME NEW output \in Seq({"text", "call"}), NEW n \in Nat, NEW kind,
         NEW f, DOMAIN f = Nat, \A x, y \in Nat : f[x].at <= f[y].at
  PROVE  Tells(f, FlattenSeq(Picked(output, n + 1, kind)),
               OfKind(output, n, kind, Len(output)))
  <1> DEFINE pieces == Picked(output, n + 1, kind)
             N(k) == OfKind(output, n, kind, k)
             P == [k \in Nat |-> {s \in Seq(Nat) : Tells(f, s, N(k))}]
  <1>0. Len(output) \in Nat /\ DOMAIN output = 1 .. Len(output)
    BY LenProperties
  <1>1. ASSUME NEW i \in 1 .. Len(output)
        PROVE  /\ pieces[i] \in Seq(Nat)
               /\ pieces[i] = IF output[i] = kind THEN <<n + i>> ELSE <<>>
    <2>1. (n + 1) + i - 1 = n + i /\ n + i \in Nat
      BY <1>0
    <2> QED
      BY <1>0, <2>1 DEF Picked
  <1>2. pieces \in Seq(Seq(Nat)) /\ Len(pieces) = Len(output)
    <2>1. pieces = [i \in 1 .. Len(output) |-> pieces[i]]
      BY <1>0 DEF Picked
    <2> HIDE DEF pieces
    <2> QED
      BY <1>0, <1>1, <2>1
  <1>3. <<>> \in P[0]
    <2>1. N(0) = {}
      BY DEF OfKind
    <2>2. Tells(f, <<>>, {}) /\ <<>> \in Seq(Nat)
      BY TellsNothing
    <2> QED
      BY <2>1, <2>2
  <1>4. ASSUME NEW k \in Nat, NEW s \in Seq(Nat), s \in P[k], k < Len(pieces)
        PROVE  s \o pieces[k + 1] \in P[k + 1]
    <2>1. k + 1 \in 1 .. Len(output) /\ n + (k + 1) \in Nat
      BY <1>0, <1>2, <1>4
    <2>2. Tells(f, s, N(k))
      BY <1>4
    <2>3. Tells(f, s \o pieces[k + 1], N(k + 1))
      <3>0. \A x \in n + 1 .. n + (k + 1) : x \in n + 1 .. n + k \/ x = n + (k + 1)
        OBVIOUS
      <3>1. CASE output[k + 1] = kind
        <4>1. pieces[k + 1] = <<n + (k + 1)>>
          BY <1>1, <2>1, <3>1
        <4>2. N(k + 1) = N(k) \cup {n + (k + 1)}
          <5>1. (n + (k + 1)) - n = k + 1 /\ n + (k + 1) \in n + 1 .. n + (k + 1)
            OBVIOUS
          <5>2. \A x \in n + 1 .. n + k : x \in n + 1 .. n + (k + 1)
            OBVIOUS
          <5> QED
            BY <3>0, <3>1, <5>1, <5>2 DEF OfKind
        <4>3. \A x \in N(k), y \in {n + (k + 1)} : x # y /\ f[x].at <= f[y].at
          BY <2>1 DEF OfKind
        <4>4. Tells(f, <<n + (k + 1)>>, {n + (k + 1)})
          BY <2>1, TellsOne
        <4> HIDE DEF N, pieces
        <4>5. Tells(f, s \o <<n + (k + 1)>>, N(k) \cup {n + (k + 1)})
          BY <2>2, <4>3, <4>4, TellsBoth
        <4> QED
          BY <4>1, <4>2, <4>5
      <3>2. CASE output[k + 1] # kind
        <4>1. pieces[k + 1] = <<>>
          BY <1>1, <2>1, <3>2
        <4>2. N(k + 1) = N(k)
          <5>1. (n + (k + 1)) - n = k + 1
            OBVIOUS
          <5>2. \A x \in n + 1 .. n + k : x \in n + 1 .. n + (k + 1)
            OBVIOUS
          <5> QED
            BY <3>0, <3>2, <5>1, <5>2 DEF OfKind
        <4>3. s \o <<>> = s
          BY ConcatEmptySeq
        <4> HIDE DEF N, pieces
        <4> QED
          BY <2>2, <4>1, <4>2, <4>3
      <3> QED
        BY <3>1, <3>2
    <2>4. s \o pieces[k + 1] \in Seq(Nat)
      BY <1>1, <2>1, ConcatProperties
    <2>5. P[k + 1] = {x \in Seq(Nat) : Tells(f, x, N(k + 1))}
      OBVIOUS
    <2> HIDE DEF N, pieces, P
    <2> QED
      BY <2>3, <2>4, <2>5
  <1>5. FlattenSeq(pieces) \in P[Len(output)]
    <2> HIDE DEF P, pieces
    <2> QED
      BY <1>2, <1>3, <1>4, JoinInduction
  <1> QED
    BY <1>0, <1>5

LEMMA ConvertIs ==
  ASSUME NEW output \in Seq({"text", "call"}), NEW n \in Nat,
         NEW new, Len(new) = Len(output),
         \A i \in 1 .. Len(output) : new[i].kind = output[i]
  PROVE  /\ ConvertResponse(output, n + 1) \in Messages
         /\ Says(ConvertResponse(output, n + 1), new, n)
  <1> DEFINE f == [x \in Nat |-> [at |-> 0]]
             m == ConvertResponse(output, n + 1)
             c == FlattenSeq(Picked(output, n + 1, "text"))
             t == FlattenSeq(Picked(output, n + 1, "call"))
             C == OfKind(output, n, "text", Len(output))
             T == OfKind(output, n, "call", Len(output))
  <1>0. Len(output) \in Nat /\ \A i \in 1 .. Len(output) : output[i] \in {"text", "call"}
    BY LenProperties, ElementOfSeq
  <1>1. m = [Role |-> "assistant", Content |-> c, ToolCalls |-> t, ToolCallID |-> Zero]
    BY DEF ConvertResponse, Message, Picked
  <1>2. DOMAIN f = Nat /\ \A x, y \in Nat : f[x].at <= f[y].at
    OBVIOUS
  <1>3. Tells(f, c, C) /\ Tells(f, t, T)
    <2> HIDE DEF f
    <2> QED
      BY <1>2, PickedTells
  <1>4. C \cup T = n + 1 .. n + Len(output) /\ \A x \in C, y \in T : x # y
    <2>1. \A x \in n + 1 .. n + Len(output) : x - n \in 1 .. Len(output) /\ x \in Nat
      BY <1>0
    <2> QED
      BY <1>0, <2>1 DEF OfKind
  <1>5. \A x \in C, y \in T : x # y /\ f[x].at <= f[y].at
    <2>1. C \subseteq Nat /\ T \subseteq Nat
      BY <1>0 DEF OfKind
    <2> HIDE DEF C, T, f
    <2> QED
      BY <1>2, <1>4, <2>1
  <1> HIDE DEF f, c, t, C, T
  <1>6. Tells(f, c \o t, C \cup T)
    BY <1>3, <1>5, TellsBoth
  <1>7. c \in Seq(Nat) /\ t \in Seq(Nat)
    BY <1>3 DEF Tells
  <1>8. m \in Messages
    BY <1>1, <1>7 DEF Messages, Roles
  <1>9. \A x \in n + 1 .. n + Len(output) : new[x - n].kind = output[x - n]
    BY <1>0
  <1>10. \A j \in 1 .. Len(c) : new[c[j] - n].kind = "text"
    <2>1. \A j \in 1 .. Len(c) : c[j] \in C
      BY <1>3 DEF Tells
    <2>2. \A x \in C : new[x - n].kind = "text"
      BY <1>9 DEF C, OfKind
    <2> QED
      BY <2>1, <2>2
  <1>11. \A j \in 1 .. Len(t) : new[t[j] - n].kind = "call"
    <2>1. \A j \in 1 .. Len(t) : t[j] \in T
      BY <1>3 DEF Tells
    <2>2. \A x \in T : new[x - n].kind = "call"
      BY <1>9 DEF T, OfKind
    <2> QED
      BY <2>1, <2>2
  <1>12. /\ \A i \in 1 .. Len(c \o t) : (c \o t)[i] \in n + 1 .. n + Len(new)
         /\ \A k \in n + 1 .. n + Len(new) : \E i \in 1 .. Len(c \o t) : (c \o t)[i] = k
         /\ \A i, j \in 1 .. Len(c \o t) : i < j => (c \o t)[i] # (c \o t)[j]
    BY <1>4, <1>6 DEF Tells
  <1>13. m.Content = c /\ m.ToolCalls = t /\ m.Role = "assistant"
    BY <1>1
  <1> HIDE DEF m
  <1>14. Says(m, new, n)
    <2> DEFINE told == m.Content \o m.ToolCalls
    <2>1. told = c \o t
      BY <1>13
    <2>2. /\ \A i \in 1 .. Len(told) : told[i] \in n + 1 .. n + Len(new)
          /\ \A k \in n + 1 .. n + Len(new) : \E i \in 1 .. Len(told) : told[i] = k
          /\ \A i, j \in 1 .. Len(told) : i < j => told[i] # told[j]
      <3> HIDE DEF told
      <3> QED
        BY <1>12, <2>1
    <2>3. /\ \A j \in 1 .. Len(m.Content) :
               new[m.Content[j] - n].kind = IF m.Role = "assistant" THEN "text" ELSE m.Role
          /\ \A j \in 1 .. Len(m.ToolCalls) : new[m.ToolCalls[j] - n].kind = "call"
          /\ m.Role # "assistant" => m.ToolCalls = <<>> /\ m.Content # <<>>
      BY <1>10, <1>11, <1>13
    <2> QED
      BY <2>2, <2>3 DEF Says
  <1> QED
    BY <1>8, <1>14 DEF m

(***************************************************************************)
(* Every step keeps the invariant.                                         *)
(***************************************************************************)
\* What a server has stored is not touched by what is said after it.
LEMMA StoredStill ==
  ASSUME Known, Stored, Len(history) \in Nat, Extends(said, said'),
         \A n \in DOMAIN said' \ DOMAIN said : said'[n].at = Len(history) + 1,
         stored' = stored, rid' = rid, style' = style, known' = known
  PROVE  Stored'
  <1>1. \A n \in DOMAIN said' \ DOMAIN said : ~(said'[n].at <= known)
    <2>1. ~(Len(history) + 1 <= known)
      BY DEF Known
    <2> QED
      BY <2>1
  <1>2. Plain(said', known) = Plain(said, known)
    BY <1>1, PlainStill
  <1>3. ASSUME NEW r \in DOMAIN stored
        PROVE  /\ r = rid /\ style # "whole"
               /\ style = "new" => Tells(said', stored[r], Plain(said', known))
               /\ Covers(said', stored[r], known)
    <2>1. /\ r = rid /\ style # "whole"
          /\ style = "new" => Tells(said, stored[r], Plain(said, known))
          /\ Covers(said, stored[r], known)
      BY DEF Stored
    <2>2. style = "new" => Tells(said', stored[r], Plain(said', known))
      BY <1>2, <2>1, TellsStill
    <2>3. Covers(said', stored[r], known)
      BY <1>1, <2>1, CoversStill
    <2> QED
      BY <2>1, <2>2, <2>3
  <1> QED
    BY <1>3 DEF Stored

LEMMA WriteKeeps ==
  ASSUME TalkInv, NEW role \in {"user", "system", "tool"}, NEW of \in Nat \cup {Zero},
         role = "tool" => of \in Numbers /\ said[of].kind = "call",
         Write(role, of)
  PROVE  TalkInv'
  <1> DEFINE H == Len(history)
             L == Len(said)
             saying == [kind |-> role, of |-> of, at |-> Len(history) + 1]
             new == <<saying>>
             m == Message(role, <<Len(said) + 1>>, <<>>, of)
  <1>0. /\ Spoken /\ Known /\ Stored /\ H \in Nat /\ L \in Nat
        /\ history \in Seq(Messages) /\ said \in Seq(Sayings)
    BY LenProperties DEF TalkInv, Spoken
  <1>1. /\ place' = "talk" /\ history' = Append(history, m) /\ said' = Append(said, saying)
        /\ style' = style /\ preset' = preset /\ known' = known /\ rid' = rid
        /\ req' = req /\ stored' = stored
    BY DEF Write, caller
  <1>2. m \in Messages
    BY <1>0 DEF Message, Messages, Roles
  <1>3. saying \in Sayings
    BY <1>0 DEF Sayings
  <1>4. /\ new \in Seq(Sayings) /\ said' = said \o new /\ Len(new) = 1 /\ new[1] = saying
        /\ saying.at = Len(history) + 1 /\ saying.kind = role /\ saying.of = of
    <2>1. saying.at = Len(history) + 1 /\ saying.kind = role /\ saying.of = of
      OBVIOUS
    <2> HIDE DEF saying
    <2>2. new \in Seq(Sayings) /\ Len(new) = 1 /\ new[1] = saying
      BY <1>3
    <2>3. Append(said, saying) = said \o <<saying>>
      BY <1>0, <1>3, AppendIsConcat
    <2> QED
      BY <1>1, <2>1, <2>2, <2>3
  <1>5. Says(m, new, Len(said))
    <2>1. /\ m.Content = <<L + 1>> /\ m.ToolCalls = <<>> /\ m.Role = role
          /\ <<L + 1>> \o <<>> = <<L + 1>>
      BY <1>0 DEF Message
    <2>2. L + 1 \in L + 1 .. L + 1 /\ (L + 1) - L = 1 /\ \A k \in L + 1 .. L + 1 : k = L + 1
      BY <1>0
    <2>3. Len(<<L + 1>>) = 1 /\ <<L + 1>>[1] = L + 1 /\ Len(<<>>) = 0 /\ <<L + 1>> # <<>>
      BY <1>0
    <2>4. \A i \in 1 .. 1 : i = 1
      OBVIOUS
    <2> HIDE DEF m, new, saying
    <2>5. \A i, j \in 1 .. 1 : ~(i < j)
      BY <2>4
    <2>6. \A i \in 1 .. 0 : FALSE
      OBVIOUS
    <2> QED
      BY <1>4, <2>1, <2>2, <2>3, <2>4, <2>5, <2>6 DEF Says
  <1>6. \A j \in 1 .. Len(new) :
          /\ new[j].at = Len(history) + 1
          /\ new[j].kind = "tool" => new[j].of \in Numbers /\ said[new[j].of].kind = "call"
    <2>1. \A j \in 1 .. Len(new) : new[j] = saying
      BY <1>4
    <2> HIDE DEF new, saying
    <2> QED
      BY <1>4, <2>1
  <1> HIDE DEF new, saying, m
  <1>7. /\ Spoken' /\ Extends(said, said') /\ Len(history') = H + 1
        /\ \A i \in 1 .. H : history'[i] = history[i]
        /\ \A n \in DOMAIN said' \ DOMAIN said : said'[n].at = Len(history) + 1
    BY <1>0, <1>1, <1>2, <1>4, <1>5, <1>6, Longer
  <1>8. history'[H + 1] = m /\ m.Role = role
    BY <1>0, <1>1, <1>2 DEF m, Message
  <1>9. Known'
    <2>1. known \in 0 .. Len(history')
      BY <1>0, <1>7 DEF Known
    <2>2. ASSUME NEW i \in known + 1 .. Len(history') PROVE history'[i].Role # "assistant"
      <3>1. (i \in known + 1 .. H /\ i \in 1 .. H) \/ i = H + 1
        BY <1>0, <1>7, <2>2 DEF Known
      <3>2. CASE i \in known + 1 .. H /\ i \in 1 .. H
        BY <1>0, <1>7, <3>2 DEF Known
      <3>3. CASE i = H + 1
        BY <1>8, <3>3
      <3> QED
        BY <3>1, <3>2, <3>3
    <2> QED
      BY <1>1, <2>1, <2>2 DEF Known
  <1>10. Stored'
    BY <1>0, <1>1, <1>7, StoredStill
  <1>11. Requested'
    BY <1>1 DEF Requested
  <1> QED
    BY <1>1, <1>7, <1>9, <1>10, <1>11 DEF TalkInv

\* A request chains to the response that the caller has, if it does.
LEMMA Chained ==
  ASSUME Requested, place = "asked"
  PROVE  /\ req.dialect \in Dialects
         /\ req.sent.prev # Zero => req.sent.prev = rid
  <1>1. PICK d \in Dialects :
          req = [dialect |-> d, sent |-> BuildRequest(d, MessagesFor(d), OptionsFor(d))]
    BY DEF Requested
  <1> DEFINE o == OptionsFor(d)
             messages == MessagesFor(d)
  <1>2. o["PreviousResponseID"] = IF ChainsTo(d) THEN rid ELSE Zero
    BY DEF OptionsFor, ToChatOptions, Fields
  <1>3. req.dialect = d /\ req.sent = BuildRequest(d, messages, o)
    BY <1>1
  <1> HIDE DEF o, messages
  <1>4. d \in Dialects
    BY <1>1
  <1>5. req.sent.prev = IF d = "responses" THEN o["PreviousResponseID"] ELSE Zero
    <2>1. BuildRequest(d, messages, o).prev
            = IF d = "responses" THEN o["PreviousResponseID"] ELSE Zero
      BY <1>4, RequestIs
    <2> QED
      BY <1>3, <2>1
  <1> QED
    BY <1>2, <1>3, <1>4, <1>5

LEMMA AnswerKeeps ==
  ASSUME TalkInv, NEW output \in Seq({"text", "call"}), Answer(output)
  PROVE  TalkInv'
  <1> DEFINE H == Len(history)
             L == Len(said)
             seen == Seen
             told == [i \in DOMAIN output |-> Len(said) + i]
             new == [i \in DOMAIN output |->
                       [kind |-> output[i], of |-> Zero, at |-> Len(history) + 1]]
             m == ConvertResponse(output, Len(said) + 1)
             B == L + 1 .. L + Len(output)
  <1>0. /\ Spoken /\ Known /\ Stored /\ Requested /\ H \in Nat /\ L \in Nat /\ CanAnswer
        /\ place = "asked" /\ history \in Seq(Messages) /\ said \in Seq(Sayings)
    BY LenProperties DEF TalkInv, Spoken, Answer, CanAnswer
  <1>1. /\ place' = "talk" /\ history' = Append(history, m) /\ said' = said \o new
        /\ style' = style /\ known' = Len(history) + 1
        /\ stored' = IF req.dialect = "responses" /\ style # "whole"
                     THEN [i \in {turns + 1} |-> seen \o told] ELSE <<>>
        /\ rid' = IF style = "whole" THEN Zero ELSE ResponseID(req.dialect, turns + 1)
    BY Zenon DEF Answer, caller
  <1>2. /\ DOMAIN output = 1 .. Len(output) /\ Len(output) \in Nat
        /\ \A i \in 1 .. Len(output) : output[i] \in {"text", "call"}
    BY LenProperties, ElementOfSeq
  <1>3. ASSUME NEW i \in 1 .. Len(output)
        PROVE  /\ new[i] \in Sayings /\ new[i].kind = output[i] /\ new[i].at = Len(history) + 1
               /\ new[i].kind # "tool"
    <2>1. new[i] = [kind |-> output[i], of |-> Zero, at |-> Len(history) + 1]
      BY <1>2
    <2>2. output[i] \in {"text", "call"} /\ Len(history) + 1 \in Nat
      BY <1>0, <1>2
    <2> QED
      BY <2>1, <2>2 DEF Sayings
  <1>4. new \in Seq(Sayings) /\ Len(new) = Len(output)
    <2>1. new = [i \in 1 .. Len(output) |-> new[i]]
      BY <1>2
    <2> HIDE DEF new
    <2> QED
      BY <1>2, <1>3, <2>1
  <1> HIDE DEF new
  <1>5. m \in Messages /\ Says(m, new, Len(said))
    BY <1>0, <1>3, <1>4, ConvertIs
  <1> HIDE DEF m
  <1>6. /\ Spoken' /\ Extends(said, said') /\ Len(history') = H + 1
        /\ DOMAIN said' \ DOMAIN said = B
        /\ \A j \in 1 .. Len(new) : said'[L + j] = new[j]
        /\ \A n \in DOMAIN said' \ DOMAIN said : said'[n].at = Len(history) + 1
    BY <1>0, <1>1, <1>3, <1>4, <1>5, Longer
  <1>7. \A n \in B : said'[n].kind \in {"text", "call"} /\ said'[n].at = H + 1
    <2>1. ASSUME NEW n \in B PROVE said'[n].kind \in {"text", "call"} /\ said'[n].at = H + 1
      <3>1. n - L \in 1 .. Len(output) /\ L + (n - L) = n
        BY <1>0, <1>2
      <3>2. said'[n] = new[n - L]
        BY <1>4, <1>6, <3>1
      <3> QED
        BY <1>2, <1>3, <3>1, <3>2
    <2> QED
      BY <2>1
  <1>8. Known'
    BY <1>0, <1>1, <1>6 DEF Known
  <1>9. Requested'
    BY <1>1 DEF Requested
  <1>10. Tells(said', told, B)
    <2>1. told \in Seq(Nat) /\ Len(told) = Len(output)
      BY <1>0, <1>2
    <2>2. \A i \in 1 .. Len(output) : told[i] = L + i /\ told[i] \in B
      BY <1>0, <1>2
    <2>3. \A n \in B : n - L \in 1 .. Len(output) /\ told[n - L] = n
      BY <1>0, <1>2
    <2>4. \A i, j \in 1 .. Len(output) : i < j => told[i] # told[j]
      BY <1>0, <1>2
    <2>5. B \subseteq DOMAIN said' /\ H + 1 <= H + 1
      BY <1>0, <1>6
    <2> HIDE DEF told, B, H
    <2>6. \A i, j \in 1 .. Len(output) : said'[told[i]].at <= said'[told[j]].at
      BY <1>7, <2>2, <2>5, Zenon
    <2> QED
      BY <2>1, <2>2, <2>3, <2>4, <2>5, <2>6 DEF Tells
  <1>11. ASSUME req.dialect = "responses", style # "whole"
         PROVE  /\ style = "new" => Tells(said', seen \o told, Plain(said', H + 1))
                /\ Covers(said', seen \o told, H + 1)
    <2>1. Covers(said, seen, H) /\ (style = "new" => Tells(said, seen, Plain(said, H)))
      BY <1>0, <1>11, Seeing
    <2>2. ~(H + 1 <= H) /\ H + 1 <= H + 1
      BY <1>0
    <2>3. Plain(said', H) = Plain(said, H)
      <3>1. \A n \in DOMAIN said' \ DOMAIN said : ~(said'[n].at <= H)
        BY <1>6, <2>2
      <3> QED
        BY <1>6, <3>1, PlainStill
    <2>4. \A n \in DOMAIN said : said[n].at \in 1 .. H /\ said'[n] = said[n]
      BY <1>0, <1>6 DEF Spoken, Numbers, Extends
    <2>5. \A n \in DOMAIN said' : n \in DOMAIN said \/ n \in B
      BY <1>6
    <2>6. Plain(said', H + 1) = Plain(said, H) \cup B
      <3>1. \A n \in DOMAIN said : said[n].at <= H /\ said[n].at <= H + 1
        BY <1>0, <2>4
      <3>2. B \subseteq DOMAIN said' /\ DOMAIN said \subseteq DOMAIN said'
        BY <1>6 DEF Extends
      <3> HIDE DEF B, H
      <3>3. \A n \in B : n \in DOMAIN said' /\ said'[n].at <= H + 1 /\ said'[n].kind # "system"
        BY <1>7, <2>2, <3>2
      <3> QED
        BY <2>4, <2>5, <3>1, <3>2, <3>3 DEF Plain
    <2>7. ASSUME style = "new" PROVE Tells(said', seen \o told, Plain(said', H + 1))
      <3>1. Tells(said', seen, Plain(said, H))
        BY <1>6, <2>1, <2>7, TellsStill
      <3>2. \A x \in Plain(said, H), y \in B : x # y /\ said'[x].at <= said'[y].at
        <4>1. \A x \in Plain(said, H) : said'[x].at \in 1 .. H
          BY <2>4 DEF Plain
        <4>2. \A x \in Plain(said, H) : x \notin B
          BY <1>6 DEF Plain
        <4>3. \A x \in 1 .. H : x <= H + 1
          BY <1>0
        <4> HIDE DEF B, H
        <4> QED
          BY <1>7, <4>1, <4>2, <4>3
      <3> HIDE DEF seen, told, B, H
      <3> QED
        BY <1>10, <2>6, <3>1, <3>2, TellsBoth
    <2>8. Covers(said', seen, H)
      <3>1. \A n \in DOMAIN said' \ DOMAIN said : ~(said'[n].at <= H)
        BY <1>6, <2>2
      <3> HIDE DEF seen, H
      <3> QED
        BY <1>6, <2>1, <3>1, CoversStill
    <2>9. Covers(said', seen \o told, H + 1)
      <3>1. \A n \in DOMAIN said' : said'[n].at \in Nat
        BY <1>0, <1>7, <2>4, <2>5
      <3>2. \A n \in B : said'[n].at = H + 1 /\ said'[n].kind # "tool"
        BY <1>7
      <3>3. Plain(said', H + 1) \subseteq Plain(said', H) \cup B
        BY <2>3, <2>6
      <3> HIDE DEF seen, told, B, H
      <3> QED
        BY <1>0, <1>10, <2>8, <3>1, <3>2, <3>3, CoversAnswer
    <2> QED
      BY <2>7, <2>9
  <1>12. Stored'
    <2>1. CASE req.dialect = "responses" /\ style # "whole"
      <3>1. DOMAIN stored' = {turns + 1} /\ stored'[turns + 1] = seen \o told /\ rid' = turns + 1
        BY <1>1, <2>1 DEF ResponseID
      <3> HIDE DEF seen, told
      <3> QED
        BY <1>1, <1>11, <2>1, <3>1 DEF Stored
    <2>2. CASE ~(req.dialect = "responses" /\ style # "whole")
      <3>1. DOMAIN stored' = {}
        BY <1>1, <2>2
      <3> QED
        BY <3>1 DEF Stored
    <2> QED
      BY <2>1, <2>2
  <1>13. style' \in {"whole", "new", "all"} /\ place' \in {"talk", "asked"}
    BY <1>1 DEF TalkInv
  <1> QED
    BY <1>6, <1>8, <1>9, <1>12, <1>13 DEF TalkInv

LEMMA TalkInvInit == TalkInit => TalkInv
  <1> SUFFICES ASSUME TalkInit PROVE TalkInv
    OBVIOUS
  <1>1. /\ history = <<>> /\ said = <<>> /\ known = 0 /\ place = "talk" /\ stored = <<>>
        /\ style \in {"whole", "new", "all"}
    BY DEF TalkInit
  <1>2. /\ <<>> \in Seq(Messages) /\ <<>> \in Seq(Sayings) /\ Len(<<>>) = 0
        /\ DOMAIN <<>> = {} /\ (\A i \in 1 .. 0 : FALSE) /\ (\A i \in 0 + 1 .. 0 : FALSE)
    OBVIOUS
  <1>3. Spoken
    BY <1>1, <1>2 DEF Spoken, Numbers
  <1>4. Known
    BY <1>1, <1>2 DEF Known
  <1>5. Requested /\ Stored
    BY <1>1, <1>2 DEF Requested, Stored
  <1> QED
    BY <1>1, <1>3, <1>4, <1>5 DEF TalkInv

LEMMA TalkInvStep ==
  ASSUME TalkInv, [TalkNext]_talkVars
  PROVE  TalkInv'
  <1>1. CASE Say
    <2>1. Write("user", Zero)
      BY <1>1 DEF Say
    <2> QED
      BY <2>1, WriteKeeps
  <1>2. CASE Instruct
    <2>1. Write("system", Zero)
      BY <1>2 DEF Instruct
    <2> QED
      BY <2>1, WriteKeeps
  <1>3. CASE \E n \in DOMAIN said : RunTool(n)
    <2>1. PICK n \in DOMAIN said : RunTool(n)
      BY <1>3
    <2>2. Write("tool", n) /\ said[n].kind = "call"
      BY <2>1 DEF RunTool, Pending
    <2>3. n \in Nat
      BY DEF TalkInv, Spoken
    <2> QED
      BY <2>2, <2>3, WriteKeeps DEF Numbers
  <1>4. CASE Asks
    <2>1. PICK d \in Dialects : Ask(d)
      BY <1>4 DEF Asks
    <2>2. /\ req' = [dialect |-> d, sent |-> BuildRequest(d, MessagesFor(d), OptionsFor(d))]
          /\ place' = "asked" /\ style' = style /\ preset' = preset /\ history' = history
          /\ known' = known /\ rid' = rid /\ stored' = stored /\ said' = said
      BY <2>1, Zenon DEF Ask, caller, MessagesFor, OptionsFor, ChainsTo
    <2>3. MessagesFor(d)' = MessagesFor(d) /\ OptionsFor(d)' = OptionsFor(d)
      BY <2>2 DEF MessagesFor, OptionsFor, ChainsTo, Fresh
    <2>4. Requested'
      BY <2>2, <2>3 DEF Requested
    <2>5. Spoken' /\ Known' /\ Stored'
      BY <2>2 DEF TalkInv, Spoken, Fits, From, Numbers, Known, Stored
    <2> QED
      BY <2>2, <2>4, <2>5 DEF TalkInv
  <1>5. CASE Answers
    <2>1. PICK output \in Outputs : Answer(output)
      BY <1>5 DEF Answers
    <2>2. output \in Seq({"text", "call"})
      BY <2>1, OutputsAssumption
    <2> QED
      BY <2>1, <2>2, AnswerKeeps
  <1>6. CASE Lose
    <2>1. /\ place' = "talk" /\ style' = style /\ history' = history
          /\ known' = known /\ rid' = rid /\ stored' = stored /\ said' = said
      BY <1>6 DEF Lose, caller
    <2> QED
      BY <2>1 DEF TalkInv, Spoken, Fits, From, Numbers, Known, Stored, Requested
  <1>7. CASE Expire
    <2>1. /\ place' = place /\ style' = style /\ preset' = preset /\ history' = history
          /\ known' = known /\ rid' = rid /\ req' = req /\ said' = said
          /\ stored' = <<>>
      BY <1>7 DEF Expire, caller
    <2>2. Requested'
      BY <2>1 DEF TalkInv, Requested, MessagesFor, OptionsFor, ChainsTo, Fresh
    <2>3. Stored'
      BY <2>1 DEF Stored
    <2> QED
      BY <2>1, <2>2, <2>3 DEF TalkInv, Spoken, Fits, From, Numbers, Known
  <1>8. CASE Refuse
    <2>1. /\ place' = "talk" /\ style' = style /\ history' = history
          /\ known' = known /\ stored' = stored /\ said' = said
          /\ place = "asked" /\ ~CanAnswer
      BY <1>8 DEF Refuse, caller
    <2>2. req.sent.prev \notin DOMAIN stored /\ req.sent.prev = rid
      BY <2>1, Chained DEF CanAnswer, TalkInv
    <2>3. DOMAIN stored = {}
      BY <2>2 DEF TalkInv, Stored
    <2>4. Stored'
      BY <2>1, <2>3 DEF Stored
    <2> QED
      BY <2>1, <2>4 DEF TalkInv, Spoken, Fits, From, Numbers, Known, Requested
  <1>9. CASE UNCHANGED talkVars
    <2>1. /\ place' = place /\ style' = style /\ preset' = preset /\ history' = history
          /\ known' = known /\ rid' = rid /\ req' = req /\ said' = said /\ stored' = stored
      BY <1>9 DEF talkVars, caller
    <2>2. Requested'
      BY <2>1 DEF TalkInv, Requested, MessagesFor, OptionsFor, ChainsTo, Fresh
    <2> QED
      BY <2>1, <2>2 DEF TalkInv, Spoken, Fits, From, Numbers, Known, Stored
  <1> QED
    BY <1>1, <1>2, <1>3, <1>4, <1>5, <1>6, <1>7, <1>8, <1>9 DEF TalkNext

LEMMA TalkInvAlways == TalkSpec => []TalkInv
  <1>1. TalkInv /\ [TalkNext]_talkVars => TalkInv'
    BY TalkInvStep
  <1> QED
    BY <1>1, TalkInvInit, PTL DEF TalkSpec

\* Whichever provider each request goes to, and whatever was lost before, the model sees
\* all of the conversation, in order and once.
THEOREM NothingIsForgotten == TalkSpec => []WholeConversation
  BY TalkInvAlways, TalkInvWhole, PTL

\* A tool call is before the model once, and ahead of any result of it.
THEOREM CallsBeforeResults == TalkSpec => []ResultsFindTheirCalls
  BY TalkInvAlways, TalkInvResults, PTL

(***************************************************************************)
(* Instructions.                                                           *)
(***************************************************************************)
Among(x, s) == \E i \in 1 .. Len(s) : s[i] = x

\* Nothing is lost when sequences are joined.
LEMMA JoinHas ==
  ASSUME NEW T, NEW seqs \in Seq(Seq(T)), NEW k \in 1 .. Len(seqs), NEW x,
         Among(x, seqs[k])
  PROVE  Among(x, FlattenSeq(seqs))
  <1> DEFINE Holds(s) == \E i \in 1 .. Len(s) : s[i] = x
             P == [n \in Nat |-> {s \in Seq(T) : k <= n => Holds(s)}]
  <1>1. <<>> \in P[0]
    <2>1. ~(k <= 0) /\ <<>> \in Seq(T)
      OBVIOUS
    <2> QED
      BY <2>1
  <1>2. ASSUME NEW n \in Nat, NEW s \in Seq(T), s \in P[n], n < Len(seqs)
        PROVE  s \o seqs[n + 1] \in P[n + 1]
    <2> DEFINE t == seqs[n + 1]
    <2>0. t \in Seq(T) /\ Len(s) \in Nat /\ Len(t) \in Nat /\ (k <= n => Holds(s))
      BY <1>2
    <2> HIDE DEF t
    <2>1. /\ s \o t \in Seq(T) /\ Len(s \o t) = Len(s) + Len(t)
          /\ \A i \in 1 .. Len(s) : i \in 1 .. Len(s \o t) /\ (s \o t)[i] = s[i]
          /\ \A j \in 1 .. Len(t) :
               Len(s) + j \in 1 .. Len(s \o t) /\ (s \o t)[Len(s) + j] = t[j]
      BY <2>0
    <2>2. ASSUME k <= n + 1 PROVE Holds(s \o t)
      <3>1. k <= n \/ k = n + 1
        BY <2>2
      <3>2. CASE k <= n
        <4>1. PICK i \in 1 .. Len(s) : s[i] = x
          BY <2>0, <3>2
        <4> QED
          BY <2>1, <4>1
      <3>3. CASE k = n + 1
        <4>1. PICK j \in 1 .. Len(t) : t[j] = x
          BY <3>3 DEF t, Among
        <4> QED
          BY <2>1, <4>1
      <3> QED
        BY <3>1, <3>2, <3>3
    <2>3. P[n + 1] = {u \in Seq(T) : k <= n + 1 => Holds(u)}
      OBVIOUS
    <2> HIDE DEF P, Holds
    <2> QED
      BY <2>1, <2>2, <2>3 DEF t
  <1>3. FlattenSeq(seqs) \in P[Len(seqs)] /\ FlattenSeq(seqs) \in Seq(T)
    <2> HIDE DEF P
    <2> QED
      BY <1>1, <1>2, JoinInduction
  <1>4. Len(seqs) \in Nat /\ k <= Len(seqs)
    BY LenProperties
  <1> QED
    BY <1>3, <1>4 DEF Among

LEMMA FirstNatural ==
  ASSUME NEW S, S \subseteq Nat, S # {}
  PROVE  Min(S) \in S
  <1>1. PICK m \in S : \A n \in S : ~(<<n, m>> \in OpToRel(<, Nat))
    BY WFMin, NatLessThanWellFounded
  <1>2. ASSUME NEW n \in S PROVE m <= n
    <2>1. ~(n < m)
      BY <1>1 DEF OpToRel
    <2> QED
      BY <2>1
  <1> QED
    BY <1>1, <1>2 DEF Min

\* The first system message of the history.
LEMMA FirstSystem ==
  ASSUME NEW i \in 1 .. Len(history), history[i].Role = "system", Len(history) \in Nat
  PROVE  LET first == SelectInSeq(history, IsSystem) IN
         first \in 1 .. Len(history) /\ history[first].Role = "system"
  <1> DEFINE S == {k \in 1 .. Len(history) : IsSystem(history[k])}
  <1>1. i \in S /\ S \subseteq Nat
    BY DEF IsSystem
  <1>2. SelectInSeq(history, IsSystem) = Min(S)
    BY <1>1 DEF SelectInSeq
  <1> HIDE DEF S
  <1>3. Min(S) \in S
    BY <1>1, FirstNatural
  <1> QED
    BY <1>2, <1>3 DEF S, IsSystem

\* What the system says is the text of a system message.
LEMMA SystemSays ==
  ASSUME Spoken, NEW n \in Numbers, said[n].kind = "system"
  PROVE  /\ said[n].at \in 1 .. Len(history)
         /\ history[said[n].at].Role = "system"
         /\ Among(n, history[said[n].at].Content)
  <1> DEFINE i == said[n].at
             c == history[i].Content
             t == history[i].ToolCalls
  <1>1. i \in 1 .. Len(history) /\ history[i].Role = "system"
    BY KindOf DEF Spoken
  <1>2. t = <<>> /\ Tells(said, c \o t, From(i)) /\ c \in Seq(Nat)
    <2>1. Fits(i) /\ history[i] \in Messages
      BY <1>1 DEF Spoken
    <2> QED
      BY <1>1, <2>1 DEF Fits, Messages
  <1>3. c \o t = c
    BY <1>2, ConcatEmptySeq
  <1>4. n \in From(i)
    BY DEF From
  <1> HIDE DEF c, t, i
  <1>5. \E j \in 1 .. Len(c) : c[j] = n
    BY <1>2, <1>3, <1>4 DEF Tells
  <1> QED
    BY <1>1, <1>5 DEF c, i, Among

\* What the request that the server has is made of.
LEMMA AskedWith ==
  ASSUME TalkInv, place = "asked"
  PROVE  \E d \in Dialects :
           /\ req.dialect = d
           /\ req.sent = BuildRequest(d, MessagesFor(d), OptionsFor(d))
           /\ req.sent.prev # Zero <=> ChainsTo(d)
           /\ Setting(OptionsFor(d)) = Setting(ToChatOptions(preset))
  <1>1. PICK d \in Dialects :
          req = [dialect |-> d, sent |-> BuildRequest(d, MessagesFor(d), OptionsFor(d))]
    BY DEF TalkInv, Requested
  <1> DEFINE o == OptionsFor(d)
             messages == MessagesFor(d)
  <1>2. /\ o["PreviousResponseID"] = IF ChainsTo(d) THEN rid ELSE Zero
        /\ o["SystemMsg"] = ToChatOptions(preset)["SystemMsg"]
    BY DEF OptionsFor, ToChatOptions, Fields, Merged
  <1>0. d \in Dialects
    BY <1>1
  <1>3. req.dialect = d /\ req.sent = BuildRequest(d, messages, o)
    BY <1>1
  <1> HIDE DEF o, messages
  <1>4. req.sent.prev = IF d = "responses" THEN o["PreviousResponseID"] ELSE Zero
    <2>1. BuildRequest(d, messages, o).prev
            = IF d = "responses" THEN o["PreviousResponseID"] ELSE Zero
      BY <1>0, RequestIs
    <2> QED
      BY <1>3, <2>1
  <1>5. req.sent.prev # Zero <=> ChainsTo(d)
    BY <1>2, <1>4 DEF ChainsTo
  <1>6. Setting(o) = Setting(ToChatOptions(preset))
    BY <1>2, Zenon DEF Setting
  <1> QED
    BY <1>0, <1>3, <1>5, <1>6 DEF o, messages

LEMMA InstructionsAre ==
  ASSUME NEW messages, NEW o
  PROVE  /\ BuildRequest("completions", messages, o).instructions = Setting(o)
         /\ BuildRequest("messages", messages, o).instructions
              = IF Setting(o) # <<>> THEN Setting(o)
                ELSE LET first == SelectInSeq(messages, IsSystem) IN
                     IF first = 0 THEN <<>> ELSE messages[first].Content
         /\ BuildRequest("responses", messages, o).instructions
              = Setting(o)
                  \o FlattenSeq([i \in DOMAIN messages |-> SystemText(messages[i])])
  <1>1. BuildRequest("completions", messages, o).instructions = Setting(o)
    BY DEF BuildRequest, CompletionsRequest, Request
  <1>2. BuildRequest("messages", messages, o).instructions
          = IF Setting(o) # <<>> THEN Setting(o)
            ELSE LET first == SelectInSeq(messages, IsSystem) IN
                 IF first = 0 THEN <<>> ELSE messages[first].Content
    BY DEF BuildRequest, MessagesRequest, Request
  <1>3. BuildRequest("responses", messages, o).instructions
          = Setting(o)
              \o FlattenSeq([i \in DOMAIN messages |-> SystemText(messages[i])])
    BY DEF BuildRequest, ResponsesRequest, Request, Instructions, Flat
  <1> QED
    BY <1>1, <1>2, <1>3

LEMMA ToSetHas ==
  ASSUME NEW T, NEW s \in Seq(T), NEW i \in 1 .. Len(s)
  PROVE  s[i] \in ToSet(s)
  BY LenProperties DEF ToSet

\* In "completions" a system message is an item of its own.
LEMMA SystemItem ==
  ASSUME Spoken, NEW i \in 1 .. Len(history), history[i].Role = "system", NEW prev,
         NEW items,
         items = FlattenSeq([k \in DOMAIN history |->
                                    ItemsOf("completions", prev, history[k])])
  PROVE  Item("system", history[i].Content) \in ToSet(items)
  <1> DEFINE pieces == [k \in DOMAIN history |-> ItemsOf("completions", prev, history[k])]
             item == Item("system", history[i].Content)
  <1>1. history \in Seq(Messages) /\ Len(history) \in Nat /\ DOMAIN history = 1 .. Len(history)
    BY LenProperties DEF Spoken
  <1>2. ASSUME NEW k \in 1 .. Len(history)
        PROVE  ItemsOf("completions", prev, history[k]) \in Seq(Items)
    <2>1. history[k] \in Messages /\ (history[k].Role # "assistant" => history[k].ToolCalls = <<>>)
      BY <1>1 DEF Spoken, Fits
    <2>2. "completions" \in Dialects
      BY DEF Dialects
    <2> QED
      BY <2>1, <2>2, ItemsTell
  <1>3. pieces \in Seq(Seq(Items)) /\ Len(pieces) = Len(history)
    <2>1. pieces = [k \in 1 .. Len(history) |-> ItemsOf("completions", prev, history[k])]
      BY <1>1
    <2> QED
      BY <1>1, <1>2, <2>1
  <1>4. pieces[i] = <<item>> \o Calls(history[i])
    BY <1>1 DEF ItemsOf, CompletionsItems
  <1>5. Calls(history[i]) \in Seq(Items) /\ item \in Items
    <2>1. history[i] \in Messages
      BY <1>1
    <2>2. history[i].ToolCalls \in Seq(Nat) /\ history[i].Content \in Seq(Nat)
      BY <2>1 DEF Messages
    <2> QED
      BY <2>2, ThingsOfCalls DEF Items, Item
  <1> HIDE DEF item
  <1>6. 1 \in 1 .. Len(pieces[i]) /\ pieces[i][1] = item
    <2> DEFINE rest == Calls(history[i])
    <2>1. rest \in Seq(Items) /\ <<item>> \in Seq(Items)
      BY <1>5
    <2> HIDE DEF rest
    <2>2. 1 \in 1 .. Len(<<item>> \o rest) /\ (<<item>> \o rest)[1] = item
      BY <2>1
    <2> HIDE DEF pieces
    <2> QED
      BY <1>4, <2>2 DEF rest
  <1>7. items \in Seq(Items) /\ Among(item, items)
    <2>1. Among(item, pieces[i])
      BY <1>6 DEF Among
    <2>2. items = FlattenSeq(pieces)
      OBVIOUS
    <2>3. i \in 1 .. Len(pieces) /\ pieces \in Seq(Seq(Items))
      BY <1>3
    <2> HIDE DEF pieces
    <2>4. FlattenSeq(pieces) \in Seq(Items)
      BY <2>3, JoinType
    <2>5. Among(item, FlattenSeq(pieces))
      BY <2>1, <2>3, JoinHas
    <2> QED
      BY <2>2, <2>4, <2>5
  <1> QED
    BY <1>7, ToSetHas DEF item, Among


\* In "responses" every system message is an instruction.
Texts(messages) == [k \in DOMAIN messages |-> SystemText(messages[k])]

LEMMA SystemTexts ==
  ASSUME NEW messages \in Seq(Messages)
  PROVE  /\ FlattenSeq(Texts(messages)) \in Seq(Nat)
         /\ \A i \in 1 .. Len(messages) : \A x :
              messages[i].Role = "system" /\ Among(x, messages[i].Content)
              => Among(x, FlattenSeq(Texts(messages)))
  <1> DEFINE pieces == Texts(messages)
  <1>1. DOMAIN messages = 1 .. Len(messages) /\ Len(messages) \in Nat
    BY LenProperties
  <1>2. ASSUME NEW k \in 1 .. Len(messages)
        PROVE  /\ pieces[k] \in Seq(Nat)
               /\ messages[k].Role = "system" => pieces[k] = messages[k].Content
    <2>1. messages[k] \in Messages
      BY <1>1
    <2>2. messages[k].Content \in Seq(Nat) /\ <<>> \in Seq(Nat)
      BY <2>1 DEF Messages
    <2>3. pieces[k] = IF messages[k].Role = "system" THEN messages[k].Content ELSE <<>>
      BY <1>1 DEF Texts, SystemText, IsSystem
    <2> QED
      BY <2>2, <2>3
  <1>3. pieces \in Seq(Seq(Nat)) /\ Len(pieces) = Len(messages)
    <2>1. pieces = [k \in 1 .. Len(messages) |-> pieces[k]]
      BY <1>1 DEF Texts
    <2> HIDE DEF pieces
    <2> QED
      BY <1>1, <1>2, <2>1
  <1> HIDE DEF pieces
  <1>4. FlattenSeq(pieces) \in Seq(Nat)
    BY <1>3, JoinType
  <1>5. ASSUME NEW i \in 1 .. Len(messages), messages[i].Role = "system",
               NEW x, Among(x, messages[i].Content)
        PROVE  Among(x, FlattenSeq(pieces))
    <2>1. i \in 1 .. Len(pieces) /\ Among(x, pieces[i])
      BY <1>2, <1>3, <1>5
    <2> QED
      BY <1>3, <2>1, JoinHas
  <1> QED
    BY <1>4, <1>5 DEF pieces

LEMMA ToSetConcat ==
  ASSUME NEW T, NEW s \in Seq(T), NEW t \in Seq(T)
  PROVE  /\ ToSet(s) \subseteq ToSet(s \o t)
         /\ \A k \in 1 .. Len(t) : t[k] \in ToSet(s \o t)
  <1>1. /\ DOMAIN s = 1 .. Len(s) /\ DOMAIN (s \o t) = 1 .. Len(s) + Len(t)
        /\ Len(s) \in Nat /\ Len(t) \in Nat
    OBVIOUS
  <1>2. \A i \in 1 .. Len(s) : i \in DOMAIN (s \o t) /\ (s \o t)[i] = s[i]
    BY <1>1
  <1>3. \A k \in 1 .. Len(t) : Len(s) + k \in DOMAIN (s \o t) /\ (s \o t)[Len(s) + k] = t[k]
    BY <1>1
  <1> QED
    BY <1>1, <1>2, <1>3, Zenon DEF ToSet

LEMMA TalkInvReach == TalkInv => InstructionsReach
  <1> SUFFICES ASSUME TalkInv, CanAnswer PROVE InstructionsReach
    BY DEF InstructionsReach
  <1> DEFINE o == OptionsFor(req.dialect)
             messages == MessagesFor(req.dialect)
             setting == Setting(ToChatOptions(preset))
             instructions == req.sent.instructions
             items == req.sent.items
             instructed == Instructed
  <1>0. /\ Spoken /\ Known /\ place = "asked" /\ history \in Seq(Messages)
        /\ Len(history) \in Nat
    BY LenProperties DEF TalkInv, CanAnswer, Spoken
  <1>1. /\ req.dialect \in Dialects
        /\ req.sent = BuildRequest(req.dialect, messages, o)
        /\ req.sent.prev # Zero <=> ChainsTo(req.dialect)
        /\ Setting(o) = setting
    BY <1>0, AskedWith
  <1>2. messages \in Seq(Messages)
    <2>1. known \in 0 .. Len(history)
      BY <1>0 DEF Known
    <2>2. SubSeq(history, known + 1, Len(history)) \in Seq(Messages)
      BY <1>0, <2>1
    <2> QED
      BY <1>0, <2>2 DEF MessagesFor, Fresh
  <1>3. ~(style = "new" /\ req.sent.prev # Zero) => messages = history
    BY <1>1 DEF MessagesFor
  <1>4. req.dialect # "responses" => messages = history
    BY DEF MessagesFor, ChainsTo
  <1>5. /\ ToSet(instructions) \subseteq instructed
        /\ \A item \in ToSet(items) : item.kind = "system" =>
             ToSet(item.things) \subseteq instructed
    BY DEF Instructed
  <1> HIDE DEF instructed, o, messages
  <1>6. PICK T : setting \in Seq(T) /\ \A t \in Seq(Nat) : t \in Seq(T)
    <2> DEFINE v == ToChatOptions(preset)["SystemMsg"]
    <2>1. setting = IF v = Zero THEN <<>> ELSE <<v>>
      BY Zenon DEF Setting
    <2> HIDE DEF v, setting
    <2>2. setting \in Seq(Nat \cup {v})
      <3>1. \A x : <<x>> \in Seq(Nat \cup {x}) /\ <<>> \in Seq(Nat \cup {x})
        OBVIOUS
      <3> QED
        BY <2>1, <3>1, Zenon
    <2>3. \A t \in Seq(Nat) : t \in Seq(Nat \cup {v})
      OBVIOUS
    <2> QED
      BY <2>2, <2>3
  <1>7. instructions = BuildRequest(req.dialect, messages, o).instructions
    BY <1>1
  <1> DEFINE texts == FlattenSeq(Texts(messages))
  <1>8. ASSUME req.dialect = "responses"
        PROVE  /\ instructions = setting \o texts /\ texts \in Seq(T)
               /\ \A i \in 1 .. Len(messages) : \A x :
                    messages[i].Role = "system" /\ Among(x, messages[i].Content)
                    => Among(x, texts)
    <2>1. BuildRequest("responses", messages, o).instructions = Setting(o) \o texts
      BY InstructionsAre DEF Texts
    <2>2. /\ texts \in Seq(Nat)
          /\ \A i \in 1 .. Len(messages) : \A x :
               messages[i].Role = "system" /\ Among(x, messages[i].Content) => Among(x, texts)
      BY <1>2, SystemTexts
    <2> HIDE DEF setting, instructions, texts
    <2> QED
      BY <1>1, <1>6, <1>7, <1>8, <2>1, <2>2
  <1>9. ASSUME req.dialect = "messages"
        PROVE  instructions = IF setting # <<>> THEN setting
                              ELSE LET first == SelectInSeq(messages, IsSystem) IN
                                   IF first = 0 THEN <<>> ELSE messages[first].Content
    BY <1>1, <1>7, <1>9, InstructionsAre
  <1>10. req.dialect = "completions" => instructions = setting
    BY <1>1, <1>7, InstructionsAre
  <1> HIDE DEF setting, instructions, items, texts
  <1>11. ToSet(setting) \subseteq instructed
    <2>1. ToSet(setting) \subseteq ToSet(instructions)
      <3>1. CASE req.dialect = "completions"
        BY <1>10, <3>1
      <3>2. CASE req.dialect = "messages"
        <4>1. CASE setting = <<>>
          <5>1. ToSet(<<>>) = {}
            BY DEF ToSet
          <5> QED
            BY <4>1, <5>1
        <4>2. CASE setting # <<>>
          BY <1>9, <3>2, <4>2
        <4> QED
          BY <4>1, <4>2
      <3>3. CASE req.dialect = "responses"
        <4>1. instructions = setting \o texts /\ texts \in Seq(T)
          BY <1>8, <3>3
        <4> QED
          BY <1>6, <4>1, ToSetConcat
      <3> QED
        BY <1>1, <3>1, <3>2, <3>3 DEF Dialects
    <2> QED
      BY <1>5, <2>1
  <1>12. ASSUME ~(style = "new" /\ req.sent.prev # Zero), NEW n \in Said("system")
         PROVE  IF req.dialect = "messages" THEN instructed # {} ELSE n \in instructed
    <2> DEFINE i == said[n].at
               c == history[i].Content
    <2>1. n \in Numbers /\ said[n].kind = "system"
      BY DEF Said, Numbers
    <2>2. i \in 1 .. Len(history) /\ history[i].Role = "system" /\ Among(n, c)
      BY <1>0, <2>1, SystemSays
    <2> HIDE DEF i
    <2>3. c \in Seq(Nat)
      <3>1. history[i] \in Messages
        BY <1>0, <2>2
      <3> QED
        BY <3>1 DEF Messages
    <2>4. CASE req.dialect = "completions"
      <3> DEFINE item == Item("system", history[i].Content)
      <3>1. item \in ToSet(items)
        <4>1. BuildRequest(req.dialect, messages, o).items
                = FlattenSeq([k \in DOMAIN messages |->
                    ItemsOf(req.dialect,
                            BuildRequest(req.dialect, messages, o).prev, messages[k])])
          BY <1>1, RequestIs
        <4>2. messages = history
          BY <1>4, <2>4
        <4>3. items = FlattenSeq([k \in DOMAIN history |->
                                         ItemsOf("completions", req.sent.prev, history[k])])
          BY <1>1, <2>4, <4>1, <4>2 DEF items
        <4> QED
          BY <1>0, <2>2, <4>3, SystemItem
      <3>2. item.kind = "system" /\ item.things = c
        BY DEF Item
      <3>3. n \in ToSet(c)
        BY <2>2, <2>3, ToSetHas DEF Among
      <3> HIDE DEF item, c
      <3>4. n \in instructed
        BY <1>5, <3>1, <3>2, <3>3
      <3> QED
        BY <2>4, <3>4
    <2>5. CASE req.dialect = "responses"
      <3>1. /\ instructions = setting \o texts /\ texts \in Seq(T)
            /\ \A k \in 1 .. Len(messages) : \A x :
                 messages[k].Role = "system" /\ Among(x, messages[k].Content) => Among(x, texts)
        BY <1>8, <2>5
      <3>2. messages = history
        BY <1>3, <1>12
      <3>3. Among(n, texts)
        BY <2>2, <3>1, <3>2
      <3>4. n \in ToSet(instructions)
        BY <1>6, <3>1, <3>3, ToSetConcat DEF Among
      <3> QED
        BY <1>5, <2>5, <3>4
    <2>6. CASE req.dialect = "messages"
      <3>1. instructions # <<>> /\ \E U : instructions \in Seq(U)
        <4>1. CASE setting # <<>>
          BY <1>6, <1>9, <2>6, <4>1
        <4>2. CASE setting = <<>>
          <5> DEFINE first == SelectInSeq(history, IsSystem)
          <5>1. first \in 1 .. Len(history) /\ history[first].Role = "system"
            BY <1>0, <2>2, FirstSystem
          <5>2. messages = history
            BY <1>4, <2>6
          <5>3. instructions = IF first = 0 THEN <<>> ELSE history[first].Content
            BY <1>9, <2>6, <4>2, <5>2
          <5> HIDE DEF first
          <5>4. Fits(first) /\ history[first] \in Messages /\ first # 0
            BY <1>0, <5>1 DEF Spoken
          <5>5. history[first].Content # <<>> /\ history[first].Content \in Seq(Nat)
            BY <5>1, <5>4 DEF Fits, Messages
          <5> QED
            BY <5>3, <5>4, <5>5
        <4> QED
          BY <4>1, <4>2
      <3>2. PICK U : instructions \in Seq(U)
        BY <3>1
      <3>3. 1 \in 1 .. Len(instructions)
        BY <3>1, <3>2
      <3>4. instructions[1] \in ToSet(instructions)
        BY <3>2, <3>3, ToSetHas
      <3> QED
        BY <1>5, <2>6, <3>4
    <2> QED
      BY <1>1, <2>4, <2>5, <2>6 DEF Dialects
  <1>13. ASSUME ~(style = "new" /\ req.sent.prev # Zero)
         PROVE  IF req.dialect = "messages" THEN Said("system") # {} => instructed # {}
                ELSE Said("system") \subseteq instructed
    <2>1. CASE req.dialect = "messages"
      BY <1>12, <1>13, <2>1
    <2>2. CASE req.dialect # "messages"
      BY <1>12, <1>13, <2>2
    <2> QED
      BY <2>1, <2>2
  <1> QED
    BY <1>11, <1>13 DEF InstructionsReach, instructed, setting

\* The SystemMsg reaches the model with every request, and what the system has said does.
THEOREM InstructionsAlwaysReach == TalkSpec => []InstructionsReach
  BY TalkInvAlways, TalkInvReach, PTL
=============================================================================
