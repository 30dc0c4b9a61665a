---------------------------- MODULE InstallProofs ----------------------------
(***************************************************************************)
(* Theorems about Install, for any backlog, line length and timeout.       *)
(***************************************************************************)
EXTENDS Install, SequenceTheorems,
        WellFoundedInduction, TLAPS

-----------------------------------------------------------------------------
(* What is known of the request and its answer at each point of cmd_install. *)

Unanswered == {"idle", "ask v1", "wait v1", "ask v2", "wait v2"}

\* A service has accepted, or refused in words that read like it.
Doubtful == {"res cut", "UNSUCCESSFUL"}
Accepted == \E s \in Services :
               request[s] = "accepted" \/ (request[s] = "refused" /\ reply[s] \in Doubtful)

RequestInv ==
    /\ pc \in Unanswered \cup {"watch", "wait", "done"}
    /\ waitflag \in BOOLEAN /\ running \in BOOLEAN
    /\ request \in [Services -> {"none", "queued", "accepted", "refused"}]
    /\ reply \in [Services -> Texts \cup {"none"}]
    /\ report \in {"none", "no file", "not reachable", "started", "success",
                   "failed", "not detected"}
    /\ pc \in Unanswered => report = "none"
    /\ pc \in {"watch", "wait"} => Accepted
    /\ report \in {"started", "success", "failed"} => Accepted
    /\ pc \in {"idle", "ask v1"} => request["v1"] = "none"
    /\ pc \in {"idle", "ask v1", "wait v1", "ask v2"} => request["v2"] = "none"
    /\ \A s \in Services : reply[s] # "none" => request[s] \in {"accepted", "refused"}
    /\ \A s \in Services : reply[s] # "none" => reply[s] \in Says(s, request[s] = "accepted")

-----------------------------------------------------------------------------
(* What is known of the log. The line being put together, what was read and *)
(* what was not are one stream of pieces: it ends where a line ends, and a  *)
(* state and an error in the same line of it were sent together.            *)

Pieces == {State(7), State(8), Other, Newline} \cup {Error(x) : x \in HexDigits}

\* Size pieces, the first of them already in the line.
Size   == Len(line) + Len(buffer) + Len(log)
Stream == [k \in 1..Size |->
             IF k <= Len(line) THEN line[k]
             ELSE IF k <= Len(line) + Len(buffer) THEN buffer[k - Len(line)]
             ELSE log[k - (Len(line) + Len(buffer))]]

WholeLines(w, n) == n # 0 => w[n] = Newline

SentTogether(w, n, S) ==
    \A i, j \in 1..n :
        /\ w[i].of = "state" /\ w[j].of = "error"
        /\ \A k \in 1..n : (i < k /\ k < j) \/ (j < k /\ k < i) => w[k] # Newline
        => [state |-> w[i].is, err |-> w[j].is] \in S

StreamInv ==
    /\ log \in Seq(Pieces) /\ buffer \in Seq(Pieces) /\ line \in Seq(Pieces)
    /\ Len(log) <= Backlog /\ Len(buffer) <= Backlog /\ Len(line) <= LineMax
    /\ \A k \in 1..Len(line) : line[k] # Newline
    /\ WholeLines(Stream, Size)
    /\ SentTogether(Stream, Size, sent)
    /\ sent \subseteq Status
    /\ noise \in 0..MaxNoise /\ elapsed \in 0..Timeout
    /\ pc = "wait" => elapsed < Timeout
    /\ seen # None => pc = "done" /\ seen \in sent

LEMMA NewlineIs == Newline.of = "newline" /\ Newline \in Pieces
BY DEF Newline, Pieces

\* Leaving out d pieces after the first n, none of which ends a line unless
\* they are the first ones, keeps the rest as it was.
LEMMA Thinned ==
    ASSUME NEW u, NEW v, NEW N \in Nat, NEW M \in Nat, NEW S,
           NEW n \in Nat, NEW d \in Nat, n + d <= N, M = N - d,
           \A k \in 1..M : v[k] = IF k <= n THEN u[k] ELSE u[k + d],
           n = 0 \/ \A k \in (n + 1)..(n + d) : u[k] # Newline,
           WholeLines(u, N), SentTogether(u, N, S)
    PROVE  WholeLines(v, M) /\ SentTogether(v, M, S)
<1> DEFINE f(k) == IF k <= n THEN k ELSE k + d
<1>1. \A k \in 1..M : f(k) \in 1..N /\ v[k] = u[f(k)]
  OBVIOUS
<1>2. WholeLines(v, M)
  <2> SUFFICES ASSUME M # 0 PROVE v[M] = Newline
    BY DEF WholeLines
  <2>2. u[N] = Newline
    BY DEF WholeLines
  <2>3. CASE n + d < N
    BY <2>2, <2>3
  <2>4. CASE ~(n + d < N)
    BY <2>2, <2>4
  <2> QED BY <2>3, <2>4
<1>3. SentTogether(v, M, S)
  <2> SUFFICES ASSUME NEW i \in 1..M, NEW j \in 1..M,
                      v[i].of = "state", v[j].of = "error",
                      \A k \in 1..M :
                         (i < k /\ k < j) \/ (j < k /\ k < i) => v[k] # Newline
               PROVE  [state |-> v[i].is, err |-> v[j].is] \in S
    BY DEF SentTogether
  <2>1. ASSUME NEW k \in 1..N,
               (f(i) < k /\ k < f(j)) \/ (f(j) < k /\ k < f(i))
        PROVE  u[k] # Newline
    <3>1. CASE k <= n
      <4>1. k \in 1..M /\ v[k] = u[k]
        BY <3>1
      <4>2. (i < k /\ k < j) \/ (j < k /\ k < i)
        BY <2>1, <3>1
      <4> QED BY <4>1, <4>2
    <3>2. CASE k > n + d
      <4>0. k - d \in 1..M /\ ~(k - d <= n) /\ (k - d) + d = k
        BY <3>2
      <4>1. v[k - d] = u[(k - d) + d]
        BY <4>0
      <4>2. (i < k - d /\ k - d < j) \/ (j < k - d /\ k - d < i)
        BY <2>1, <3>2
      <4> QED BY <4>0, <4>1, <4>2
    <3>3. CASE k \in (n + 1)..(n + d)
      <4>1. n # 0
        BY <2>1, <3>3
      <4> QED BY <4>1, <3>3
    <3> QED BY <3>1, <3>2, <3>3
  <2>2. /\ f(i) \in 1..N /\ f(j) \in 1..N
        /\ v[i] = u[f(i)] /\ v[j] = u[f(j)]
    BY <1>1
  <2> HIDE DEF f
  <2> QED BY <2>1, <2>2 DEF SentTogether
<1> QED
  BY <1>2, <1>3

\* A new line l of n pieces goes to the end of the stream.
LEMMA Extended ==
    ASSUME NEW u, NEW l, NEW v, NEW N \in Nat, NEW n \in Nat,
           NEW S, NEW R, S \subseteq R,
           WholeLines(u, N), SentTogether(u, N, S),
           \A k \in 1..N : v[k] = u[k],
           \A k \in 1..n : v[N + k] = l[k],
           v[N + n + 1] = Newline,
           \A i, j \in 1..n : l[i].of = "state" /\ l[j].of = "error"
              => [state |-> l[i].is, err |-> l[j].is] \in R
    PROVE  WholeLines(v, N + n + 1) /\ SentTogether(v, N + n + 1, R)
<1> DEFINE M == N + n + 1
<1>m. M \in Nat /\ M > N /\ \A k \in 1..M : k <= N \/ k = M \/ k - N \in 1..n
  OBVIOUS
<1>l. \A k \in 1..M : k - N \in 1..n => v[k] = l[k - N]
  <2> SUFFICES ASSUME NEW k \in 1..M, k - N \in 1..n PROVE v[k] = l[k - N]
    OBVIOUS
  <2>1. v[N + (k - N)] = l[k - N] /\ N + (k - N) = k
    OBVIOUS
  <2> QED BY <2>1
<1>1. v[M] = Newline
  OBVIOUS
<1> HIDE DEF M
<1>2. WholeLines(v, M)
  BY <1>1 DEF WholeLines
<1>3. SentTogether(v, M, R)
  <2> SUFFICES ASSUME NEW i \in 1..M, NEW j \in 1..M,
                      v[i].of = "state", v[j].of = "error",
                      \A k \in 1..M :
                         (i < k /\ k < j) \/ (j < k /\ k < i) => v[k] # Newline
               PROVE  [state |-> v[i].is, err |-> v[j].is] \in R
    BY DEF SentTogether
  <2>0. i # M /\ j # M /\ v[i] # Newline /\ v[j] # Newline
    BY <1>1, NewlineIs
  <2>1. CASE i <= N /\ j <= N
    <3>1. i \in 1..N /\ j \in 1..N /\ v[i] = u[i] /\ v[j] = u[j]
      BY <2>1, <1>m
    <3>2. \A k \in 1..N : k \in 1..M /\ u[k] = v[k]
      BY <1>m
    <3>3. [state |-> u[i].is, err |-> u[j].is] \in S
      BY <3>1, <3>2 DEF SentTogether
    <3> QED BY <3>1, <3>3
  <2>2. CASE i - N \in 1..n /\ j - N \in 1..n
    <3>1. v[i] = l[i - N] /\ v[j] = l[j - N]
      BY <2>2, <1>l
    <3> QED BY <2>2, <3>1
  <2>3. CASE (i <= N /\ ~(j <= N)) \/ (j <= N /\ ~(i <= N))
    <3>1. N \in 1..M /\ N # 0
      BY <2>3, <1>m
    <3>2. v[N] = Newline
      BY <3>1 DEF WholeLines
    <3>3. i # N /\ j # N
      BY <2>0, <3>2
    <3>4. (i < N /\ N < j) \/ (j < N /\ N < i)
      BY <2>3, <3>3
    <3> QED BY <3>1, <3>2, <3>4
  <2> QED BY <2>0, <2>1, <2>2, <2>3, <1>m
<1> QED
  BY <1>2, <1>3 DEF M

-----------------------------------------------------------------------------
(* The request. *)

LEMMA RequestInitial == Init => RequestInv
BY DEF Init, RequestInv, Services, Unanswered, Accepted

\* Steps that leave request and reply alone, and move pc on.
LEMMA RequestKept ==
    ASSUME RequestInv, UNCHANGED <<request, reply>>,
           waitflag' \in BOOLEAN, running' \in BOOLEAN,
           \/ /\ pc' = pc /\ report' = report
           \/ /\ pc = "idle" /\ pc' = "ask v1" /\ report' = report
           \/ /\ pc \in {"ask v1", "wait v1"} /\ pc' = "ask v2" /\ report' = report
           \/ /\ pc' = "done" /\ report' \in {"no file", "not reachable", "not detected"}
           \/ /\ pc \in {"watch", "wait"} /\ pc' \in {"wait", "done"}
              /\ report' \in {report, "success", "failed", "not detected"}
    PROVE  RequestInv'
BY DEF RequestInv, Services, Unanswered, Accepted

LEMMA RequestServices ==
    ASSUME RequestInv, NEW s \in Services
    PROVE  /\ Accepts(s) \/ Refuses(s) => RequestInv'
           /\ \A r \in Texts : Replies(s, r) => RequestInv'
<1>1. ASSUME NEW x \in {"accepted", "refused"}, request[s] = "queued",
             request' = [request EXCEPT ![s] = x], reply' = reply, running' \in BOOLEAN,
             UNCHANGED <<pc, waitflag, report>>
      PROVE  RequestInv'
  <2>1. reply[s] = "none"
    BY <1>1 DEF RequestInv
  <2>2. \A r \in Services : request'[r] = IF r = s THEN x ELSE request[r]
    BY <1>1 DEF RequestInv
  <2>3. Accepted => Accepted'
    <3>1. ASSUME Accepted PROVE Accepted'
      <4>1. PICK r \in Services :
              request[r] = "accepted" \/ (request[r] = "refused" /\ reply[r] \in Doubtful)
        BY <3>1 DEF Accepted
      <4>2. r # s /\ request'[r] = request[r]
        BY <1>1, <2>2, <4>1
      <4> QED BY <1>1, <4>1, <4>2 DEF Accepted
    <3> QED BY <3>1
  <2>4. \A r \in Services : reply'[r] # "none" =>
          /\ request'[r] \in {"accepted", "refused"}
          /\ reply'[r] \in Says(r, request'[r] = "accepted")
    <3> SUFFICES ASSUME NEW r \in Services, reply[r] # "none"
                 PROVE  /\ request'[r] \in {"accepted", "refused"}
                        /\ reply[r] \in Says(r, request'[r] = "accepted")
      BY <1>1
    <3>1. r # s /\ request'[r] = request[r]
      BY <2>1, <2>2
    <3> QED BY <3>1 DEF RequestInv
  <2>5. request' \in [Services -> {"none", "queued", "accepted", "refused"}]
    BY <1>1 DEF RequestInv
  <2>6. /\ pc \in {"idle", "ask v1"} => s # "v1"
        /\ pc \in {"idle", "ask v1", "wait v1", "ask v2"} => s # "v2"
    BY <1>1 DEF RequestInv
  <2> QED BY <1>1, <2>2, <2>3, <2>4, <2>5, <2>6 DEF RequestInv, Services
<1>2. ASSUME NEW r \in Texts, Replies(s, r) PROVE RequestInv'
  <2>1. /\ reply[s] = "none" /\ reply' = [reply EXCEPT ![s] = r]
        /\ request[s] \in {"accepted", "refused"} /\ r \in Says(s, request[s] = "accepted")
        /\ UNCHANGED <<pc, waitflag, request, running, report>>
    BY <1>2 DEF Replies
  <2>2. /\ reply' \in [Services -> Texts \cup {"none"}]
        /\ \A x \in Services : reply'[x] = IF x = s THEN r ELSE reply[x]
    BY <2>1 DEF RequestInv
  <2>3. Accepted => Accepted'
    <3>1. ASSUME Accepted PROVE Accepted'
      <4>1. PICK x \in Services :
              request[x] = "accepted" \/ (request[x] = "refused" /\ reply[x] \in Doubtful)
        BY <3>1 DEF Accepted
      <4>2. reply[x] \in Doubtful => x # s
        BY <2>1 DEF Doubtful
      <4> QED BY <2>1, <2>2, <4>1, <4>2 DEF Accepted
    <3> QED BY <3>1
  <2> QED BY <2>1, <2>2, <2>3 DEF RequestInv
<1>3. Accepts(s) \/ Refuses(s) => RequestInv'
  BY <1>1 DEF Accepts, Refuses, RequestInv
<1> QED
  BY <1>2, <1>3

LEMMA RequestAsked ==
    ASSUME RequestInv, NEW s \in Services,
           Ask(s) \/ Unasked(s) \/ NoAnswer(s) \/ Answer(s)
    PROVE  RequestInv'
<1>0. s = "v1" \/ s = "v2"
  BY DEF Services
<1>n. ASSUME pc \in {Asking(s), Waiting(s)}, NextService(s) PROVE RequestInv'
  BY <1>n, <1>0, RequestKept DEF NextService, Goto, Asking, Waiting, RequestInv
<1>1. CASE Ask(s)
  <2>1. CASE s = "v1"
    BY <1>1, <2>1 DEF Ask, Goto, Asking, Waiting, RequestInv, Services, Unanswered, Accepted
  <2>2. CASE s = "v2"
    BY <1>1, <2>2 DEF Ask, Goto, Asking, Waiting, RequestInv, Services, Unanswered, Accepted
  <2> QED BY <1>0, <2>1, <2>2
<1>2. CASE Unasked(s) \/ NoAnswer(s)
  BY <1>2, <1>n DEF Unasked, NoAnswer
<1>3. CASE Answer(s) /\ ~Taken(s, reply[s])
  BY <1>3, <1>n DEF Answer
<1>4. CASE Answer(s) /\ Taken(s, reply[s])
  <2>1. Accepted
    <3>1. /\ request[s] \in {"accepted", "refused"}
          /\ reply[s] \in Says(s, request[s] = "accepted")
      BY <1>4 DEF Answer, RequestInv
    <3>2. ASSUME request[s] = "refused" PROVE reply[s] \in Doubtful
      <4>1. Says("v1", FALSE) = {"res 1", "res cut", "other"}
            /\ Says("v2", FALSE) = {"UNSUCCESSFUL", "other"}
        BY DEF Says
      <4>2. Res("res 1") # 0 /\ Res("other") # 0
        BY DEF Res
      <4>3. (request[s] = "accepted") = FALSE
        BY <3>2
      <4>4. reply[s] \in Says(s, FALSE)
        BY <3>1, <4>3
      <4> QED BY <1>0, <1>4, <4>1, <4>2, <4>4 DEF Taken, Doubtful
    <3> QED BY <3>1, <3>2 DEF Accepted
  <2>2. /\ pc' \in {"watch", "done"} /\ report' = "started"
        /\ UNCHANGED <<request, reply, waitflag, running>>
    BY <1>4 DEF Answer, Started, Goto
  <2> QED BY <2>1, <2>2 DEF RequestInv, Services, Unanswered, Accepted
<1> QED
  BY <1>1, <1>2, <1>3, <1>4

LEMMA RequestInductive == RequestInv /\ [Next]_vars => RequestInv'
<1> SUFFICES ASSUME RequestInv, [Next]_vars PROVE RequestInv'
  OBVIOUS
<1>b. waitflag \in BOOLEAN /\ running \in BOOLEAN
  BY DEF RequestInv
<1>f. ASSUME pc = "wait", NEW m, NEW t, Finish(m, t) PROVE RequestInv'
  BY <1>f, <1>b, RequestKept DEF Finish
<1>1. ASSUME NEW s \in Services, Ask(s) \/ Unasked(s) \/ NoAnswer(s) \/ Answer(s)
      PROVE  RequestInv'
  BY <1>1, RequestAsked
<1>2. CASE Watch \/ WatchFails \/ SelectFails
  BY <1>2, <1>b, RequestKept DEF Watch, WatchFails, SelectFails, NotWatched, Goto
<1>3. CASE Tick
  <2>1. CASE elapsed + 1 >= Timeout
    BY <1>3, <2>1, <1>f DEF Tick, Idle
  <2>2. CASE ~(elapsed + 1 >= Timeout)
    BY <1>3, <2>2, <1>b, RequestKept DEF Tick, Idle
  <2> QED BY <2>1, <2>2
<1>4. CASE (\E m \in 1..Len(log) : ReadLog(m)) \/ Accumulate
  BY <1>4, <1>b, RequestKept DEF ReadLog, Accumulate
<1>5. CASE ProcessLine
  <2>1. CASE Has("state") /\ Has("error")
    BY <1>5, <2>1, <1>f DEF ProcessLine, LineEnds
  <2>2. CASE ~(Has("state") /\ Has("error"))
    BY <1>5, <2>2, <1>b, RequestKept DEF ProcessLine, LineEnds
  <2> QED BY <2>1, <2>2
<1>6. CASE NoFile
  BY <1>6, <1>b, RequestKept DEF NoFile, Goto
<1>7. CASE LogCloses
  BY <1>7, <1>f DEF LogCloses
<1>8. CASE \E l \in NoiseLines : LogNoise(l)
  BY <1>8, <1>b, RequestKept DEF LogNoise
<1>9. CASE \E w \in BOOLEAN : Begin(w)
  BY <1>9, <1>b, RequestKept DEF Begin
<1>10. ASSUME NEW s \in Services, Accepts(s) \/ Refuses(s) \/ \E r \in Texts : Replies(s, r)
       PROVE  RequestInv'
  BY <1>10, RequestServices
<1>11. CASE \E t \in Status : \E l \in StatusLines(t) : InstallationEnds(t, l)
  BY <1>11, <1>b, RequestKept DEF InstallationEnds
<1>12. CASE UNCHANGED vars
  BY <1>12, <1>b, RequestKept DEF vars
<1> QED
  BY <1>1, <1>2, <1>3, <1>4, <1>5, <1>6, <1>7, <1>8, <1>9, <1>10, <1>11, <1>12
     DEF Next, CommandStep

\* A started installation is reported only once a service has accepted the
\* request, or has refused it in words that atoi() or strstr() take for success,
\* however late answers, timeouts and the second request interleave:
\* dpi_send_json_9090 or dpi_v2_post_url_12800 has read that service's own answer.
THEOREM StartedOnlyIfAnswered == Spec => []StartedAsAnswered
<1>1. RequestInv => StartedAsAnswered
  BY DEF RequestInv, StartedAsAnswered, Accepted, Doubtful
<1> QED
  BY <1>1, RequestInitial, RequestInductive, PTL DEF Spec

-----------------------------------------------------------------------------
(* The log. *)

LEMMA StreamTypes ==
    ASSUME StreamInv
    PROVE  /\ log \in Seq(Pieces) /\ Len(log) \in Nat
           /\ buffer \in Seq(Pieces) /\ Len(buffer) \in Nat
           /\ line \in Seq(Pieces) /\ Len(line) \in Nat
           /\ Size \in Nat
BY DEF StreamInv, Size

LEMMA StreamInitial == Init => StreamInv
<1> SUFFICES ASSUME Init PROVE StreamInv
  OBVIOUS
<1>1. log = <<>> /\ buffer = <<>> /\ line = <<>> /\ sent = {} /\ seen = None
  BY DEF Init
<1>2. Size = 0
  BY <1>1 DEF Size
<1>3. WholeLines(Stream, Size) /\ SentTogether(Stream, Size, sent)
  BY <1>2 DEF WholeLines, SentTogether
<1>4. noise \in 0..MaxNoise /\ elapsed \in 0..Timeout /\ (pc = "wait" => elapsed < Timeout)
  BY ConstantsAssumption DEF Init
<1>5. 0 <= Backlog /\ 0 <= LineMax
  BY ConstantsAssumption
<1> QED
  BY <1>1, <1>3, <1>4, <1>5 DEF StreamInv

\* Steps that do not touch the log, or what was seen of it.
LEMMA StreamKept ==
    ASSUME StreamInv, UNCHANGED <<watching, noise, seen>>,
           pc' = pc \/ (pc # "done" /\ pc' # "wait")
    PROVE  StreamInv'
<1>1. UNCHANGED <<log, sent, buffer, line, elapsed, noise, seen>>
  BY DEF watching
<1>2. Size' = Size /\ Stream' = Stream
  BY <1>1 DEF Size, Stream
<1>3. WholeLines(Stream, Size)' /\ SentTogether(Stream, Size, sent)'
  BY <1>1, <1>2 DEF StreamInv, WholeLines, SentTogether
<1> QED
  BY <1>1, <1>3 DEF StreamInv

\* The other steps: what is left to show of each.
LEMMA StreamStep ==
    ASSUME StreamInv, pc = "wait",
           log' \in Seq(Pieces) /\ buffer' \in Seq(Pieces) /\ line' \in Seq(Pieces),
           Len(log') <= Backlog /\ Len(buffer') <= Backlog /\ Len(line') <= LineMax,
           \A k \in 1..Len(line') : line'[k] # Newline,
           WholeLines(Stream', Size') /\ SentTogether(Stream', Size', sent'),
           sent' \subseteq Status, noise' \in 0..MaxNoise, elapsed' \in 0..Timeout,
           pc' = "wait" => elapsed' < Timeout,
           seen' = seen \/ (pc' = "done" /\ (seen' = None \/ seen' \in sent'))
    PROVE  StreamInv'
<1>1. seen' # None => pc' = "done" /\ seen' \in sent'
  BY DEF StreamInv
<1>2. WholeLines(Stream, Size)' /\ SentTogether(Stream, Size, sent)'
  BY DEF WholeLines, SentTogether
<1> QED
  BY <1>1, <1>2 DEF StreamInv

LEMMA StreamWatched == ASSUME StreamInv, Watch PROVE StreamInv'
<1>1. log' = <<>> /\ sent' = {} /\ buffer' = <<>> /\ line' = <<>> /\ elapsed' = 0
  BY DEF Watch
<1>2. noise' = noise /\ seen' = seen /\ seen = None
  BY DEF Watch, Goto, StreamInv
<1>3. Size' = 0
  BY <1>1 DEF Size
<1>4. WholeLines(Stream, Size)' /\ SentTogether(Stream, Size, sent)'
  BY <1>3 DEF WholeLines, SentTogether
<1>5. 0 <= Backlog /\ 0 <= LineMax /\ 0 \in 0..Timeout /\ 0 < Timeout
  BY ConstantsAssumption
<1> QED
  BY <1>1, <1>2, <1>4, <1>5 DEF StreamInv

LEMMA StreamRead ==
    ASSUME StreamInv, NEW m \in 1..Len(log), ReadLog(m)
    PROVE  StreamInv'
<1>0. /\ log \in Seq(Pieces) /\ line \in Seq(Pieces)
      /\ buffer = <<>> /\ Len(buffer) = 0
      /\ Len(log) \in Nat /\ Len(line) \in Nat /\ Len(log) <= Backlog
      /\ Backlog \in Nat
  BY ConstantsAssumption, StreamTypes DEF StreamInv, ReadLog
<1>1. /\ buffer' \in Seq(Pieces) /\ Len(buffer') = m
      /\ \A k \in 1..m : buffer'[k] = log[k]
  <2>1. buffer' = SubSeq(log, 1, m) /\ \A i \in 1..m : log[i] \in Pieces
    BY <1>0, ElementOfSeq DEF ReadLog
  <2> QED BY <2>1, SubSeqProperties
<1>2. /\ log' \in Seq(Pieces) /\ Len(log') = Len(log) - m
      /\ \A k \in 1..(Len(log) - m) : log'[k] = log[m + k]
  <2>1. log' = SubSeq(log, m + 1, Len(log)) /\ \A i \in (m + 1)..Len(log) : log[i] \in Pieces
    BY <1>0, ElementOfSeq DEF ReadLog
  <2> QED BY <1>0, <2>1, SubSeqProperties
<1>3. line' = line /\ pc = "wait" /\ UNCHANGED <<sent, noise, elapsed, seen, pc>>
  BY DEF ReadLog
<1>4. Size' = Size /\ Size \in Nat
  BY <1>0, <1>1, <1>2, <1>3 DEF Size
<1>5. \A k \in 1..Size : Stream'[k] = Stream[k]
  <2> SUFFICES ASSUME NEW k \in 1..Size PROVE Stream'[k] = Stream[k]
    OBVIOUS
  <2>s. /\ Stream[k] = IF k <= Len(line) THEN line[k] ELSE log[k - Len(line)]
        /\ Stream'[k] = IF k <= Len(line) THEN line[k]
                        ELSE IF k <= Len(line) + m THEN buffer'[k - Len(line)]
                        ELSE log'[k - (Len(line) + m)]
    BY <1>0, <1>1, <1>3, <1>4 DEF Stream
  <2>1. CASE k <= Len(line)
    BY <2>s, <2>1
  <2>2. CASE ~(k <= Len(line)) /\ k <= Len(line) + m
    <3>1. k - Len(line) \in 1..m
      BY <1>0, <2>2
    <3> QED BY <2>s, <2>2, <3>1, <1>1
  <2>3. CASE ~(k <= Len(line)) /\ ~(k <= Len(line) + m)
    <3>1. /\ k - (Len(line) + m) \in 1..(Len(log) - m)
          /\ m + (k - (Len(line) + m)) = k - Len(line)
      BY <1>0, <2>3 DEF Size
    <3> QED BY <2>s, <2>3, <3>1, <1>2
  <2> QED BY <2>1, <2>2, <2>3
<1>w. WholeLines(Stream, Size) /\ SentTogether(Stream, Size, sent)
  BY DEF StreamInv
<1>6. WholeLines(Stream', Size') /\ SentTogether(Stream', Size', sent')
  BY <1>3, <1>4, <1>5, <1>w DEF WholeLines, SentTogether
<1>7. Len(log') <= Backlog /\ Len(buffer') <= Backlog
  BY <1>0, <1>1, <1>2
<1> QED
  BY <1>1, <1>2, <1>3, <1>6, <1>7, StreamStep DEF StreamInv

LEMMA StreamAccumulated ==
    ASSUME StreamInv, Accumulate
    PROVE  StreamInv'
<1>0. /\ log \in Seq(Pieces) /\ line \in Seq(Pieces) /\ buffer \in Seq(Pieces)
      /\ buffer # <<>> /\ Head(buffer) # Newline
      /\ Len(line) <= LineMax /\ LineMax \in Nat
      /\ Len(buffer) <= Backlog /\ Len(log) <= Backlog /\ Backlog \in Nat
  BY ConstantsAssumption DEF StreamInv, Accumulate
<1>1. /\ buffer' \in Seq(Pieces) /\ Len(buffer') = Len(buffer) - 1
      /\ \A k \in 1..(Len(buffer) - 1) : buffer'[k] = buffer[k + 1]
      /\ Len(buffer) > 0 /\ buffer[1] # Newline /\ buffer[1] \in Pieces
      /\ Head(buffer) = buffer[1]
  BY <1>0, HeadTailProperties DEF Accumulate
<1>2. log' = log /\ pc = "wait" /\ UNCHANGED <<sent, noise, elapsed, seen, pc>>
  BY DEF Accumulate
<1>n. Len(log) \in Nat /\ Len(line) \in Nat /\ Len(buffer) \in Nat /\ Size \in Nat
  BY StreamTypes
<1>w. WholeLines(Stream, Size) /\ SentTogether(Stream, Size, sent)
  BY DEF StreamInv
<1>l. Len(log') <= Backlog /\ Len(buffer') <= Backlog
  BY <1>0, <1>1, <1>2, <1>n
<1>3. CASE Len(line) < LineMax
  <2>1. /\ line' \in Seq(Pieces) /\ Len(line') = Len(line) + 1
        /\ \A k \in 1..Len(line) : line'[k] = line[k]
        /\ line'[Len(line) + 1] = buffer[1]
    BY <1>0, <1>1, <1>3, AppendProperties DEF Accumulate
  <2>2. Size' = Size
    BY <1>1, <1>2, <1>n, <2>1 DEF Size
  <2>3. \A k \in 1..Size : Stream'[k] = Stream[k]
    <3> SUFFICES ASSUME NEW k \in 1..Size PROVE Stream'[k] = Stream[k]
      OBVIOUS
    <3> DEFINE n == Len(line)
               b == Len(buffer)
    <3>s. /\ Stream[k] = IF k <= n THEN line[k]
                         ELSE IF k <= n + b THEN buffer[k - n] ELSE log[k - (n + b)]
          /\ Stream'[k] = IF k <= n + 1 THEN line'[k]
                          ELSE IF k <= (n + 1) + (b - 1) THEN buffer'[k - (n + 1)]
                          ELSE log[k - ((n + 1) + (b - 1))]
      BY <1>1, <1>2, <2>1, <2>2 DEF Stream
    <3>n. n \in Nat /\ b \in Nat /\ (n + 1) + (b - 1) = n + b
      BY <1>n
    <3>b. b > 0 /\ \A i \in 1..(b - 1) : buffer'[i] = buffer[i + 1]
      BY <1>1
    <3>l. line'[n + 1] = buffer[1] /\ \A i \in 1..n : line'[i] = line[i]
      BY <2>1
    <3> HIDE DEF n, b
    <3>1. CASE k <= n
      BY <3>s, <3>n, <3>l, <3>1
    <3>2. CASE k = n + 1
      BY <3>s, <3>n, <3>b, <3>l, <3>2
    <3>3. CASE k > n + 1 /\ k <= n + b
      <4>1. k - (n + 1) \in 1..(b - 1) /\ (k - (n + 1)) + 1 = k - n
        BY <3>3, <3>n, <3>b
      <4> QED BY <3>s, <3>n, <3>b, <3>3, <4>1
    <3>4. CASE k > n + b
      BY <3>s, <3>n, <3>b, <3>4
    <3> QED BY <3>1, <3>2, <3>3, <3>4, <3>n
  <2>4. WholeLines(Stream', Size') /\ SentTogether(Stream', Size', sent')
    BY <1>2, <1>n, <1>w, <2>2, <2>3 DEF WholeLines, SentTogether
  <2>5. \A k \in 1..Len(line') : k = Len(line) + 1 \/ k \in 1..Len(line)
    BY <1>n, <2>1
  <2>6. \A k \in 1..Len(line') : line'[k] # Newline
    BY <1>1, <2>1, <2>5 DEF StreamInv
  <2>7. Len(line') <= LineMax
    BY <1>0, <1>3, <1>n, <2>1
  <2> QED BY <1>0, <1>1, <1>2, <1>l, <2>1, <2>4, <2>6, <2>7, StreamStep DEF StreamInv
<1>4. CASE ~(Len(line) < LineMax)
  <2>1. line' = line
    BY <1>4 DEF Accumulate
  <2>2. Size' = Size - 1 /\ Size' \in Nat /\ Len(line) + 1 <= Size
    BY <1>1, <1>2, <1>n, <2>1 DEF Size
  <2>3. \A k \in 1..Size' :
           Stream'[k] = IF k <= Len(line) THEN Stream[k] ELSE Stream[k + 1]
    <3> SUFFICES ASSUME NEW k \in 1..Size'
                 PROVE  Stream'[k] = IF k <= Len(line) THEN Stream[k] ELSE Stream[k + 1]
      OBVIOUS
    <3> DEFINE n == Len(line)
               b == Len(buffer)
    <3>k. k \in 1..Size /\ k + 1 \in 1..Size
      BY <1>n, <2>2
    <3>s. /\ \A i \in 1..Size :
                Stream[i] = IF i <= n THEN line[i]
                            ELSE IF i <= n + b THEN buffer[i - n] ELSE log[i - (n + b)]
          /\ Stream'[k] = IF k <= n THEN line[k]
                          ELSE IF k <= n + (b - 1) THEN buffer'[k - n]
                          ELSE log[k - (n + (b - 1))]
      BY <1>1, <1>2, <2>1 DEF Stream
    <3>n. n \in Nat /\ b \in Nat
      BY <1>n
    <3>b. b > 0 /\ \A i \in 1..(b - 1) : buffer'[i] = buffer[i + 1]
      BY <1>1
    <3> HIDE DEF n, b
    <3>1. CASE k <= n
      BY <3>s, <3>k, <3>1 DEF n
    <3>2. CASE ~(k <= n) /\ k <= n + (b - 1)
      <4>1. /\ k - n \in 1..(b - 1) /\ (k - n) + 1 = (k + 1) - n
            /\ ~(k + 1 <= n) /\ k + 1 <= n + b
        BY <3>2, <3>n, <3>b
      <4>2. Stream'[k] = buffer[(k - n) + 1] /\ Stream[k + 1] = buffer[(k + 1) - n]
        BY <3>s, <3>k, <3>b, <3>2, <4>1
      <4> QED BY <3>2, <4>1, <4>2 DEF n
    <3>3. CASE ~(k <= n) /\ ~(k <= n + (b - 1))
      <4>1. /\ k - (n + (b - 1)) = (k + 1) - (n + b)
            /\ ~(k + 1 <= n) /\ ~(k + 1 <= n + b)
        BY <3>3, <3>n, <3>b
      <4>2. Stream'[k] = log[k - (n + (b - 1))] /\ Stream[k + 1] = log[(k + 1) - (n + b)]
        BY <3>s, <3>k, <3>3, <4>1
      <4> QED BY <3>3, <4>1, <4>2 DEF n
    <3> QED BY <3>1, <3>2, <3>3
  <2>4. Stream[Len(line) + 1] # Newline
    BY <1>1, <1>n DEF Stream, Size
  <2>5. \A k \in (Len(line) + 1)..(Len(line) + 1) : Stream[k] # Newline
    BY <1>n, <2>4
  <2>6. WholeLines(Stream', Size') /\ SentTogether(Stream', Size', sent)
    <3> HIDE DEF Stream, Size
    <3> QED BY <1>n, <1>w, <2>2, <2>3, <2>5, Thinned
  <2> QED BY <1>0, <1>1, <1>2, <1>l, <2>1, <2>6, StreamStep DEF StreamInv
<1> QED
  BY <1>3, <1>4
\* Every set of numbers has a least one: the first piece of its sort exists.
LEMMA LeastNatural ==
    ASSUME NEW T \in SUBSET Nat, T # {}
    PROVE  \E x \in T : \A y \in T : x <= y
<1> DEFINE R == OpToRel(<, Nat)
<1>1. IsWellFoundedOn(R, Nat)
  BY NatLessThanWellFounded
<1>2. \A x, y \in Nat : x < y => <<x, y>> \in R
  BY DEF OpToRel
<1> HIDE DEF R
<1>3. \E x \in T : \A y \in T : ~ (<<y, x>> \in R)
  BY <1>1, WFMin
<1>4. PICK x \in T : \A y \in T : ~ (<<y, x>> \in R)
  BY <1>3
<1>5. \A y \in T : ~(y < x)
  BY <1>2, <1>4
<1>6. \A y \in T : x <= y
  BY <1>5
<1> QED
  BY <1>6

LEMMA FirstIs ==
    ASSUME NEW sort, Has(sort)
    PROVE  \E m \in 1..Len(line) : line[m].of = sort /\ First(sort) = line[m].is
<1> DEFINE P(m) == line[m].of = sort /\ \A j \in 1..(m - 1) : line[j].of # sort
           T == {m \in 1..Len(line) : line[m].of = sort}
<1>1. T \in SUBSET Nat /\ T # {}
  BY DEF Has
<1>2. PICK m \in T : \A y \in T : m <= y
  BY <1>1, LeastNatural
<1>3. P(m) /\ m \in 1..Len(line)
  BY <1>2
<1>4. PICK n \in 1..Len(line) : n = (CHOOSE i \in 1..Len(line) : P(i)) /\ P(n)
  BY <1>3
<1>5. First(sort) = line[n].is
  BY <1>4 DEF First
<1> QED
  BY <1>4, <1>5

\* A state and an error both found in the line were sent together.
LEMMA LineAsSent ==
    ASSUME StreamInv, Has("state"), Has("error")
    PROVE  [state |-> First("state"), err |-> First("error")] \in sent
<1>1. PICK i \in 1..Len(line) : line[i].of = "state" /\ First("state") = line[i].is
  BY FirstIs
<1>2. PICK j \in 1..Len(line) : line[j].of = "error" /\ First("error") = line[j].is
  BY FirstIs
<1>3. /\ Len(line) \in Nat /\ Size \in Nat
      /\ \A k \in 1..Len(line) : k \in 1..Size
  BY StreamTypes DEF Size
<1>4. \A k \in 1..Len(line) : Stream[k] = line[k]
  BY <1>3 DEF Stream
<1>5. \A k \in 1..Len(line) : Stream[k] # Newline
  BY <1>4 DEF StreamInv
<1>6. \A k \in 1..Size : (i < k /\ k < j) \/ (j < k /\ k < i) => Stream[k] # Newline
  BY <1>3, <1>5
<1>7. [state |-> Stream[i].is, err |-> Stream[j].is] \in sent
  BY <1>1, <1>2, <1>3, <1>4, <1>6 DEF StreamInv, SentTogether
<1> QED
  BY <1>1, <1>2, <1>4, <1>7

LEMMA StreamProcessed ==
    ASSUME StreamInv, ProcessLine
    PROVE  StreamInv'
<1>0. /\ log \in Seq(Pieces) /\ line \in Seq(Pieces) /\ buffer \in Seq(Pieces)
      /\ buffer # <<>>
      /\ Len(buffer) <= Backlog /\ Len(log) <= Backlog /\ Backlog \in Nat
      /\ LineMax \in Nat
  BY ConstantsAssumption DEF StreamInv, ProcessLine, LineEnds
<1>1. /\ buffer' \in Seq(Pieces) /\ Len(buffer') = Len(buffer) - 1
      /\ \A k \in 1..(Len(buffer) - 1) : buffer'[k] = buffer[k + 1]
      /\ Len(buffer) > 0
  BY <1>0, HeadTailProperties DEF ProcessLine, LineEnds
<1>2. /\ log' = log /\ line' = <<>> /\ Len(line') = 0 /\ line' \in Seq(Pieces)
      /\ pc = "wait" /\ UNCHANGED <<sent, elapsed>>
  BY DEF ProcessLine, LineEnds
<1>n. Len(log) \in Nat /\ Len(line) \in Nat /\ Len(buffer) \in Nat /\ Size \in Nat
  BY StreamTypes
<1>w. WholeLines(Stream, Size) /\ SentTogether(Stream, Size, sent)
  BY DEF StreamInv
<1>l. Len(log') <= Backlog /\ Len(buffer') <= Backlog /\ Len(line') <= LineMax
  BY <1>0, <1>1, <1>2, <1>n
<1> DEFINE d == Len(line) + 1
<1>3. d \in Nat /\ d <= Size /\ Size' = Size - d /\ Size' \in Nat
  BY <1>1, <1>2, <1>n DEF Size
<1>4. \A k \in 1..Size' : Stream'[k] = Stream[k + d]
  <2> SUFFICES ASSUME NEW k \in 1..Size' PROVE Stream'[k] = Stream[k + d]
    OBVIOUS
  <2> DEFINE n == Len(line)
             b == Len(buffer)
  <2>k. k + d \in 1..Size
    BY <1>n, <1>3
  <2>s. /\ Stream[k + d] = IF k + d <= n THEN line[k + d]
                           ELSE IF k + d <= n + b THEN buffer[(k + d) - n]
                           ELSE log[(k + d) - (n + b)]
        /\ Stream'[k] = IF k <= 0 THEN line'[k]
                        ELSE IF k <= 0 + (b - 1) THEN buffer'[k - 0]
                        ELSE log[k - (0 + (b - 1))]
    BY <1>1, <1>2, <2>k DEF Stream
  <2>n. n \in Nat /\ b \in Nat /\ b > 0 /\ d = n + 1 /\ d \in Nat
    BY <1>n, <1>1
  <2>b. \A i \in 1..(b - 1) : buffer'[i] = buffer[i + 1]
    BY <1>1
  <2>i. k \in Nat /\ k > 0
    BY <1>3
  <2> HIDE DEF n, b, d
  <2>1. CASE k <= b - 1
    <3>1. k \in 1..(b - 1) /\ k - 0 = k /\ (k + d) - n = k + 1
          /\ ~(k + d <= n) /\ k + d <= n + b /\ ~(k <= 0) /\ k <= 0 + (b - 1)
      BY <2>1, <2>n, <2>i
    <3> QED BY <3>1, <2>s, <2>b
  <2>2. CASE ~(k <= b - 1)
    <3>1. /\ (k + d) - (n + b) = k - (0 + (b - 1))
          /\ ~(k + d <= n) /\ ~(k + d <= n + b) /\ ~(k <= 0) /\ ~(k <= 0 + (b - 1))
      BY <2>2, <2>n, <2>i
    <3> QED BY <3>1, <2>s
  <2> QED BY <2>1, <2>2
<1>5. WholeLines(Stream', Size') /\ SentTogether(Stream', Size', sent')
  <2> HIDE DEF d
  <2>1. \A k \in 1..Size' : Stream'[k] = IF k <= 0 THEN Stream[k] ELSE Stream[k + d]
    BY <1>3, <1>4
  <2>2. 0 + d <= Size /\ 0 \in Nat
    BY <1>3
  <2>3. WholeLines(Stream', Size') /\ SentTogether(Stream', Size', sent)
    BY <1>n, <1>w, <1>3, <2>1, <2>2, Thinned
  <2> QED BY <1>2, <2>3
<1>6. \A k \in 1..Len(line') : line'[k] # Newline
  BY <1>2
<1>7. /\ noise' = noise
      /\ (seen' = seen /\ pc' = pc) \/ (pc' = "done" /\ seen' \in sent)
  <2>1. CASE Has("state") /\ Has("error")
    <3>1. seen' = [state |-> First("state"), err |-> First("error")] /\ pc' = "done"
          /\ noise' = noise
      BY <2>1 DEF ProcessLine, LineEnds, Finish
    <3> QED BY <2>1, <3>1, LineAsSent
  <2>2. CASE ~(Has("state") /\ Has("error"))
    BY <2>2 DEF ProcessLine, LineEnds
  <2> QED BY <2>1, <2>2
<1> QED
  BY <1>0, <1>1, <1>2, <1>l, <1>5, <1>6, <1>7, StreamStep DEF StreamInv
\* A line that reaches the command: its pieces go to the end of the log.
LEMMA StreamLogged ==
    ASSUME StreamInv, pc = "wait", NEW l \in Seq(Pieces), Logged(l),
           NEW R, sent' = R, sent \subseteq R, R \subseteq Status,
           \A i, j \in 1..Len(l) : l[i].of = "state" /\ l[j].of = "error"
              => [state |-> l[i].is, err |-> l[j].is] \in R,
           UNCHANGED <<pc, seen, buffer, line, elapsed>>, noise' \in 0..MaxNoise
    PROVE  StreamInv'
<1>n. Len(log) \in Nat /\ Len(line) \in Nat /\ Len(buffer) \in Nat /\ Size \in Nat
  BY StreamTypes
<1>p. Len(l) \in Nat /\ Backlog \in Nat /\ log \in Seq(Pieces)
  BY ConstantsAssumption DEF StreamInv
<1>w. WholeLines(Stream, Size) /\ SentTogether(Stream, Size, sent)
  BY DEF StreamInv
<1> DEFINE e == Append(l, Newline)
<1>1. /\ e \in Seq(Pieces) /\ Len(e) = Len(l) + 1
      /\ \A k \in 1..Len(l) : e[k] = l[k]
      /\ e[Len(l) + 1] = Newline
  BY NewlineIs, AppendProperties
<1>2. log' = log \o e
  BY DEF Logged
<1> HIDE DEF e
<1>3. /\ log' \in Seq(Pieces) /\ Len(log') = Len(log) + Len(e)
      /\ \A k \in 1..(Len(log) + Len(e)) :
            log'[k] = IF k <= Len(log) THEN log[k] ELSE e[k - Len(log)]
  <2>1. \A x \in Seq(Pieces) :
           /\ log \o x \in Seq(Pieces) /\ Len(log \o x) = Len(log) + Len(x)
           /\ \A k \in 1..(Len(log) + Len(x)) :
                 (log \o x)[k] = IF k <= Len(log) THEN log[k] ELSE x[k - Len(log)]
    BY <1>p, ConcatProperties, Zenon
  <2> QED BY <1>1, <1>2, <2>1, Zenon
<1>4. Size' = Size + Len(l) + 1 /\ Size' \in Nat
  BY <1>1, <1>3, <1>n, <1>p DEF Size
<1> DEFINE n == Len(line)
           b == Len(buffer)
           g == Len(log)
<1>5. \A k \in 1..Size' :
         Stream'[k] = IF k <= n THEN line[k]
                      ELSE IF k <= n + b THEN buffer[k - n] ELSE log'[k - (n + b)]
  BY DEF Stream
<1>6. \A k \in 1..Size :
         Stream[k] = IF k <= n THEN line[k]
                     ELSE IF k <= n + b THEN buffer[k - n] ELSE log[k - (n + b)]
  BY DEF Stream
<1>7. Size = n + b + g /\ n \in Nat /\ b \in Nat /\ g \in Nat
  BY <1>n DEF Size
<1>8. \A k \in 1..Size : Stream'[k] = Stream[k]
  <2> SUFFICES ASSUME NEW k \in 1..Size PROVE Stream'[k] = Stream[k]
    OBVIOUS
  <2>0. k \in 1..Size'
    BY <1>4, <1>n, <1>p
  <2>1. CASE k <= n + b
    BY <2>0, <2>1, <1>5, <1>6, <1>7
  <2>2. CASE ~(k <= n + b)
    <3>1. k - (n + b) \in 1..(g + Len(e)) /\ k - (n + b) <= g /\ ~(k <= n)
      BY <2>2, <1>7, <1>1, <1>p
    <3>2. log'[k - (n + b)] = log[k - (n + b)]
      BY <3>1, <1>3
    <3> QED BY <2>0, <2>2, <3>1, <3>2, <1>5, <1>6
  <2> QED BY <2>1, <2>2
<1>9. \A k \in 1..(Len(l) + 1) : Stream'[Size + k] = e[k]
  <2> SUFFICES ASSUME NEW k \in 1..(Len(l) + 1) PROVE Stream'[Size + k] = e[k]
    OBVIOUS
  <2>1. /\ Size + k \in 1..Size' /\ ~(Size + k <= n) /\ ~(Size + k <= n + b)
        /\ (Size + k) - (n + b) = g + k
    BY <1>4, <1>7, <1>p
  <2>2. g + k \in 1..(g + Len(e)) /\ ~(g + k <= g) /\ (g + k) - g = k
    BY <1>1, <1>7, <1>p
  <2>3. log'[g + k] = e[k]
    BY <2>2, <1>3
  <2> QED BY <2>1, <2>3, <1>5
<1>10. /\ \A k \in 1..Len(l) : Stream'[Size + k] = l[k]
       /\ Stream'[Size + Len(l) + 1] = Newline
  <2>1. /\ \A k \in 1..Len(l) : k \in 1..(Len(l) + 1)
        /\ Len(l) + 1 \in 1..(Len(l) + 1) /\ Size + (Len(l) + 1) = Size + Len(l) + 1
    BY <1>p, <1>n
  <2> QED BY <2>1, <1>1, <1>9
<1>11. WholeLines(Stream', Size') /\ SentTogether(Stream', Size', sent')
  <2>1. WholeLines(Stream', Size + Len(l) + 1) /\ SentTogether(Stream', Size + Len(l) + 1, R)
    BY <1>n, <1>p, <1>w, <1>8, <1>10, Extended
  <2> QED BY <2>1, <1>4
<1>12. Len(log') <= Backlog
  BY <1>1, <1>3, <1>p, <1>n DEF Logged
<1> QED
  BY <1>3, <1>11, <1>12, StreamStep DEF StreamInv

\* What the lines are made of.
LEMMA LinesAre ==
    /\ \A l \in NoiseLines : /\ l \in Seq(Pieces)
                             /\ \A i, j \in 1..Len(l) : ~(l[i].of = "state" /\ l[j].of = "error")
    /\ \A t \in Status : \A l \in StatusLines(t) :
          /\ l \in Seq(Pieces)
          /\ \A i, j \in 1..Len(l) : l[i].of = "state" /\ l[j].of = "error"
                => [state |-> l[i].is, err |-> l[j].is] = t
<1>1. ASSUME NEW l \in NoiseLines
      PROVE  /\ l \in Seq(Pieces)
             /\ \A i, j \in 1..Len(l) : ~(l[i].of = "state" /\ l[j].of = "error")
  <2>1. PICK x \in Pieces : l = <<x>>
    BY DEF NoiseLines, Pieces, HexDigits
  <2>2. Len(l) = 1 /\ l[1] = x /\ l \in Seq(Pieces)
    BY <2>1
  <2> QED BY <2>2
<1>2. ASSUME NEW t \in Status, NEW l \in StatusLines(t)
      PROVE  /\ l \in Seq(Pieces)
             /\ \A i, j \in 1..Len(l) : l[i].of = "state" /\ l[j].of = "error"
                   => [state |-> l[i].is, err |-> l[j].is] = t
  <2>1. /\ t = [state |-> t.state, err |-> t.err]
        /\ State(t.state) \in Pieces /\ Error(t.err) \in Pieces /\ Other \in Pieces
    BY DEF Status, Pieces
  <2>2. /\ State(t.state).of = "state" /\ State(t.state).is = t.state
        /\ Error(t.err).of = "error" /\ Error(t.err).is = t.err
        /\ Other.of = "other"
    BY DEF State, Error, Other
  <2>3. CASE l = <<State(t.state), Error(t.err)>>
    <3>1. Len(l) = 2 /\ l[1] = State(t.state) /\ l[2] = Error(t.err) /\ l \in Seq(Pieces)
      BY <2>1, <2>3
    <3> QED BY <2>1, <2>2, <3>1
  <2>4. CASE l = <<Other, State(t.state), Error(t.err)>>
    <3>1. /\ Len(l) = 3 /\ l[1] = Other /\ l[2] = State(t.state) /\ l[3] = Error(t.err)
          /\ l \in Seq(Pieces)
      BY <2>1, <2>4
    <3> QED BY <2>1, <2>2, <3>1
  <2> QED BY <2>3, <2>4 DEF StatusLines
<1> QED
  BY <1>1, <1>2

LEMMA StreamInductive == RequestInv /\ StreamInv /\ [Next]_vars => StreamInv'
<1> SUFFICES ASSUME RequestInv, StreamInv, [Next]_vars PROVE StreamInv'
  OBVIOUS
<1>1. ASSUME NEW s \in Services, Ask(s) \/ Unasked(s) \/ NoAnswer(s) \/ Answer(s)
      PROVE  StreamInv'
  <2>1. pc # "done" /\ pc # "wait"
    BY <1>1 DEF Ask, Unasked, NoAnswer, Answer, Asking, Waiting
  <2>2. UNCHANGED <<watching, noise, seen>> /\ pc' # "wait"
    BY <1>1 DEF Ask, Unasked, NoAnswer, Answer, NextService, Started, Goto, Waiting
  <2> QED BY <2>1, <2>2, StreamKept
<1>2. CASE Watch
  BY <1>2, StreamWatched
<1>3. CASE WatchFails \/ SelectFails \/ NoFile
  BY <1>3, StreamKept DEF WatchFails, SelectFails, NotWatched, NoFile, Goto
<1>t. /\ elapsed \in Nat /\ elapsed <= Timeout /\ Timeout \in Nat
      /\ (pc = "wait" => elapsed < Timeout)
  BY ConstantsAssumption DEF StreamInv
<1>4. CASE Tick \/ LogCloses
  <2>1. /\ pc = "wait" /\ UNCHANGED <<log, sent, buffer, line, noise>>
        /\ elapsed' \in {elapsed, elapsed + 1}
        /\ (pc' = pc /\ seen' = seen /\ elapsed' < Timeout) \/ (pc' = "done" /\ seen' = None)
    BY <1>4, <1>t DEF Tick, Idle, LogCloses, Finish, watching
  <2>2. elapsed' \in 0..Timeout /\ (pc' = "wait" => elapsed' < Timeout)
    BY <1>t, <2>1
  <2>3. Size' = Size /\ Stream' = Stream
    BY <2>1 DEF Size, Stream
  <2>4. /\ log' \in Seq(Pieces) /\ buffer' \in Seq(Pieces) /\ line' \in Seq(Pieces)
        /\ Len(log') <= Backlog /\ Len(buffer') <= Backlog /\ Len(line') <= LineMax
        /\ \A k \in 1..Len(line') : line'[k] # Newline
        /\ sent' \subseteq Status /\ noise' \in 0..MaxNoise
    BY <2>1 DEF StreamInv
  <2>5. WholeLines(Stream', Size') /\ SentTogether(Stream', Size', sent')
    BY <2>1, <2>3 DEF StreamInv
  <2> QED BY <2>1, <2>2, <2>4, <2>5, StreamStep
<1>5. CASE \E m \in 1..Len(log) : ReadLog(m)
  BY <1>5, StreamRead
<1>6. CASE Accumulate
  BY <1>6, StreamAccumulated
<1>7. CASE ProcessLine
  BY <1>7, StreamProcessed
<1>8. CASE \E l \in NoiseLines : LogNoise(l)
  <2>1. PICK l \in NoiseLines : LogNoise(l)
    BY <1>8
  <2>2. noise' \in 0..MaxNoise
    BY <2>1, ConstantsAssumption DEF LogNoise, StreamInv
  <2>3. /\ pc = "wait" /\ Logged(l) /\ sent' = sent
        /\ UNCHANGED <<pc, seen, buffer, line, elapsed>>
    BY <2>1 DEF LogNoise
  <2>4. sent \subseteq Status
    BY DEF StreamInv
  <2> QED BY <2>2, <2>3, <2>4, LinesAre, StreamLogged
<1>9. CASE \E w \in BOOLEAN : Begin(w)
  BY <1>9, StreamKept DEF Begin
<1>10. ASSUME NEW s \in Services,
              Accepts(s) \/ Refuses(s) \/ \E r \in Texts : Replies(s, r)
       PROVE  StreamInv'
  BY <1>10, StreamKept DEF Accepts, Refuses, Replies
<1>11. CASE \E t \in Status : \E l \in StatusLines(t) : InstallationEnds(t, l)
  <2>1. PICK t \in Status : \E l \in StatusLines(t) : InstallationEnds(t, l)
    BY <1>11
  <2>2. PICK l \in StatusLines(t) : InstallationEnds(t, l)
    BY <2>1
  <2>3. CASE pc = "wait"
    <3> DEFINE R == sent \cup {t}
    <3>1. /\ Logged(l) /\ sent' = R
          /\ UNCHANGED <<pc, seen, noise, buffer, line, elapsed>>
      BY <2>2, <2>3 DEF InstallationEnds
    <3>2. sent \subseteq R /\ t \in R /\ R \subseteq Status /\ noise' \in 0..MaxNoise
      BY <3>1 DEF StreamInv
    <3>3. /\ l \in Seq(Pieces)
          /\ \A i, j \in 1..Len(l) : l[i].of = "state" /\ l[j].of = "error"
                => [state |-> l[i].is, err |-> l[j].is] \in R
      BY <2>2, <3>2, LinesAre
    <3> HIDE DEF R
    <3> QED BY <2>3, <3>1, <3>2, <3>3, StreamLogged
  <2>4. CASE pc # "wait"
    BY <2>2, <2>4, StreamKept DEF InstallationEnds, Logged, watching
  <2> QED BY <2>3, <2>4
<1>12. CASE UNCHANGED vars
  BY <1>12, StreamKept DEF vars
<1> QED
  BY <1>1, <1>2, <1>3, <1>4, <1>5, <1>6, <1>7, <1>8, <1>9, <1>10, <1>11, <1>12
     DEF Next, CommandStep

\* However the log is cut up by read(), whatever the buffer for a line cannot
\* hold, and whatever lines come in between: klog_wait_install ends only on a
\* state and an error number that one and the same line carried.
THEOREM StatusAsSent == Spec => []SeenAsSent
<1>1. StreamInv => SeenAsSent
  BY DEF StreamInv, SeenAsSent
<1> QED
  BY <1>1, RequestInitial, RequestInductive, StreamInitial, StreamInductive, PTL DEF Spec

\* Every variable keeps its type; in particular the line never outgrows its
\* buffer and no more than Timeout idle seconds are counted.
THEOREM InstallTypes == Spec => []TypeOK
<1>1. RequestInv /\ StreamInv => TypeOK
  BY DEF RequestInv, StreamInv, TypeOK, Unanswered
<1> QED
  BY <1>1, RequestInitial, RequestInductive, StreamInitial, StreamInductive, PTL DEF Spec
=============================================================================
