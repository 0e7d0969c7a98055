---------------------------- MODULE SignInRxProofs ----------------------------
(***************************************************************************)
(* Proofs about SignInRx, for any texts, accounts and number of concurrent *)
(* sign-in calls.                                                          *)
(*                                                                         *)
(* The main thread's work has a dozen stages.  The first part says where   *)
(* each step of it starts and ends; the invariant follows, and with it     *)
(* that every step is a step of SignIn or is invisible to it.              *)
(***************************************************************************)
EXTENDS SignInRx, SequenceTheorems, TLAPS

SP == INSTANCE SignInProofs WITH latest <- Latest, attempts <- Attempts, observed <- Observed

-----------------------------------------------------------------------------
(***************************************************************************)
(* Work is a sequence of steps that is taken from the front.               *)
(***************************************************************************)

\* The shared sequences, and what each subscribes to.
LEMMA SourcesAre ==
  /\ Shared = {"withLatest", "combined", "login", "password"}
  /\ Sources["withLatest"] = <<"combined">>
  /\ Sources["combined"] = <<"login", "password">>
  /\ Sources["login"] = << >>
  /\ Sources["password"] = << >>
  BY DEF Shared, Sources

\* The work that joining or leaving the sources of a sequence makes.
LEMMA EachIs ==
  ASSUME NEW verb
  PROVE  /\ Each(verb, << >>) = << >>
         /\ \A x : Each(verb, <<x>>) = <<<<verb, x>>>>
         /\ \A x, y : Each(verb, <<x, y>>) = <<<<verb, x>>, <<verb, y>>>>
  BY DEF Each

\* Work that consists of one step or two.
LEMMA ShortWork ==
  ASSUME NEW s, NEW t
  PROVE  /\ <<s>> # << >> /\ <<s>>[1] = s /\ Tail(<<s>>) = << >>
         /\ <<s, t>> # << >> /\ <<s, t>>[1] = s /\ Tail(<<s, t>>) = <<t>>
         /\ <<s>> \o << >> = <<s>> /\ << >> \o <<s>> = <<s>>
         /\ <<s, t>> \o << >> = <<s, t>> /\ << >> \o <<s, t>> = <<s, t>>
  OBVIOUS

\* Two steps, one after the other.
LEMMA WorkOfTwo ==
  ASSUME NEW s, NEW t
  PROVE  <<s>> \o <<t>> = <<s, t>>
  <1> DEFINE E == {s, t}
  <1>1. /\ <<s>> \in Seq(E) /\ <<t>> \in Seq(E) /\ <<s, t>> \in Seq(E)
    OBVIOUS
  <1>2. Len(<<s>>) = 1 /\ Len(<<t>>) = 1 /\ Len(<<s, t>>) = 2
    OBVIOUS
  <1>3. <<s>> \o <<t>> \in Seq(E) /\ Len(<<s>> \o <<t>>) = 2
    BY <1>1, <1>2
  <1>4. \A i \in 1..2 : (<<s>> \o <<t>>)[i] = <<s, t>>[i]
    BY <1>1, <1>2
  <1> QED
    BY <1>1, <1>2, <1>3, <1>4, SeqEqual

\* What follows the steps of taking down stays behind them.
LEMMA BeforeAfterwards ==
  ASSUME NEW s, NEW t
  PROVE  /\ << >> \o Afterwards = Afterwards
         /\ << >> \o (<<s>> \o Afterwards) = <<s>> \o Afterwards
         /\ <<s>> \o Afterwards # << >>
         /\ (<<s>> \o Afterwards)[1] = s
         /\ Tail(<<s>> \o Afterwards) = Afterwards
         /\ <<s, t>> \o Afterwards # << >>
         /\ (<<s, t>> \o Afterwards)[1] = s
         /\ Tail(<<s, t>> \o Afterwards) = <<t>> \o Afterwards
  <1> DEFINE E == {s, t, <<"subscribe">>}
  <1>1. Afterwards \in Seq(E)
    <2>1. << >> \in Seq(E) /\ <<<<"subscribe">>>> \in Seq(E)
      OBVIOUS
    <2> QED
      BY <2>1 DEF Afterwards
  <1>2. <<s>> \in Seq(E) /\ <<t>> \in Seq(E) /\ <<s, t>> \in Seq(E)
    OBVIOUS
  <1>3. <<s, t>> \o Afterwards = <<s>> \o (<<t>> \o Afterwards)
    <2>1. <<s, t>> = <<s>> \o <<t>>
      BY WorkOfTwo
    <2>2. (<<s>> \o <<t>>) \o Afterwards = <<s>> \o (<<t>> \o Afterwards)
      <3> HIDE DEF E
      <3> QED
        BY <1>1, <1>2, ConcatAssociative
    <2> QED
      BY <2>1, <2>2
  <1>4. << >> \o Afterwards = Afterwards
    BY <1>1
  <1>5. ASSUME NEW r \in Seq(E)
        PROVE  <<s>> \o r # << >> /\ (<<s>> \o r)[1] = s /\ Tail(<<s>> \o r) = r
    OBVIOUS
  <1>6. <<s>> \o Afterwards \in Seq(E) /\ <<t>> \o Afterwards \in Seq(E)
    BY <1>1, <1>2
  <1>7. << >> \o (<<s>> \o Afterwards) = <<s>> \o Afterwards
    BY <1>6
  <1> QED
    BY <1>1, <1>3, <1>4, <1>5, <1>6, <1>7

-----------------------------------------------------------------------------
(***************************************************************************)
(* The step that the main thread takes next tells the stage of its work.   *)
(***************************************************************************)

\* The kinds of steps.
LEMMA StepsDiffer ==
  /\ <<"retry">>[1] = "retry" /\ <<"subscribe">>[1] = "subscribe"
  /\ \A verb, x : <<verb, x>>[1] = verb /\ <<verb, x>>[2] = x
  OBVIOUS

\* The end of an answer (onCompleted and onError of flatMap's inner observer).
LEMMA FirstOfAnswer ==
  ASSUME NEW s, Answered(s)
  PROVE  Busy /\ todo[1] = s /\ Tail(todo) = << >>
  BY ShortWork DEF Answered, At, Busy

\* The first steps of taking the pipeline down (the disposables of its sinks).
LEMMA FirstOfTakingDown ==
  ASSUME TakingDown
  PROVE  /\ Busy
         /\ \/ \E k \in 1..S!MaxAttempts :
                 /\ todo[1][1] = "dispose" /\ todo[1][2] = k
                 /\ At(<<<<"dispose", k>>>> \o Afterwards, Shared, {k})
            \/ /\ todo[1][1] = "leave" /\ todo[1][2] = "withLatest"
               /\ At(<<<<"leave", "withLatest">>>> \o Afterwards, Shared, {})
            \/ /\ todo[1][1] = "leave" /\ todo[1][2] = "combined"
               /\ At(<<<<"leave", "combined">>>> \o Afterwards, Shared \ {"withLatest"}, {})
            \/ /\ todo[1][1] = "leave" /\ todo[1][2] = "login"
               /\ At(<<<<"leave", "login">>, <<"leave", "password">>>> \o Afterwards, Field, {})
            \/ /\ todo[1][1] = "leave" /\ todo[1][2] = "password"
               /\ At(<<<<"leave", "password">>>> \o Afterwards, {"password"}, {})
  <1>1. ASSUME NEW k \in 1..S!MaxAttempts,
               At(<<<<"dispose", k>>>> \o Afterwards, Shared, {k})
        PROVE  Busy /\ todo[1][1] = "dispose" /\ todo[1][2] = k
    <2>1. Busy /\ todo[1] = <<"dispose", k>>
      BY <1>1, BeforeAfterwards DEF At, Busy
    <2> QED
      BY <2>1, StepsDiffer
  <1>2. ASSUME NEW n, NEW c, At(<<<<"leave", n>>>> \o Afterwards, c, {})
        PROVE  Busy /\ todo[1][1] = "leave" /\ todo[1][2] = n
    <2>1. Busy /\ todo[1] = <<"leave", n>>
      BY <1>2, BeforeAfterwards DEF At, Busy
    <2> QED
      BY <2>1, StepsDiffer
  <1>3. ASSUME At(<<<<"leave", "login">>, <<"leave", "password">>>> \o Afterwards, Field, {})
        PROVE  Busy /\ todo[1][1] = "leave" /\ todo[1][2] = "login"
    <2>1. Busy /\ todo[1] = <<"leave", "login">>
      BY <1>3, BeforeAfterwards DEF At, Busy
    <2> QED
      BY <2>1, StepsDiffer
  <1>4. CASE \E k \in 1..S!MaxAttempts : At(<<<<"dispose", k>>>> \o Afterwards, Shared, {k})
    BY <1>1, <1>4
  <1>5. CASE At(<<<<"leave", "withLatest">>>> \o Afterwards, Shared, {})
    BY <1>2, <1>5
  <1>6. CASE At(<<<<"leave", "combined">>>> \o Afterwards, Shared \ {"withLatest"}, {})
    BY <1>2, <1>6
  <1>7. CASE At(<<<<"leave", "login">>, <<"leave", "password">>>> \o Afterwards, Field, {})
    BY <1>3, <1>7
  <1>8. CASE At(<<<<"leave", "password">>>> \o Afterwards, {"password"}, {})
    BY <1>2, <1>8
  <1> QED
    BY <1>4, <1>5, <1>6, <1>7, <1>8 DEF TakingDown

\* The first steps of setting it up (the subscribe methods of the operators).
LEMMA FirstOfSettingUp ==
  ASSUME SettingUp
  PROVE  /\ Busy /\ ~over
         /\ \/ todo[1][1] = "subscribe" /\ At(<<<<"subscribe">>>>, {}, {})
            \/ /\ todo[1][1] = "join" /\ todo[1][2] = "withLatest"
               /\ At(<<<<"join", "withLatest">>>>, {}, {Number})
            \/ /\ todo[1][1] = "join" /\ todo[1][2] = "combined"
               /\ At(<<<<"join", "combined">>>>, {"withLatest"}, {Number})
            \/ /\ todo[1][1] = "join" /\ todo[1][2] = "login"
               /\ At(<<<<"join", "login">>, <<"join", "password">>>>,
                     {"withLatest", "combined"}, {Number})
            \/ /\ todo[1][1] = "join" /\ todo[1][2] = "password"
               /\ At(<<<<"join", "password">>>>, Shared \ {"password"}, {Number})
  <1>1. ASSUME NEW s, NEW c, NEW a, At(<<s>>, c, a)
        PROVE  Busy /\ todo[1] = s
    BY <1>1, ShortWork DEF At, Busy
  <1>2. ASSUME NEW s, NEW t, NEW c, NEW a, At(<<s, t>>, c, a)
        PROVE  Busy /\ todo[1] = s
    BY <1>2, ShortWork DEF At, Busy
  <1> QED
    BY <1>1, <1>2, StepsDiffer DEF SettingUp

\* The verb of the next step, and what it is about, tell the stage.
LEMMA FirstStep ==
  ASSUME Whereabouts, Busy
  PROVE  \/ todo[1][1] = "retry" /\ Answered(<<"retry">>)
         \/ todo[1][1] = "complete" /\ Answered(<<"complete", todo[1][2]>>)
         \/ /\ todo[1][1] = "dispose"
            /\ At(<<<<"dispose", todo[1][2]>>>> \o Afterwards, Shared, {todo[1][2]})
         \/ /\ todo[1][1] = "leave" /\ todo[1][2] = "withLatest"
            /\ At(<<<<"leave", "withLatest">>>> \o Afterwards, Shared, {})
         \/ /\ todo[1][1] = "leave" /\ todo[1][2] = "combined"
            /\ At(<<<<"leave", "combined">>>> \o Afterwards, Shared \ {"withLatest"}, {})
         \/ /\ todo[1][1] = "leave" /\ todo[1][2] = "login"
            /\ At(<<<<"leave", "login">>, <<"leave", "password">>>> \o Afterwards, Field, {})
         \/ /\ todo[1][1] = "leave" /\ todo[1][2] = "password"
            /\ At(<<<<"leave", "password">>>> \o Afterwards, {"password"}, {})
         \/ todo[1][1] = "subscribe" /\ ~over /\ At(<<<<"subscribe">>>>, {}, {})
         \/ /\ todo[1][1] = "join" /\ todo[1][2] = "withLatest" /\ ~over
            /\ At(<<<<"join", "withLatest">>>>, {}, {Number})
         \/ /\ todo[1][1] = "join" /\ todo[1][2] = "combined" /\ ~over
            /\ At(<<<<"join", "combined">>>>, {"withLatest"}, {Number})
         \/ /\ todo[1][1] = "join" /\ todo[1][2] = "login" /\ ~over
            /\ At(<<<<"join", "login">>, <<"join", "password">>>>,
                  {"withLatest", "combined"}, {Number})
         \/ /\ todo[1][1] = "join" /\ todo[1][2] = "password" /\ ~over
            /\ At(<<<<"join", "password">>>>, Shared \ {"password"}, {Number})
  <1>1. CASE Idle
    BY <1>1 DEF Idle, At, Busy
  <1>2. ASSUME NEW r \in Request, Answered(<<"complete", r>>)
        PROVE  todo[1][1] = "complete" /\ Answered(<<"complete", todo[1][2]>>)
    BY <1>2, FirstOfAnswer, StepsDiffer
  <1>3. CASE Answered(<<"retry">>)
    BY <1>3, FirstOfAnswer, StepsDiffer
  <1>4. CASE TakingDown
    BY <1>4, FirstOfTakingDown
  <1>5. CASE SettingUp
    BY <1>5, FirstOfSettingUp
  <1> QED
    BY <1>1, <1>2, <1>3, <1>4, <1>5 DEF Whereabouts

\* Between two pieces of work.
LEMMA WhenIdle ==
  ASSUME Whereabouts
  PROVE  ~Busy <=> Idle
  <1>1. Idle => ~Busy
    BY DEF Idle, At, Busy
  <1>2. ~Busy => Idle
    BY FirstOfAnswer, FirstOfTakingDown, FirstOfSettingUp DEF Whereabouts
  <1> QED
    BY <1>1, <1>2

\* A failure has been reported.
LEMMA WhenRetrying ==
  ASSUME Whereabouts, RetryDue
  PROVE  Answered(<<"retry">>)
  <1>1. Busy /\ todo[1][1] = "retry"
    BY StepsDiffer DEF RetryDue
  <1> QED
    BY <1>1, FirstStep

\* A call that succeeded ends.
LEMMA WhenCompleting ==
  ASSUME Whereabouts, NEW r, Completing(r)
  PROVE  Answered(<<"complete", r>>)
  <1>1. Busy /\ todo[1][1] = "complete" /\ todo[1][2] = r
    BY StepsDiffer DEF Completing
  <1> QED
    BY <1>1, FirstStep

\* The subscription that failed is disposed.
LEMMA WhenDisposing ==
  ASSUME Whereabouts, NEW k, Doing(<<"dispose", k>>)
  PROVE  At(<<<<"dispose", k>>>> \o Afterwards, Shared, {k})
  <1>1. Busy /\ todo[1][1] = "dispose" /\ todo[1][2] = k
    BY StepsDiffer DEF Doing
  <1> QED
    BY <1>1, FirstStep

\* A shared sequence is left.
LEMMA WhenLeaving ==
  ASSUME Whereabouts, NEW n, Doing(<<"leave", n>>)
  PROVE  \/ /\ n = "withLatest"
            /\ At(<<<<"leave", "withLatest">>>> \o Afterwards, Shared, {})
         \/ /\ n = "combined"
            /\ At(<<<<"leave", "combined">>>> \o Afterwards, Shared \ {"withLatest"}, {})
         \/ /\ n = "login"
            /\ At(<<<<"leave", "login">>, <<"leave", "password">>>> \o Afterwards, Field, {})
         \/ /\ n = "password"
            /\ At(<<<<"leave", "password">>>> \o Afterwards, {"password"}, {})
  <1>1. Busy /\ todo[1][1] = "leave" /\ todo[1][2] = n
    BY StepsDiffer DEF Doing
  <1> QED
    BY <1>1, FirstStep

\* The source is subscribed to.
LEMMA WhenSubscribing ==
  ASSUME Whereabouts, Doing(<<"subscribe">>)
  PROVE  ~over /\ At(<<<<"subscribe">>>>, {}, {})
  <1>1. Busy /\ todo[1][1] = "subscribe"
    BY StepsDiffer DEF Doing
  <1> QED
    BY <1>1, FirstStep

\* A shared sequence is joined.
LEMMA WhenJoining ==
  ASSUME Whereabouts, NEW n, Doing(<<"join", n>>)
  PROVE  /\ ~over
         /\ \/ n = "withLatest" /\ At(<<<<"join", "withLatest">>>>, {}, {Number})
            \/ n = "combined" /\ At(<<<<"join", "combined">>>>, {"withLatest"}, {Number})
            \/ /\ n = "login"
               /\ At(<<<<"join", "login">>, <<"join", "password">>>>,
                     {"withLatest", "combined"}, {Number})
            \/ n = "password" /\ At(<<<<"join", "password">>>>, Shared \ {"password"}, {Number})
  <1>1. Busy /\ todo[1][1] = "join" /\ todo[1][2] = n
    BY StepsDiffer DEF Doing
  <1> QED
    BY <1>1, FirstStep

-----------------------------------------------------------------------------
(***************************************************************************)
(* Where each step leads.                                                  *)
(***************************************************************************)

\* One sequence less, or one more, is connected.
LEMMA OneLess ==
  ASSUME NEW c, NEW n \in Shared, n \in c
  PROVE  /\ Connected(c)[n] = 1
         /\ [Connected(c) EXCEPT ![n] = @ - 1] = Connected(c \ {n})
  <1>1. Connected(c) = [m \in Shared |-> IF m \in c THEN 1 ELSE 0]
    BY DEF Connected
  <1>2. Connected(c \ {n}) = [m \in Shared |-> IF m \in c \ {n} THEN 1 ELSE 0]
    BY DEF Connected
  <1>3. \A m \in Shared : [Connected(c) EXCEPT ![n] = @ - 1][m] = Connected(c \ {n})[m]
    BY <1>1, <1>2
  <1>4. DOMAIN [Connected(c) EXCEPT ![n] = @ - 1] = Shared
    BY <1>1
  <1> QED
    BY <1>1, <1>2, <1>3, <1>4

LEMMA OneMore ==
  ASSUME NEW c, NEW n \in Shared, n \notin c
  PROVE  /\ Connected(c)[n] = 0
         /\ [Connected(c) EXCEPT ![n] = @ + 1] = Connected(c \union {n})
  <1>1. Connected(c) = [m \in Shared |-> IF m \in c THEN 1 ELSE 0]
    BY DEF Connected
  <1>2. Connected(c \union {n}) = [m \in Shared |-> IF m \in c \union {n} THEN 1 ELSE 0]
    BY DEF Connected
  <1>3. \A m \in Shared : [Connected(c) EXCEPT ![n] = @ + 1][m] = Connected(c \union {n})[m]
    BY <1>1, <1>2
  <1>4. DOMAIN [Connected(c) EXCEPT ![n] = @ + 1] = Shared
    BY <1>1
  <1> QED
    BY <1>1, <1>2, <1>3, <1>4

\* The error that reaches retry takes down the subscription it came from
\* (moveNextCommand), and the last one takes retry down as well.
LEMMA RetryGoes ==
  ASSUME RxTypeOK, Whereabouts, Retry
  PROVE  /\ Answered(<<"retry">>)
         /\ Number \in 1..S!MaxAttempts
         /\ TakingDown'
  <1>1. Answered(<<"retry">>)
    BY WhenRetrying DEF Retry
  <1>2. Number \in 1..S!MaxAttempts
    BY DEF RxTypeOK, Number, S!MaxAttempts
  <1>3. todo' = <<<<"dispose", Number>>>> \o Afterwards'
    <2>1. ~over
      BY <1>1 DEF Answered
    <2>2. CASE left > 0
      <3>1. todo' = <<<<"dispose", Number>>, <<"subscribe">>>>
        BY <2>2 DEF Retry
      <3>2. Afterwards' = <<<<"subscribe">>>>
        BY <2>1, <2>2 DEF Retry, Afterwards
      <3> QED
        BY <3>1, <3>2, WorkOfTwo
    <2>3. CASE ~(left > 0)
      <3>1. todo' = <<<<"dispose", Number>>>>
        BY <2>3 DEF Retry
      <3>2. Afterwards' = << >>
        BY <2>3 DEF Retry, Afterwards
      <3> QED
        BY <3>1, <3>2, ShortWork
    <2> QED
      BY <2>2, <2>3
  <1>4. users' = users /\ sinks' = sinks
    BY DEF Retry
  <1>5. \E k \in 1..S!MaxAttempts : At(<<<<"dispose", k>>>> \o Afterwards, Shared, {k})'
    BY <1>1, <1>2, <1>3, <1>4 DEF Answered, At
  <1>6. TakingDown'
    BY <1>5 DEF TakingDown
  <1> QED
    BY <1>1, <1>2, <1>6

\* The sink of flatMap is disposed and leaves the sequence of taps.
LEMMA DisposeGoes ==
  ASSUME Whereabouts, NEW k, Dispose(k)
  PROVE  /\ At(<<<<"dispose", k>>>> \o Afterwards, Shared, {k})
         /\ At(<<<<"leave", "withLatest">>>> \o Afterwards, Shared, {})'
         /\ TakingDown'
  <1>1. At(<<<<"dispose", k>>>> \o Afterwards, Shared, {k})
    BY WhenDisposing DEF Dispose
  <1>2. todo' = <<<<"leave", "withLatest">>>> \o Afterwards
    BY <1>1, BeforeAfterwards DEF Dispose, At
  <1>3. users' = users /\ sinks' = {} /\ Afterwards' = Afterwards
    BY <1>1 DEF Dispose, At, Afterwards
  <1>4. At(<<<<"leave", "withLatest">>>> \o Afterwards, Shared, {})'
    BY <1>1, <1>2, <1>3 DEF At
  <1> QED
    BY <1>1, <1>4 DEF TakingDown

\* The last observer of a shared sequence takes it down, and its sources after
\* it in their order, before what follows is begun.
LEMMA LeaveGoes ==
  ASSUME Whereabouts, NEW n \in Shared, Leave(n)
  PROVE  /\ users[n] = 1
         /\ TakingDown
         /\ n = "combined" => users["withLatest"] = 0
         /\ n = "password" => users = Connected({"password"}) /\ users' = Connected({})
         /\ n = "password" => SettingUp' \/ (over /\ Idle')
         /\ n # "password" => TakingDown'
  <1> USE SourcesAre
  <1>1. Afterwards' = Afterwards /\ sinks' = sinks /\ over' = over
    BY DEF Leave, Afterwards
  <1>2. CASE n = "withLatest" /\ At(<<<<"leave", "withLatest">>>> \o Afterwards, Shared, {})
    <2>1. /\ users[n] = 1
          /\ users' = Connected(Shared \ {"withLatest"})
      BY <1>2, OneLess DEF Leave, At
    <2>2. todo' = <<<<"leave", "combined">>>> \o Afterwards
      BY <1>2, <2>1, EachIs, BeforeAfterwards DEF Leave, At
    <2>3. At(<<<<"leave", "combined">>>> \o Afterwards, Shared \ {"withLatest"}, {})'
      BY <1>1, <1>2, <2>1, <2>2 DEF At
    <2> QED
      BY <1>2, <2>1, <2>3 DEF TakingDown
  <1>3. CASE /\ n = "combined"
             /\ At(<<<<"leave", "combined">>>> \o Afterwards, Shared \ {"withLatest"}, {})
    <2>1. /\ users[n] = 1
          /\ users' = Connected(Field)
      <3>1. (Shared \ {"withLatest"}) \ {"combined"} = Field
        BY DEF Field
      <3> QED
        BY <1>3, <3>1, OneLess DEF Leave, At
    <2>4. users["withLatest"] = 0
      BY <1>3 DEF At, Connected
    <2>2. todo' = <<<<"leave", "login">>, <<"leave", "password">>>> \o Afterwards
      BY <1>3, <2>1, EachIs, BeforeAfterwards DEF Leave, At
    <2>3. At(<<<<"leave", "login">>, <<"leave", "password">>>> \o Afterwards, Field, {})'
      BY <1>1, <1>3, <2>1, <2>2 DEF At
    <2> QED
      BY <1>3, <2>1, <2>3, <2>4 DEF TakingDown
  <1>4. CASE /\ n = "login"
             /\ At(<<<<"leave", "login">>, <<"leave", "password">>>> \o Afterwards, Field, {})
    <2>1. /\ users[n] = 1
          /\ users' = Connected({"password"})
      <3>1. Field \ {"login"} = {"password"} /\ Field \in SUBSET Shared /\ "login" \in Field
        BY DEF Field
      <3> QED
        BY <1>4, <3>1, OneLess DEF Leave, At
    <2>2. todo' = <<<<"leave", "password">>>> \o Afterwards
      BY <1>4, <2>1, EachIs, BeforeAfterwards DEF Leave, At
    <2>3. At(<<<<"leave", "password">>>> \o Afterwards, {"password"}, {})'
      BY <1>1, <1>4, <2>1, <2>2 DEF At
    <2> QED
      BY <1>4, <2>1, <2>3 DEF TakingDown
  <1>5. CASE /\ n = "password"
             /\ At(<<<<"leave", "password">>>> \o Afterwards, {"password"}, {})
    <2>1. /\ users[n] = 1
          /\ users' = Connected({})
      <3>1. {"password"} \ {"password"} = {} /\ {"password"} \in SUBSET Shared
        OBVIOUS
      <3> QED
        BY <1>5, <3>1, OneLess DEF Leave, At
    <2>2. todo' = Afterwards
      BY <1>5, <2>1, EachIs, BeforeAfterwards DEF Leave, At
    <2>3. At(Afterwards, {}, {})'
      BY <1>1, <1>5, <2>1, <2>2 DEF At
    <2>4. CASE over
      BY <1>1, <1>5, <2>1, <2>3, <2>4 DEF TakingDown, Idle, Afterwards, At
    <2>5. CASE ~over
      BY <1>1, <1>5, <2>1, <2>3, <2>5 DEF TakingDown, SettingUp, Afterwards, At
    <2> QED
      BY <2>4, <2>5
  <1> QED
    BY <1>2, <1>3, <1>4, <1>5, WhenLeaving DEF Leave

\* A sink of flatMap subscribes to the sequence of taps.
LEMMA SubscribeGoes ==
  ASSUME Whereabouts, Subscribe
  PROVE  SettingUp /\ SettingUp'
  <1>1. ~over /\ At(<<<<"subscribe">>>>, {}, {})
    BY WhenSubscribing DEF Subscribe
  <1>2. todo' = <<<<"join", "withLatest">>>>
    BY <1>1, ShortWork DEF Subscribe, At
  <1>3. users' = users /\ sinks' = {Number} /\ Number' = Number /\ over' = over
    BY <1>1 DEF Subscribe, At, Number
  <1>4. At(<<<<"join", "withLatest">>>>, {}, {Number})'
    BY <1>1, <1>2, <1>3 DEF At
  <1> QED
    BY <1>1, <1>3, <1>4 DEF SettingUp

\* The first observer of a shared sequence connects it to its sources in their
\* order, the first of them with all that it subscribes to.
LEMMA JoinGoes ==
  ASSUME Whereabouts, NEW n \in Shared, Join(n)
  PROVE  /\ users[n] = 0
         /\ SettingUp
         /\ n = "withLatest" => users["combined"] = 0
         /\ n \in Field => users["withLatest"] = 1 /\ users["combined"] = 1
         /\ n = "password" => ~over /\ Idle'
         /\ n # "password" => SettingUp'
  <1> USE SourcesAre
  <1>1. sinks' = sinks /\ over' = over /\ Number' = Number
    BY DEF Join, Number
  <1>2. CASE n = "withLatest" /\ ~over /\ At(<<<<"join", "withLatest">>>>, {}, {Number})
    <2>1. /\ users[n] = 0
          /\ users' = Connected({"withLatest"})
      <3>1. {} \union {"withLatest"} = {"withLatest"} /\ {} \in SUBSET Shared
        OBVIOUS
      <3> QED
        BY <1>2, <3>1, OneMore DEF Join, At
    <2>2. todo' = <<<<"join", "combined">>>>
      <3>1. Each("join", Sources[n]) = <<<<"join", "combined">>>>
        BY <1>2, EachIs
      <3>2. Tail(todo) = << >>
        BY <1>2, ShortWork DEF At
      <3>3. todo' = Each("join", Sources[n]) \o Tail(todo)
        BY <2>1 DEF Join
      <3> QED
        BY <3>1, <3>2, <3>3, ShortWork
    <2>3. At(<<<<"join", "combined">>>>, {"withLatest"}, {Number})'
      BY <1>1, <1>2, <2>1, <2>2 DEF At
    <2>4. users["combined"] = 0
      BY <1>2 DEF At, Connected
    <2> QED
      BY <1>1, <1>2, <2>1, <2>3, <2>4 DEF SettingUp, Field
  <1>3. CASE n = "combined" /\ ~over /\ At(<<<<"join", "combined">>>>, {"withLatest"}, {Number})
    <2>1. /\ users[n] = 0
          /\ users' = Connected({"withLatest", "combined"})
      <3>1. /\ {"withLatest"} \union {"combined"} = {"withLatest", "combined"}
            /\ {"withLatest"} \in SUBSET Shared
        OBVIOUS
      <3> QED
        BY <1>3, <3>1, OneMore DEF Join, At
    <2>2. todo' = <<<<"join", "login">>, <<"join", "password">>>>
      <3>1. Each("join", Sources[n]) = <<<<"join", "login">>, <<"join", "password">>>>
        <4>1. Sources[n] = <<"login", "password">>
          BY <1>3
        <4>2. Each("join", <<"login", "password">>)
                = <<<<"join", "login">>, <<"join", "password">>>>
          BY DEF Each
        <4> QED
          BY <4>1, <4>2
      <3>2. Tail(todo) = << >>
        BY <1>3, ShortWork DEF At
      <3>3. todo' = Each("join", Sources[n]) \o Tail(todo)
        BY <2>1 DEF Join
      <3>4. <<<<"join", "login">>, <<"join", "password">>>> \o << >>
              = <<<<"join", "login">>, <<"join", "password">>>>
        OBVIOUS
      <3> QED
        BY <3>1, <3>2, <3>3, <3>4
    <2>3. At(<<<<"join", "login">>, <<"join", "password">>>>,
             {"withLatest", "combined"}, {Number})'
      BY <1>1, <1>3, <2>1, <2>2 DEF At
    <2> QED
      BY <1>1, <1>3, <2>1, <2>3 DEF SettingUp, Field
  <1>4. CASE /\ n = "login" /\ ~over
             /\ At(<<<<"join", "login">>, <<"join", "password">>>>,
                   {"withLatest", "combined"}, {Number})
    <2>1. /\ users[n] = 0
          /\ users' = Connected(Shared \ {"password"})
      <3>1. /\ {"withLatest", "combined"} \union {"login"} = Shared \ {"password"}
            /\ {"withLatest", "combined"} \in SUBSET Shared
        OBVIOUS
      <3> QED
        BY <1>4, <3>1, OneMore DEF Join, At
    <2>2. todo' = <<<<"join", "password">>>>
      <3>1. Each("join", Sources[n]) = << >>
        BY <1>4, EachIs
      <3>2. Tail(todo) = <<<<"join", "password">>>>
        BY <1>4, ShortWork DEF At
      <3>3. todo' = Each("join", Sources[n]) \o Tail(todo)
        BY <2>1 DEF Join
      <3> QED
        BY <3>1, <3>2, <3>3, ShortWork
    <2>3. At(<<<<"join", "password">>>>, Shared \ {"password"}, {Number})'
      BY <1>1, <1>4, <2>1, <2>2 DEF At
    <2>4. users["withLatest"] = 1 /\ users["combined"] = 1
      BY <1>4 DEF At, Connected
    <2> QED
      BY <1>1, <1>4, <2>1, <2>3, <2>4 DEF SettingUp
  <1>5. CASE /\ n = "password" /\ ~over
             /\ At(<<<<"join", "password">>>>, Shared \ {"password"}, {Number})
    <2>1. /\ users[n] = 0
          /\ users' = Connected(Shared)
      <3>1. /\ (Shared \ {"password"}) \union {"password"} = Shared
            /\ Shared \ {"password"} \in SUBSET Shared
        OBVIOUS
      <3> QED
        BY <1>5, <3>1, OneMore DEF Join, At
    <2>2. todo' = << >>
      BY <1>5, <2>1, EachIs, ShortWork DEF Join, At
    <2>3. At(<< >>, Shared, {Number})'
      BY <1>1, <1>5, <2>1, <2>2 DEF At
    <2>4. users["withLatest"] = 1 /\ users["combined"] = 1
      BY <1>5 DEF At, Connected
    <2> QED
      BY <1>1, <1>5, <2>1, <2>3, <2>4 DEF SettingUp, Idle
  <1> QED
    BY <1>2, <1>3, <1>4, <1>5, WhenJoining DEF Join

\* A call that succeeded leaves nothing to do.
LEMMA CompleteGoes ==
  ASSUME Whereabouts, NEW r, Complete(r)
  PROVE  /\ Answered(<<"complete", r>>)
         /\ ~over /\ Idle'
  <1>1. Answered(<<"complete", r>>)
    BY WhenCompleting DEF Complete
  <1>2. todo' = << >>
    BY <1>1, FirstOfAnswer DEF Complete
  <1>3. users' = users /\ sinks' = sinks /\ over' = over /\ Number' = Number
    BY DEF Complete, Number
  <1> QED
    BY <1>1, <1>2, <1>3 DEF Answered, Idle, At

-----------------------------------------------------------------------------
(***************************************************************************)
(* The stages exclude each other.                                          *)
(***************************************************************************)

\* An answer, taking down and setting up.
LEMMA StagesExclude ==
  /\ TakingDown => Busy /\ ~SettingUp /\ ~Answered(<<"retry">>)
  /\ SettingUp => Busy /\ ~over /\ ~RetryDue
  /\ \A s : Answered(s) => Busy /\ ~over /\ todo[1] = s
  /\ ~TakingDown \/ ~RetryDue
  <1>1. TakingDown => Busy /\ todo[1][1] \in {"dispose", "leave"}
    BY FirstOfTakingDown
  <1>2. SettingUp => Busy /\ ~over /\ todo[1][1] \in {"subscribe", "join"}
    BY FirstOfSettingUp
  <1>3. RetryDue => todo[1][1] = "retry"
    BY StepsDiffer DEF RetryDue
  <1>4. \A s : Answered(s) => Busy /\ ~over /\ todo[1] = s
    BY FirstOfAnswer DEF Answered
  <1>5. Answered(<<"retry">>) => todo[1][1] = "retry"
    BY <1>4, StepsDiffer
  <1> QED
    BY <1>1, <1>2, <1>3, <1>4, <1>5

\* An answer neither takes down nor sets up.
LEMMA AnswerExcludes ==
  /\ Answered(<<"retry">>) => ~TakingDown /\ ~SettingUp
  /\ \A r : Answered(<<"complete", r>>) => ~TakingDown /\ ~SettingUp /\ ~RetryDue
  <1>1. TakingDown => todo[1][1] \in {"dispose", "leave"}
    BY FirstOfTakingDown
  <1>2. SettingUp => todo[1][1] \in {"subscribe", "join"}
    BY FirstOfSettingUp
  <1>3. Answered(<<"retry">>) => todo[1][1] = "retry"
    BY FirstOfAnswer, StepsDiffer
  <1>4. ASSUME NEW r, Answered(<<"complete", r>>)
        PROVE  todo[1][1] = "complete"
    BY <1>4, FirstOfAnswer, StepsDiffer
  <1>5. RetryDue => todo[1][1] = "retry"
    BY StepsDiffer DEF RetryDue
  <1> QED
    BY <1>1, <1>2, <1>3, <1>4, <1>5

\* The stage after a step is one as well.
LEMMA NextStagesExclude ==
  /\ TakingDown' => ~SettingUp'
  /\ SettingUp' => Busy'
  /\ Idle' => ~SettingUp' /\ ~TakingDown'
  <1>1. /\ TakingDown => ~SettingUp
        /\ SettingUp => Busy
        /\ Idle => ~SettingUp /\ ~TakingDown
    BY StagesExclude DEF Idle, At, Busy
  <1> QED
    BY <1>1, PTL

\* The same after a step.
LEMMA NextAnswerExcludes ==
  \A r : Answered(<<"retry">>)' \/ Answered(<<"complete", r>>)' => ~TakingDown' /\ ~SettingUp'
  <1>1. (\E r : Answered(<<"retry">>) \/ Answered(<<"complete", r>>)) => ~TakingDown /\ ~SettingUp
    BY AnswerExcludes
  <1>2. (\E r : Answered(<<"retry">>) \/ Answered(<<"complete", r>>))'
          => ~TakingDown' /\ ~SettingUp'
    BY <1>1, PTL
  <1> QED
    BY <1>2

\* No stage connects a sequence twice.
LEMMA UsersRange == Whereabouts => users \in [Shared -> 0..1]
  <1>1. ASSUME NEW work, NEW c, NEW a, At(work, c, a)
        PROVE  users \in [Shared -> 0..1]
    BY <1>1 DEF At, Connected
  <1> QED
    BY <1>1 DEF Whereabouts, Idle, Answered, TakingDown, SettingUp

\* What leaves the work and the subscriptions alone leaves the stage alone.
LEMMA StageUnchanged ==
  ASSUME UNCHANGED <<left, over, sinks, users, todo>>
  PROVE  /\ Whereabouts' = Whereabouts
         /\ Idle' = Idle
         /\ TakingDown' = TakingDown
         /\ SettingUp' = SettingUp
         /\ Number' = Number
         /\ Busy' = Busy
  <1>1. Number' = Number /\ Busy' = Busy
    BY DEF Number, Busy
  <1>2. Afterwards' = Afterwards
    BY DEF Afterwards
  <1>3. Idle' = Idle
    BY <1>1 DEF Idle, At
  <1>4. TakingDown' = TakingDown
    BY <1>2 DEF TakingDown, At
  <1>5. SettingUp' = SettingUp
    BY <1>1 DEF SettingUp, At
  <1>6. Answered(<<"retry">>)' = Answered(<<"retry">>)
    BY <1>1 DEF Answered, At
  <1>7. (\E r \in Request : Answered(<<"complete", r>>))'
          = (\E r \in Request : Answered(<<"complete", r>>))
    BY <1>1 DEF Answered, At
  <1> QED
    BY <1>1, <1>3, <1>4, <1>5, <1>6, <1>7 DEF Whereabouts

-----------------------------------------------------------------------------
(***************************************************************************)
(* Every step preserves the inductive invariant.                           *)
(***************************************************************************)

\* The current subscription is one of the three that retry(3) makes.
LEMMA NumberRange ==
  ASSUME RxTypeOK
  PROVE  Number = 3 - left /\ Number \in 1..3 /\ S!MaxAttempts = 3
  BY DEF RxTypeOK, Number, S!MaxAttempts

\* What the fields replay while they are being joined: their valid texts.
LEMMA WhileSettingUp ==
  ASSUME RxTypeOK, SettingUp
  PROVE  /\ Attempts = left + 1
         /\ Expected = [f \in Field |-> IF Valid(text[f]) THEN text[f] ELSE None]
  <1>1. ~over /\ ~RetryDue /\ left \in Nat
    BY StagesExclude DEF RxTypeOK, S!MaxAttempts
  <1>2. Attempts = left + 1 /\ Attempts > 0
    BY <1>1 DEF Attempts
  <1> QED
    BY <1>2 DEF Expected

\* The same after a step.
LEMMA NextExpected ==
  RxTypeOK' /\ SettingUp' =>
    (Expected = [f \in Field |-> IF Valid(text[f]) THEN text[f] ELSE None])'
  <1>1. RxTypeOK /\ SettingUp =>
          Expected = [f \in Field |-> IF Valid(text[f]) THEN text[f] ELSE None]
    BY WhileSettingUp
  <1> QED
    BY <1>1, PTL

\* A valid text is a text, and not the None that stands for its absence.
LEMMA TextIsSome == \A t \in Text : t # None
  BY NoneAssumption

\* retry disposes the subscription that failed; every call belongs to it or to
\* an earlier one.
LEMMA RetryKeeps ==
  ASSUME IInv, Retry
  PROVE  IInv'
  <1> USE DEF IInv
  <1>1. Answered(<<"retry">>) /\ TakingDown'
    BY RetryGoes
  <1>2. ~SettingUp'
    BY <1>1, NextStagesExclude
  <1>3. UNCHANGED <<text, home, users, values, pair>>
    BY DEF Retry, sharedVars
  <1>4. /\ left' \in 0..2 /\ over' \in BOOLEAN
        /\ ~over' => left' = left - 1
        /\ over' => left' = left
    <2>1. left \in 0..2 /\ over = FALSE
      BY <1>1 DEF Answered, RxTypeOK, S!MaxAttempts
    <2>2. CASE left > 0
      <3>1. left' = left - 1
        BY <2>2 DEF Retry
      <3>2. over' = over
        BY <2>2 DEF Retry
      <3> QED
        <4>1. left' \in 0..2
          BY <2>1, <2>2, <3>1
        <4>2. over' = FALSE
          BY <2>1, <3>2
        <4> QED
          BY <3>1, <4>1, <4>2, Zenon
    <2>3. CASE ~(left > 0)
      BY <2>1, <2>3 DEF Retry
    <2> QED
      BY <2>2, <2>3
  <1>5. RxTypeOK'
    BY <1>3, <1>4 DEF RxTypeOK, S!MaxAttempts, Valid
  <1>6. ValuesAreFresh'
    BY <1>2, <1>3 DEF ValuesAreFresh, Nothing
  <1>7. PairFollows'
    BY <1>3 DEF PairFollows
  <1>8. Number' = 3 - left' /\ Number = 3 - left /\ left \in 0..2
    BY <1>5, NumberRange DEF RxTypeOK, Number, S!MaxAttempts
  <1>9. HomesAreOlder'
    BY <1>3, <1>4, <1>8 DEF HomesAreOlder, RxTypeOK, S!MaxAttempts
  <1> QED
    BY <1>1, <1>5, <1>6, <1>7, <1>9 DEF Whereabouts

\* The dispose of a sink leaves the shared sequences to the steps after it.
LEMMA DisposeKeeps ==
  ASSUME IInv, NEW k \in 1..S!MaxAttempts, Dispose(k)
  PROVE  IInv'
  <1> USE DEF IInv
  <1>1. TakingDown /\ TakingDown'
    BY DisposeGoes DEF TakingDown
  <1>2. ~SettingUp'
    BY <1>1, NextStagesExclude
  <1>3. UNCHANGED <<text, left, over, home, users, values, pair>>
    BY DEF Dispose, sharedVars
  <1>4. RxTypeOK'
    BY <1>3 DEF RxTypeOK, Valid
  <1>5. ValuesAreFresh'
    BY <1>2, <1>3 DEF ValuesAreFresh, Nothing
  <1>6. PairFollows'
    BY <1>3 DEF PairFollows
  <1>7. HomesAreOlder'
    BY <1>1, <1>3 DEF HomesAreOlder, Number
  <1> QED
    BY <1>1, <1>4, <1>5, <1>6, <1>7 DEF Whereabouts

\* The sinks of combineLatest and of withLatestFrom take with them what they
\* hold, so that a subscription begins with nothing.
LEMMA LeaveKeeps ==
  ASSUME IInv, NEW n \in Shared, Leave(n)
  PROVE  IInv'
  <1> USE DEF IInv
  <1>1. /\ users[n] = 1
        /\ TakingDown
        /\ n = "combined" => users["withLatest"] = 0
        /\ n = "password" => users = Connected({"password"}) /\ users' = Connected({})
        /\ n = "password" => SettingUp' \/ (over /\ Idle')
        /\ n # "password" => TakingDown'
    BY LeaveGoes
  <1>2. UNCHANGED <<text, left, over, home>>
    BY DEF Leave, sharedVars
  <1>3. users \in [Shared -> 0..1] /\ users' = [users EXCEPT ![n] = @ - 1]
    BY UsersRange DEF Leave
  <1>4. values' = IF n = "combined" THEN Nothing ELSE values
    BY <1>1 DEF Leave
  <1>5. pair' = IF n = "withLatest" THEN None ELSE pair
    BY <1>1 DEF Leave
  <1>6. RxTypeOK'
    BY <1>2, <1>4 DEF RxTypeOK, Valid, Nothing
  <1>7. n # "password" => ~SettingUp'
    BY <1>1, NextStagesExclude
  <1>8. ValuesAreFresh'
    <2>1. users'["combined"] = 0 => values' = Nothing
      BY <1>1, <1>3, <1>4, SourcesAre DEF ValuesAreFresh
    <2>2. ASSUME SettingUp'
          PROVE  values' = [f \in Field |-> IF users'[f] = 1 THEN Expected'[f] ELSE None]
      <3>1. users' = Connected({})
        BY <1>1, <1>7, <2>2
      <3>2. \A m \in Shared : users'[m] = 0
        BY <3>1 DEF Connected
      <3>3. values' = Nothing
        BY <2>1, <3>2, SourcesAre
      <3> QED
        BY <3>2, <3>3, SourcesAre DEF Nothing, Field
    <2> QED
      BY <2>1, <2>2 DEF ValuesAreFresh, Nothing
  <1>9. PairFollows'
    <2>1. CASE n = "withLatest"
      BY <1>1, <1>3, <1>5, <2>1, SourcesAre DEF PairFollows
    <2>2. CASE n = "combined"
      BY <1>1, <1>3, <1>5, <2>2, SourcesAre DEF PairFollows
    <2>3. CASE n \notin {"withLatest", "combined"}
      <3>1. users'["withLatest"] = users["withLatest"]
        BY <1>3, <2>3, SourcesAre
      <3> QED
        BY <1>4, <1>5, <2>3, <3>1 DEF PairFollows
    <2> QED
      BY <2>1, <2>2, <2>3
  <1>10. HomesAreOlder'
    BY <1>1, <1>2 DEF HomesAreOlder, Number
  <1> QED
    BY <1>1, <1>6, <1>8, <1>9, <1>10 DEF Whereabouts

\* A new sink of flatMap, not yet subscribed to anything.
LEMMA SubscribeKeeps ==
  ASSUME IInv, Subscribe
  PROVE  IInv'
  <1> USE DEF IInv
  <1>1. SettingUp /\ SettingUp'
    BY SubscribeGoes
  <1>2. UNCHANGED <<text, left, over, home, users, values, pair>>
    BY DEF Subscribe, sharedVars
  <1>3. RxTypeOK'
    BY <1>2 DEF RxTypeOK, Valid
  <1>4. Expected' = Expected
    BY <1>1, <1>2, <1>3, WhileSettingUp, NextExpected DEF Valid
  <1>5. ValuesAreFresh'
    BY <1>1, <1>2, <1>4 DEF ValuesAreFresh, Nothing
  <1>6. PairFollows'
    BY <1>2 DEF PairFollows
  <1>7. HomesAreOlder'
    BY <1>1, <1>2 DEF HomesAreOlder, Number
  <1> QED
    BY <1>1, <1>3, <1>5, <1>6, <1>7 DEF Whereabouts

\* A field that is connected reports its text at once, to sinks that hold
\* nothing of it.
LEMMA JoinReports ==
  ASSUME IInv, NEW n \in Shared, Join(n)
  PROVE  /\ values = [f \in Field |-> IF users[f] = 1 THEN Expected[f] ELSE None]
         /\ values' = [f \in Field |-> IF users'[f] = 1 THEN Expected[f] ELSE None]
         /\ n \in Field => values[n] = None /\ Expected[n] \in {t \in Text : Valid(t)} \union {None}
         /\ n \notin Field => values' = values /\ pair' = pair
         /\ values' \in [Field -> {t \in Text : Valid(t)} \union {None}]
  <1> USE DEF IInv
  <1>1. users[n] = 0 /\ SettingUp /\ (n \in Field => users["combined"] = 1)
    BY JoinGoes
  <1>2. users \in [Shared -> 0..1] /\ users' = [users EXCEPT ![n] = @ + 1]
    BY UsersRange DEF Join
  <1>3. /\ values \in [Field -> {t \in Text : Valid(t)} \union {None}]
        /\ values = [f \in Field |-> IF users[f] = 1 THEN Expected[f] ELSE None]
        /\ text \in [Field -> Text]
    BY <1>1 DEF ValuesAreFresh, RxTypeOK
  <1>4. ASSUME n \in Field
        PROVE  /\ values[n] = None
               /\ values' = [values EXCEPT ![n] = Expected[n]]
               /\ Expected[n] \in {t \in Text : Valid(t)} \union {None}
    <2>1. values' = IF Valid(text[n]) THEN [values EXCEPT ![n] = text[n]] ELSE values
      BY <1>1, <1>4 DEF Join, Emit
    <2>2. values[n] = None
      BY <1>1, <1>3, <1>4
    <2>3. Expected[n] = IF Valid(text[n]) THEN text[n] ELSE None
      BY <1>1, <1>4, WhileSettingUp
    <2>4. [values EXCEPT ![n] = None] = values
      BY <1>3, <1>4, <2>2
    <2> QED
      BY <1>3, <1>4, <2>1, <2>2, <2>3, <2>4
  <1>5. n \notin Field => values' = values /\ pair' = pair
    BY DEF Join
  <1>6. values' \in [Field -> {t \in Text : Valid(t)} \union {None}]
    BY <1>3, <1>4, <1>5
  <1>7. values' = [f \in Field |-> IF users'[f] = 1 THEN Expected[f] ELSE None]
    <2>1. CASE n \in Field
      <3>1. \A f \in Field : users'[f] = IF f = n THEN 1 ELSE users[f]
        BY <1>1, <1>2, <2>1, SourcesAre DEF Field
      <3> QED
        BY <1>3, <1>4, <2>1, <3>1
    <2>2. CASE n \notin Field
      <3>1. \A f \in Field : users'[f] = users[f]
        BY <1>2, <2>2, SourcesAre DEF Field
      <3> QED
        BY <1>3, <1>5, <2>2, <3>1
    <2> QED
      BY <2>1, <2>2
  <1> QED
    BY <1>3, <1>4, <1>5, <1>6, <1>7

\* Joining a sequence preserves the inductive invariant.
LEMMA JoinKeeps ==
  ASSUME IInv, NEW n \in Shared, Join(n)
  PROVE  IInv'
  <1> USE DEF IInv
  <1>1. /\ users[n] = 0
        /\ SettingUp
        /\ n = "withLatest" => users["combined"] = 0
        /\ n \in Field => users["withLatest"] = 1 /\ users["combined"] = 1
        /\ n = "password" => ~over /\ Idle'
        /\ n # "password" => SettingUp'
    BY JoinGoes
  <1>2. UNCHANGED <<text, left, over, home>>
    BY DEF Join, sharedVars
  <1>3. users \in [Shared -> 0..1] /\ users' = [users EXCEPT ![n] = @ + 1]
    BY UsersRange DEF Join
  <1>4. /\ values' = [f \in Field |-> IF users'[f] = 1 THEN Expected[f] ELSE None]
        /\ n \in Field => values[n] = None
        /\ n \notin Field => values' = values /\ pair' = pair
        /\ values' \in [Field -> {t \in Text : Valid(t)} \union {None}]
    BY JoinReports
  <1>5. RxTypeOK'
    BY <1>2, <1>4 DEF RxTypeOK, Valid
  <1>6. ValuesAreFresh'
    <2>1. users'["combined"] = 0 => values' = Nothing
      BY <1>1, <1>3, <1>4, SourcesAre DEF ValuesAreFresh, Field
    <2>2. SettingUp' => Expected' = Expected
      BY <1>1, <1>2, <1>5, WhileSettingUp, NextExpected DEF Valid
    <2> QED
      BY <1>4, <2>1, <2>2 DEF ValuesAreFresh, Nothing
  <1>7. PairFollows'
    <2>1. CASE n \in Field
      <3>1. pair = None
        BY <1>4, <2>1 DEF PairFollows
      <3>2. pair' = IF \A g \in Field : values'[g] # None
                    THEN <<values'["login"], values'["password"]>> ELSE pair
        BY <1>1, <2>1 DEF Join, Emit
      <3>3. users'["withLatest"] = 1
        BY <1>1, <1>3, <2>1, SourcesAre DEF Field
      <3> QED
        BY <3>1, <3>2, <3>3 DEF PairFollows
    <2>2. CASE n = "withLatest"
      <3>1. values = Nothing /\ values' = Nothing
        BY <1>1, <1>4, <2>2 DEF ValuesAreFresh, Field
      <3> QED
        BY <1>4, <2>2, <3>1 DEF PairFollows, Nothing, Field
    <2>3. CASE n = "combined"
      <3>1. users'["withLatest"] = users["withLatest"]
        BY <1>3, <2>3, SourcesAre
      <3> QED
        BY <1>4, <2>3, <3>1 DEF PairFollows, Field
    <2> QED
      BY <2>1, <2>2, <2>3, SourcesAre DEF Field
  <1>8. HomesAreOlder'
    BY <1>1, <1>2 DEF HomesAreOlder, Number
  <1> QED
    BY <1>1, <1>5, <1>6, <1>7, <1>8 DEF Whereabouts

\* A call that ended belongs to no subscription any more.
LEMMA CompleteKeeps ==
  ASSUME IInv, NEW r \in Request, Complete(r)
  PROVE  IInv'
  <1> USE DEF IInv
  <1>1. ~over /\ Idle'
    BY CompleteGoes
  <1>2. UNCHANGED <<text, left, over, users, values, pair>>
    BY DEF Complete, sharedVars
  <1>3. home' = [home EXCEPT ![r] = 0]
    BY DEF Complete
  <1>4. ~SettingUp' /\ ~TakingDown'
    BY <1>1, NextStagesExclude
  <1>5. RxTypeOK'
    BY <1>2, <1>3 DEF RxTypeOK, Valid, S!MaxAttempts
  <1>6. ValuesAreFresh' /\ PairFollows'
    BY <1>2, <1>4 DEF ValuesAreFresh, PairFollows, Nothing
  <1>7. HomesAreOlder'
    BY <1>2, <1>3, <1>4, NumberRange DEF HomesAreOlder, RxTypeOK, Number
  <1> QED
    BY <1>1, <1>5, <1>6, <1>7 DEF Whereabouts

\* Between two pieces of work everything is connected, or nothing is.
LEMMA IdleFacts ==
  ASSUME Whereabouts, ~Busy
  PROVE  /\ Idle /\ ~TakingDown /\ ~SettingUp /\ ~RetryDue
         /\ \A n \in Shared : users[n] = IF over THEN 0 ELSE 1
         /\ sinks = IF over THEN {} ELSE {Number}
  <1>1. Idle
    BY WhenIdle
  <1>2. \A n \in Shared : users[n] = IF over THEN 0 ELSE 1
    BY <1>1 DEF Idle, At, Connected
  <1> QED
    BY <1>1, <1>2, StagesExclude DEF Idle, At, RetryDue

\* A field reports what is typed to the sinks that listen.
LEMMA TypeKeeps ==
  ASSUME IInv, NEW f \in Field, NEW t \in Text, Type(f, t)
  PROVE  IInv'
  <1> USE DEF IInv
  <1>1. /\ Idle /\ ~SettingUp
        /\ \A n \in Shared : users[n] = IF over THEN 0 ELSE 1
    BY IdleFacts DEF Type
  <1>2. UNCHANGED <<left, over, sinks, home, users, todo>> /\ text' = [text EXCEPT ![f] = t]
    BY DEF Type
  <1>3. /\ Whereabouts' = Whereabouts /\ TakingDown' = TakingDown
        /\ SettingUp' = SettingUp /\ Number' = Number
    BY <1>2, StageUnchanged
  <1>4. CASE over
    <2>1. UNCHANGED <<values, pair>>
      BY <1>1, <1>4, SourcesAre DEF Type, Field
    <2>2. RxTypeOK'
      BY <1>2, <2>1 DEF RxTypeOK, Valid
    <2>3. ValuesAreFresh' /\ PairFollows'
      BY <1>1, <1>2, <1>3, <2>1 DEF ValuesAreFresh, PairFollows, Nothing
    <2> QED
      BY <1>2, <1>3, <2>2, <2>3 DEF HomesAreOlder
  <1>5. CASE ~over
    <2>1. users["combined"] = 1 /\ users["withLatest"] = 1 /\ users[f] = 1
      BY <1>1, <1>5, SourcesAre DEF Field
    <2>2. values' = IF Valid(t) THEN [values EXCEPT ![f] = t] ELSE values
      BY <2>1 DEF Type, Emit
    <2>3. pair' = IF \A g \in Field : values'[g] # None
                  THEN <<values'["login"], values'["password"]>> ELSE pair
      BY <2>1 DEF Type, Emit
    <2>4. RxTypeOK'
      BY <1>2, <2>2 DEF RxTypeOK, Valid
    <2>5. ValuesAreFresh'
      BY <1>1, <1>2, <1>3, <2>1 DEF ValuesAreFresh
    <2>6. (\A g \in Field : values[g] # None) => \A g \in Field : values'[g] # None
      BY <2>2, TextIsSome DEF RxTypeOK
    <2>7. PairFollows'
      BY <1>2, <2>1, <2>3, <2>6 DEF PairFollows
    <2> QED
      BY <1>2, <1>3, <2>4, <2>5, <2>7 DEF HomesAreOlder
  <1> QED
    BY <1>4, <1>5

\* A tap's call belongs to the current subscription.
LEMMA TapKeeps ==
  ASSUME IInv, NEW r \in Request, Tap(r)
  PROVE  IInv'
  <1> USE DEF IInv
  <1>1. ~TakingDown /\ ~SettingUp
    BY IdleFacts DEF Tap
  <1>2. UNCHANGED <<text, left, over, sinks, users, values, pair, todo>>
    BY DEF Tap
  <1>3. home' = [home EXCEPT ![r] = Number]
    BY DEF Tap
  <1>4. /\ Whereabouts' = Whereabouts /\ TakingDown' = TakingDown
        /\ SettingUp' = SettingUp /\ Number' = Number
    BY <1>2, StageUnchanged
  <1>5. RxTypeOK'
    BY <1>2, <1>3, NumberRange DEF RxTypeOK, Valid, S!MaxAttempts
  <1>6. ValuesAreFresh' /\ PairFollows'
    BY <1>1, <1>2, <1>4 DEF ValuesAreFresh, PairFollows, Nothing
  <1>7. HomesAreOlder'
    BY <1>1, <1>3, <1>4, NumberRange DEF HomesAreOlder, RxTypeOK, S!MaxAttempts
  <1> QED
    BY <1>4, <1>5, <1>6, <1>7

\* An answer that somebody observes makes work, and as long as somebody does,
\* retry has not given up.
LEMMA AnswerKeeps ==
  ASSUME IInv, NEW r \in Request, Succeed(r) \/ Fail(r)
  PROVE  IInv' /\ ~over
  <1> USE DEF IInv
  <1>1. /\ Idle /\ ~TakingDown /\ ~SettingUp
        /\ sinks = IF over THEN {} ELSE {Number}
    BY IdleFacts DEF Succeed, Fail
  <1>2. ~over
    BY <1>1 DEF Succeed, Fail
  <1>3. /\ UNCHANGED <<text, left, over, sinks, users, values, pair>>
        /\ home' = home \/ home' = [home EXCEPT ![r] = 0]
        /\ todo' = <<<<"complete", r>>>> \/ todo' = <<<<"retry">>>>
    BY DEF Succeed, Fail
  <1>4. Number' = Number
    BY <1>3 DEF Number
  <1>5. Answered(<<"complete", r>>)' \/ Answered(<<"retry">>)'
    BY <1>1, <1>2, <1>3, <1>4 DEF Answered, Idle, At
  <1>6. ~TakingDown' /\ ~SettingUp'
    BY <1>5, NextAnswerExcludes
  <1>7. RxTypeOK'
    BY <1>3 DEF RxTypeOK, Valid, S!MaxAttempts
  <1>8. ValuesAreFresh' /\ PairFollows'
    BY <1>3, <1>6 DEF ValuesAreFresh, PairFollows, Nothing
  <1>9. HomesAreOlder'
    BY <1>3, <1>4, <1>6, NumberRange DEF HomesAreOlder, RxTypeOK, S!MaxAttempts
  <1> QED
    BY <1>2, <1>5, <1>7, <1>8, <1>9 DEF Whereabouts

\* An answer without an observer changes nothing that the pipeline holds.
LEMMA IgnoreKeeps ==
  ASSUME IInv, NEW r \in Request, Ignore(r)
  PROVE  IInv'
  <1> USE DEF IInv
  <1>1. ~TakingDown /\ ~SettingUp
    BY IdleFacts DEF Ignore
  <1>2. UNCHANGED <<text, left, over, sinks, users, values, pair, todo>>
    BY DEF Ignore
  <1>3. home' = [home EXCEPT ![r] = 0]
    BY DEF Ignore
  <1>4. /\ Whereabouts' = Whereabouts /\ TakingDown' = TakingDown
        /\ SettingUp' = SettingUp /\ Number' = Number
    BY <1>2, StageUnchanged
  <1>5. RxTypeOK'
    BY <1>2, <1>3 DEF RxTypeOK, Valid, S!MaxAttempts
  <1>6. ValuesAreFresh' /\ PairFollows'
    BY <1>1, <1>2, <1>4 DEF ValuesAreFresh, PairFollows, Nothing
  <1>7. HomesAreOlder'
    BY <1>1, <1>3, <1>4, NumberRange DEF HomesAreOlder, RxTypeOK, S!MaxAttempts
  <1> QED
    BY <1>4, <1>5, <1>6, <1>7

\* Firebase and the user's moves between the screens do not touch the pipeline.
LEMMA OthersKeep ==
  ASSUME IInv, UNCHANGED <<text, rxVars>>
  PROVE  IInv'
  <1> USE DEF IInv
  <1>1. UNCHANGED <<text, left, over, sinks, home, users, values, pair, todo>>
    BY DEF rxVars
  <1>2. /\ Whereabouts' = Whereabouts /\ TakingDown' = TakingDown
        /\ SettingUp' = SettingUp /\ Number' = Number
    BY <1>1, StageUnchanged
  <1>3. Expected' = Expected
    BY <1>1 DEF Expected, Attempts, RetryDue, Busy, Valid
  <1>4. RxTypeOK'
    BY <1>1 DEF RxTypeOK, Valid, S!MaxAttempts
  <1>5. ValuesAreFresh' /\ PairFollows'
    BY <1>1, <1>2, <1>3 DEF ValuesAreFresh, PairFollows, Nothing
  <1>6. HomesAreOlder'
    BY <1>1, <1>2 DEF HomesAreOlder
  <1> QED
    BY <1>2, <1>4, <1>5, <1>6

\* What the app starts with: the work of subscribing, and nothing else.
LEMMA FreshStart ==
  /\ text = [f \in Field |-> EmptyText]
  /\ left = S!MaxAttempts - 1
  /\ over = FALSE
  /\ sinks = {}
  /\ home = [r \in Request |-> 0]
  /\ users = [n \in Shared |-> 0]
  /\ values = Nothing
  /\ pair = None
  /\ todo = <<<<"subscribe">>>>
  => IInv
  <1> SUFFICES ASSUME text = [f \in Field |-> EmptyText],
                      left = S!MaxAttempts - 1,
                      over = FALSE,
                      sinks = {},
                      home = [r \in Request |-> 0],
                      users = [n \in Shared |-> 0],
                      values = Nothing,
                      pair = None,
                      todo = <<<<"subscribe">>>>
               PROVE  IInv
    OBVIOUS
  <1>1. RxTypeOK
    <2>1. left \in 0..S!MaxAttempts - 1 /\ 0 \in 0..S!MaxAttempts
      BY DEF S!MaxAttempts
    <2>2. text \in [Field -> Text]
      BY TextAssumption
    <2>3. values \in [Field -> {t \in Text : Valid(t)} \union {None}]
      BY DEF Nothing
    <2> QED
      BY <2>1, <2>2, <2>3 DEF RxTypeOK
  <1>2. users = Connected({})
    BY DEF Connected
  <1>3. SettingUp
    BY <1>2 DEF SettingUp, At
  <1>4. ValuesAreFresh
    BY SourcesAre DEF ValuesAreFresh, Nothing, Field
  <1>5. PairFollows
    BY SourcesAre DEF PairFollows
  <1>6. HomesAreOlder
    BY NumberRange, <1>1 DEF HomesAreOlder
  <1> QED
    BY <1>1, <1>3, <1>4, <1>5, <1>6 DEF IInv, Whereabouts

\* The inductive invariant holds while the app starts.
LEMMA InvariantInit == Init => IInv
  BY FreshStart DEF Init

\* The process can end in the midst of any work, and starts anew.
LEMMA RelaunchKeeps == Relaunch => IInv'
  <1> DEFINE Fresh == /\ text = [f \in Field |-> EmptyText]
                      /\ left = S!MaxAttempts - 1
                      /\ over = FALSE
                      /\ sinks = {}
                      /\ home = [r \in Request |-> 0]
                      /\ users = [n \in Shared |-> 0]
                      /\ values = Nothing
                      /\ pair = None
                      /\ todo = <<<<"subscribe">>>>
  <1>1. Fresh => IInv
    BY FreshStart
  <1>2. Fresh' => IInv'
    <2> HIDE DEF Fresh
    <2> QED
      BY <1>1, PTL
  <1>3. Relaunch => Fresh'
    BY DEF Relaunch, Nothing, S!MaxAttempts
  <1> QED
    BY <1>2, <1>3

\* Every call of an operator, every answer and every move of the user preserves
\* the inductive invariant.
LEMMA InvariantStep == IInv /\ [Next]_vars => IInv'
  <1> SUFFICES ASSUME IInv, [Next]_vars
               PROVE  IInv'
    OBVIOUS
  <1>1. CASE Work
    BY <1>1, RetryKeeps, DisposeKeeps, LeaveKeeps, SubscribeKeeps, JoinKeeps, CompleteKeeps
       DEF Work
  <1>2. ASSUME NEW f \in Field, NEW t \in Text, Type(f, t)
        PROVE  IInv'
    BY <1>2, TypeKeeps
  <1>3. ASSUME NEW r \in Request, Tap(r)
        PROVE  IInv'
    BY <1>3, TapKeeps
  <1>4. ASSUME NEW r \in Request, Succeed(r) \/ Fail(r)
        PROVE  IInv'
    BY <1>4, AnswerKeeps
  <1>5. ASSUME NEW r \in Request, Ignore(r)
        PROVE  IInv'
    BY <1>5, IgnoreKeeps
  <1>6. ASSUME NEW r \in Request, Answer(r)
        PROVE  IInv'
    <2>1. UNCHANGED <<text, rxVars>>
      BY <1>6 DEF Answer, S!Answer, S!Accept, S!Reject
    <2> QED
      BY <2>1, OthersKeep
  <1>7. CASE Navigate
    BY <1>7, OthersKeep DEF Navigate
  <1>8. CASE Relaunch
    BY <1>8, RelaunchKeeps
  <1>9. CASE UNCHANGED vars
    BY <1>9, OthersKeep DEF vars, sharedVars
  <1> QED
    BY <1>1, <1>2, <1>3, <1>4, <1>5, <1>6, <1>7, <1>8, <1>9 DEF Next

\* In every reachable state the main thread is at one of the stages of its work,
\* with what that stage has connected and no more, for any texts and number of
\* calls under way.
THEOREM InvariantHolds == Spec => []IInv
  BY InvariantInit, InvariantStep, PTL DEF Spec

\* A failed attempt leaves nothing connected: between two pieces of work there
\* is the one current subscription, or none once retry(3) has given up.
THEOREM OnlyOneSubscription == Spec => []OneSubscription
  <1>1. IInv => OneSubscription
    BY IdleFacts DEF IInv, OneSubscription
  <1> QED
    BY <1>1, InvariantHolds, PTL

\* A tap submits what combineLatest holds: withLatestFrom never lags behind it,
\* nor keeps a pair of an earlier subscription.
THEOREM SubmittedPairIsCurrent == Spec => []PairIsCurrent
  <1>1. ASSUME IInv, ~Busy
        PROVE  pair = IF \A f \in Field : values[f] # None
                      THEN <<values["login"], values["password"]>> ELSE None
    <2>1. \A n \in Shared : users[n] = IF over THEN 0 ELSE 1
      BY <1>1, IdleFacts DEF IInv
    <2>2. CASE over
      <3>1. values = Nothing
        BY <1>1, <2>1, <2>2, SourcesAre DEF IInv, ValuesAreFresh
      <3>2. pair = None
        BY <1>1, <2>1, <2>2, SourcesAre DEF IInv, PairFollows
      <3> QED
        BY <3>1, <3>2 DEF Nothing, Field
    <2>3. CASE ~over
      BY <1>1, <2>1, <2>3, SourcesAre DEF IInv, PairFollows
    <2> QED
      BY <2>2, <2>3
  <1>2. IInv => PairIsCurrent
    BY <1>1 DEF PairIsCurrent
  <1> QED
    BY <1>2, InvariantHolds, PTL

-----------------------------------------------------------------------------
(***************************************************************************)
(* What SignIn knows of each stage.                                        *)
(***************************************************************************)

\* The filters of a field, here and in SignIn.
LEMMA SameFilter == \A t \in Text : Valid(t) <=> S!Valid(t)
  BY TextAssumption DEF Valid, S!Valid, S!MinCount, S!MaxCount

\* Between two pieces of work it knows what the sinks hold.
LEMMA KnownIdle ==
  IInv /\ ~Busy =>
    /\ Attempts = IF over THEN 0 ELSE left + 1
    /\ Observed = {r \in Request : home[r] \in sinks}
    /\ Latest = values
  BY DEF Attempts, RetryDue, Observed, Latest, Resubscribing, Completing

\* While a call that succeeded ends, it counts as ended.
LEMMA KnownCompleting ==
  IInv => \A r \in Request : Answered(<<"complete", r>>) =>
    /\ Attempts = left + 1
    /\ Observed = {q \in Request : home[q] \in sinks} \ {r}
    /\ Latest = values
  <1> SUFFICES ASSUME IInv, NEW r \in Request, Answered(<<"complete", r>>)
               PROVE  /\ Attempts = left + 1
                      /\ Observed = {q \in Request : home[q] \in sinks} \ {r}
                      /\ Latest = values
    OBVIOUS
  <1>1. Busy /\ ~over /\ todo[1] = <<"complete", r>>
    BY StagesExclude
  <1>2. ~RetryDue
    BY AnswerExcludes
  <1>3. \A q \in Request : Completing(q) <=> q = r
    BY <1>1, StepsDiffer DEF Completing
  <1>4. ~Resubscribing
    BY <1>3 DEF Resubscribing
  <1> QED
    BY <1>1, <1>2, <1>3, <1>4 DEF Attempts, Observed, Latest

\* A failure has cost an attempt as soon as retry is to hear of it.
LEMMA KnownRetrying ==
  IInv /\ Answered(<<"retry">>) =>
    /\ Attempts = left
    /\ Observed = {}
    /\ Latest = Expected
  <1> SUFFICES ASSUME IInv, Answered(<<"retry">>)
               PROVE  Attempts = left /\ Observed = {} /\ Latest = Expected
    OBVIOUS
  <1>1. Busy /\ ~over /\ todo[1] = <<"retry">> /\ todo[1][1] = "retry"
    BY StagesExclude, StepsDiffer
  <1>2. \A r \in Request : ~Completing(r)
    BY <1>1, StepsDiffer DEF Completing
  <1>3. RetryDue
    BY <1>1 DEF RetryDue
  <1> QED
    BY <1>1, <1>2, <1>3 DEF Attempts, Observed, Latest, Resubscribing

\* From then on it expects of the new subscription what the fields will replay.
LEMMA KnownResubscribing ==
  IInv /\ (TakingDown \/ SettingUp) =>
    /\ Attempts = IF over THEN 0 ELSE left + 1
    /\ Observed = {}
    /\ Latest = Expected
  <1> SUFFICES ASSUME IInv, TakingDown \/ SettingUp
               PROVE  /\ Attempts = IF over THEN 0 ELSE left + 1
                      /\ Observed = {}
                      /\ Latest = Expected
    OBVIOUS
  <1>1. Busy /\ todo[1][1] \in {"dispose", "leave", "subscribe", "join"}
    BY FirstOfTakingDown, FirstOfSettingUp
  <1>2. \A r \in Request : ~Completing(r)
    BY <1>1, StepsDiffer DEF Completing
  <1>3. ~RetryDue
    BY <1>1, StepsDiffer DEF RetryDue
  <1> QED
    BY <1>1, <1>2, <1>3 DEF Attempts, Observed, Latest, Resubscribing

\* What SignIn knows, stage by stage.
Known ==
  /\ ~Busy => /\ Attempts = IF over THEN 0 ELSE left + 1
              /\ Observed = {r \in Request : home[r] \in sinks}
              /\ Latest = values
  /\ \A r \in Request : Answered(<<"complete", r>>) =>
       /\ Attempts = left + 1
       /\ Observed = {q \in Request : home[q] \in sinks} \ {r}
       /\ Latest = values
  /\ Answered(<<"retry">>) => Attempts = left /\ Observed = {} /\ Latest = Expected
  /\ TakingDown \/ SettingUp => /\ Attempts = IF over THEN 0 ELSE left + 1
                                /\ Observed = {}
                                /\ Latest = Expected

\* It holds before a step and after it.
LEMMA KnownAlways == (IInv => Known) /\ (IInv' => Known')
  <1>1. IInv => Known
    BY KnownIdle, KnownCompleting, KnownRetrying, KnownResubscribing DEF Known
  <1> QED
    BY <1>1, PTL

\* What is expected follows from the attempts left and the texts alone.
LEMMA ExpectedFollows ==
  ASSUME Attempts' = Attempts, text' = text
  PROVE  Expected' = Expected
  BY DEF Expected, Valid

-----------------------------------------------------------------------------
(***************************************************************************)
(* Refinement.  The main thread's work is invisible to SignIn, and all     *)
(* that it does not know of happens in that work.                          *)
(***************************************************************************)

\* The calls, the screens and the texts stay as they are while the main thread
\* works, and with the three values below so does all that SignIn knows.
LEMMA WorkIsHidden ==
  ASSUME UNCHANGED sharedVars,
         Attempts' = Attempts, Observed' = Observed, Latest' = Latest
  PROVE  UNCHANGED S!vars
  BY DEF sharedVars, navVars, S!vars, S!signInVars, S!navVars

\* That retry takes the next attempt was known as soon as it had failed.
LEMMA RetryIsHidden ==
  ASSUME IInv, IInv', Retry
  PROVE  UNCHANGED S!vars
  <1>1. Answered(<<"retry">>) /\ TakingDown' /\ ~over
    BY RetryGoes DEF IInv, Answered
  <1>2. Attempts = left /\ Observed = {} /\ Latest = Expected
    BY <1>1, KnownAlways DEF Known
  <1>3. Attempts' = (IF over' THEN 0 ELSE left' + 1) /\ Observed' = {} /\ Latest' = Expected'
    BY <1>1, KnownAlways DEF Known
  <1>4. left \in 0..2
    BY DEF IInv, RxTypeOK, S!MaxAttempts
  <1>5. Attempts' = left
    <2>1. CASE left > 0
      <3>1. left' = left - 1
        BY <2>1 DEF Retry
      <3>2. ~over'
        <4>1. over' = over
          BY <2>1 DEF Retry
        <4> QED
          BY <1>1, <4>1, Zenon
      <3> QED
        BY <1>3, <1>4, <3>1, <3>2
    <2>2. CASE ~(left > 0)
      <3>1. over' = TRUE
        BY <2>2 DEF Retry
      <3> QED
        BY <1>3, <1>4, <2>2, <3>1
    <2> QED
      BY <2>1, <2>2
  <1>6. UNCHANGED sharedVars
    BY DEF Retry
  <1>7. Expected' = Expected
    BY <1>2, <1>5, <1>6, ExpectedFollows DEF sharedVars
  <1> QED
    BY <1>2, <1>3, <1>5, <1>6, <1>7, WorkIsHidden

\* Taking down and setting up go on behind the texts that the fields will
\* replay anyway.
LEMMA ResubscribingIsHidden ==
  ASSUME IInv, IInv',
         TakingDown \/ SettingUp, TakingDown' \/ SettingUp',
         UNCHANGED <<left, over, sharedVars>>
  PROVE  UNCHANGED S!vars
  <1>1. /\ Attempts = IF over THEN 0 ELSE left + 1
        /\ Observed = {} /\ Latest = Expected
    BY KnownAlways DEF Known
  <1>2. /\ Attempts' = IF over' THEN 0 ELSE left' + 1
        /\ Observed' = {} /\ Latest' = Expected'
    BY KnownAlways DEF Known
  <1>3. Attempts' = Attempts
    BY <1>1, <1>2
  <1>4. Expected' = Expected
    BY <1>3, ExpectedFollows DEF sharedVars
  <1> QED
    BY <1>1, <1>2, <1>3, <1>4, WorkIsHidden

\* Once retry has given up, the last sequence that is left leaves nothing.
LEMMA LeaveIsHidden ==
  ASSUME IInv, IInv', NEW n \in Shared, Leave(n)
  PROVE  UNCHANGED S!vars
  <1>1. /\ TakingDown
        /\ n = "password" => users' = Connected({})
        /\ TakingDown' \/ SettingUp' \/ (n = "password" /\ over /\ Idle')
    BY LeaveGoes DEF IInv
  <1>2. UNCHANGED <<left, over, sharedVars>>
    BY DEF Leave
  <1>3. CASE TakingDown' \/ SettingUp'
    BY <1>1, <1>2, <1>3, ResubscribingIsHidden
  <1>4. CASE n = "password" /\ over /\ Idle'
    <2>1. ~Busy' /\ sinks' = {}
      BY <1>2, <1>4 DEF Idle, At, Busy
    <2>2. Attempts = 0 /\ Observed = {} /\ Latest = Expected
      BY <1>1, <1>4, KnownAlways DEF Known
    <2>3. Attempts' = 0 /\ Observed' = {} /\ Latest' = values'
      BY <1>2, <1>4, <2>1, KnownAlways DEF Known
    <2>4. values' = Nothing
      <3>1. users'["combined"] = 0
        BY <1>1, <1>4, SourcesAre DEF Connected
      <3> QED
        BY <3>1 DEF IInv, ValuesAreFresh, Nothing
    <2>5. Expected = Nothing
      BY <2>2 DEF Expected, Nothing
    <2> QED
      BY <1>2, <2>2, <2>3, <2>4, <2>5, WorkIsHidden
  <1> QED
    BY <1>1, <1>3, <1>4

\* When the last sequence is joined, the sinks hold what the fields were
\* expected to replay, and no call belongs to the new subscription yet.
LEMMA JoinIsHidden ==
  ASSUME IInv, IInv', NEW n \in Shared, Join(n)
  PROVE  UNCHANGED S!vars
  <1>1. SettingUp /\ (SettingUp' \/ (~over /\ Idle'))
    BY JoinGoes DEF IInv
  <1>2. UNCHANGED <<left, over, home, sharedVars>>
    BY DEF Join
  <1>3. CASE SettingUp'
    BY <1>1, <1>2, <1>3, ResubscribingIsHidden
  <1>4. CASE ~over /\ Idle'
    <2>1. /\ ~Busy' /\ sinks' = {Number}
          /\ users' = Connected(Shared)
      BY <1>2, <1>4 DEF Idle, At, Busy, Number
    <2>2. Attempts = left + 1 /\ Observed = {} /\ Latest = Expected
      BY <1>1, <1>4, KnownAlways DEF Known
    <2>3. /\ Attempts' = left + 1
          /\ Observed' = {r \in Request : home[r] \in {Number}}
          /\ Latest' = values'
      BY <1>2, <1>4, <2>1, KnownAlways DEF Known
    <2>4. \A r \in Request : home[r] < Number /\ home[r] \in 0..3 /\ Number \in 1..3
      BY <1>1, <1>4, NumberRange DEF IInv, HomesAreOlder, RxTypeOK
    <2>5. Observed' = {}
      BY <2>3, <2>4
    <2>6. values' = Expected
      <3>1. values' = [f \in Field |-> IF users'[f] = 1 THEN Expected[f] ELSE None]
        BY JoinReports
      <3>2. \A f \in Field : users'[f] = 1
        BY <2>1, SourcesAre DEF Connected, Field
      <3>3. values' = [f \in Field |-> Expected[f]]
        BY <3>1, <3>2
      <3> QED
        BY <3>3 DEF Expected
    <2> QED
      BY <1>2, <2>2, <2>3, <2>5, <2>6, WorkIsHidden
  <1> QED
    BY <1>1, <1>3, <1>4

\* The end of a call that succeeded takes it out of flatMap's group, where it
\* did not count any more.
LEMMA CompleteIsHidden ==
  ASSUME IInv, IInv', NEW r \in Request, Complete(r)
  PROVE  UNCHANGED S!vars
  <1>1. Answered(<<"complete", r>>) /\ ~over /\ Idle'
    BY CompleteGoes DEF IInv
  <1>2. UNCHANGED <<left, over, sinks, values, sharedVars>> /\ home' = [home EXCEPT ![r] = 0]
    BY DEF Complete
  <1>3. /\ Attempts = left + 1 /\ Latest = values
        /\ Observed = {q \in Request : home[q] \in sinks} \ {r}
    BY <1>1, KnownAlways DEF Known
  <1>4. ~Busy'
    BY <1>1 DEF Idle, At, Busy
  <1>5. /\ Attempts' = left + 1 /\ Latest' = values
        /\ Observed' = {q \in Request : home'[q] \in sinks}
    BY <1>1, <1>2, <1>4, KnownAlways DEF Known
  <1>6. sinks = {Number} /\ Number \in 1..3
    BY <1>1, NumberRange DEF Answered, At, IInv
  <1>7. Observed' = Observed
    BY <1>2, <1>3, <1>5, <1>6 DEF IInv, RxTypeOK
  <1> QED
    BY <1>2, <1>3, <1>5, <1>7, WorkIsHidden

\* No work of the main thread is visible to SignIn.
LEMMA WorkStep ==
  ASSUME IInv, IInv', Work
  PROVE  UNCHANGED S!vars
  <1>1. ASSUME NEW k \in 1..S!MaxAttempts, Dispose(k)
        PROVE  UNCHANGED S!vars
    <2>1. TakingDown /\ TakingDown'
      BY <1>1, DisposeGoes DEF IInv, TakingDown
    <2>2. UNCHANGED <<left, over, sharedVars>>
      BY <1>1 DEF Dispose
    <2> QED
      BY <2>1, <2>2, ResubscribingIsHidden
  <1>2. CASE Subscribe
    <2>1. SettingUp /\ SettingUp'
      BY <1>2, SubscribeGoes DEF IInv
    <2>2. UNCHANGED <<left, over, sharedVars>>
      BY <1>2 DEF Subscribe
    <2> QED
      BY <2>1, <2>2, ResubscribingIsHidden
  <1> QED
    BY <1>1, <1>2, RetryIsHidden, LeaveIsHidden, JoinIsHidden, CompleteIsHidden DEF Work

\* The screens are the same here and there.
LEMMA SameScreens ==
  /\ S!navVars = navVars
  /\ \A screen : S!Frontmost(screen) <=> Frontmost(screen)
  /\ \A screen : S!Push(screen) <=> Push(screen)
  /\ \A source, m : S!Present(source, m) <=> Present(source, m)
  /\ S!NavNext <=> NavNext
  BY DEF S!navVars, S!Frontmost, S!Push, S!Present, S!Top, S!NavNext, S!ShowRooms,
         S!ShowWorkPlaces, S!ShowDates, S!ShowProfile, S!SaveProfile, S!DismissAlert,
         S!Back, S!Open, navVars, Frontmost, Push, Present, Top, NavNext, ShowRooms,
         ShowWorkPlaces, ShowDates, ShowProfile, SaveProfile, DismissAlert, Back, Open

\* What SignIn knows between two pieces of work.
LEMMA KnownBetween ==
  ASSUME IInv, ~Busy
  PROVE  /\ Attempts = IF over THEN 0 ELSE left + 1
         /\ over => Attempts = 0
         /\ ~over => Attempts > 0
         /\ Observed = {r \in Request : home[r] \in sinks}
         /\ Latest = values
  <1>1. /\ Attempts = IF over THEN 0 ELSE left + 1
        /\ Observed = {r \in Request : home[r] \in sinks}
        /\ Latest = values
    BY KnownAlways DEF Known
  <1>2. left \in 0..2
    BY DEF IInv, RxTypeOK, S!MaxAttempts
  <1> QED
    BY <1>1, <1>2

\* The same after a step that makes no work.
LEMMA KnownStill ==
  ASSUME IInv, IInv', ~Busy, UNCHANGED <<left, over, sinks, todo>>
  PROVE  /\ Attempts' = Attempts
         /\ Observed' = {r \in Request : home'[r] \in sinks}
         /\ Latest' = values'
  <1>1. ~Busy'
    BY DEF Busy
  <1>2. /\ Attempts' = IF over' THEN 0 ELSE left' + 1
        /\ Observed' = {r \in Request : home'[r] \in sinks'}
        /\ Latest' = values'
    BY <1>1, KnownAlways DEF Known
  <1> QED
    BY <1>2, KnownBetween

\* A text that the filters accept reaches combineLatest as long as retry lives.
LEMMA TypeIsTyping ==
  ASSUME IInv, IInv', NEW f \in Field, NEW t \in Text, Type(f, t)
  PROVE  S!Type(f, t)
  <1>1. ~Busy /\ Frontmost("Auth") /\ t # text[f] /\ text' = [text EXCEPT ![f] = t]
    BY DEF Type
  <1>2. UNCHANGED <<left, over, sinks, home, users, todo,
                    calls, credentials, mainQueue, currentUser, navVars>>
    BY DEF Type
  <1>3. /\ over => Attempts = 0
        /\ ~over => Attempts > 0
        /\ Observed = {r \in Request : home[r] \in sinks}
        /\ Latest = values
    BY <1>1, KnownBetween
  <1>4. /\ Attempts' = Attempts
        /\ Observed' = {r \in Request : home'[r] \in sinks}
        /\ Latest' = values'
    BY <1>1, <1>2, KnownStill
  <1>5. \A n \in Shared : users[n] = IF over THEN 0 ELSE 1
    BY <1>1, IdleFacts DEF IInv
  <1>6. Latest' = IF Attempts > 0 /\ S!Valid(t) THEN [Latest EXCEPT ![f] = t] ELSE Latest
    <2>1. CASE over
      <3>1. values' = values
        BY <1>5, <2>1, SourcesAre DEF Type, Field
      <3> QED
        BY <1>3, <1>4, <2>1, <3>1
    <2>2. CASE ~over
      <3>1. users[f] = 1 /\ users["combined"] = 1
        BY <1>5, <2>2, SourcesAre DEF Field
      <3>2. values' = IF Valid(t) THEN [values EXCEPT ![f] = t] ELSE values
        BY <3>1 DEF Type, Emit
      <3> QED
        BY <1>3, <1>4, <2>2, <3>2, SameFilter
    <2> QED
      BY <2>1, <2>2
  <1>7. Observed' = Observed
    BY <1>2, <1>3, <1>4
  <1> QED
    BY <1>1, <1>2, <1>4, <1>6, <1>7, SameScreens DEF S!Type, S!navVars, navVars

\* A tap reaches Firebase with the pair that both fields make, if both do.
LEMMA TapIsTap ==
  ASSUME IInv, IInv', NEW r \in Request, Tap(r)
  PROVE  S!Tap(r)
  <1>1. /\ ~Busy /\ Frontmost("Auth") /\ calls[r] = "idle"
        /\ users["withLatest"] > 0 /\ pair # None
        /\ calls' = [calls EXCEPT ![r] = "sent"]
        /\ credentials' = [credentials EXCEPT ![r] = pair]
        /\ home' = [home EXCEPT ![r] = Number]
    BY DEF Tap
  <1>2. UNCHANGED <<text, mainQueue, currentUser, navVars,
                    left, over, sinks, users, values, pair, todo>>
    BY DEF Tap
  <1>3. ~over /\ sinks = {Number}
    BY <1>1, IdleFacts, SourcesAre DEF IInv
  <1>4. Attempts > 0 /\ Observed = {q \in Request : home[q] \in sinks} /\ Latest = values
    BY <1>1, <1>3, KnownBetween
  <1>5. /\ Attempts' = Attempts
        /\ Observed' = {q \in Request : home'[q] \in sinks}
        /\ Latest' = values'
    BY <1>1, <1>2, KnownStill
  <1>6. /\ \A f \in Field : values[f] # None
        /\ pair = <<values["login"], values["password"]>>
    BY <1>1 DEF IInv, PairFollows
  <1>7. Observed' = Observed \union {r}
    BY <1>1, <1>3, <1>4, <1>5 DEF IInv, RxTypeOK
  <1>8. Latest' = Latest
    BY <1>2, <1>4, <1>5
  <1>9. \A f \in S!Field : Latest[f] # None
    BY <1>4, <1>6 DEF S!Field, Field
  <1> QED
    BY <1>1, <1>2, <1>4, <1>5, <1>6, <1>7, <1>8, <1>9, SameScreens DEF S!Tap, S!navVars, navVars

\* onNext pushes the screen of offices for a call that is observed.
LEMMA SucceedIsSuccess ==
  ASSUME IInv, IInv', NEW r \in Request, Succeed(r)
  PROVE  S!DeliverSuccess(r)
  <1>1. ~Busy /\ S!Dequeue(r) /\ calls[r] = "accepted" /\ home[r] \in sinks /\ Push("Office")
    BY DEF Succeed
  <1>2. /\ UNCHANGED <<text, currentUser, modal, userName,
                       left, over, sinks, home, users, values, pair>>
        /\ todo' = <<<<"complete", r>>>>
    BY DEF Succeed
  <1>3. Idle /\ ~over
    BY <1>1, IdleFacts, AnswerKeeps DEF IInv
  <1>4. /\ Attempts = left + 1
        /\ Observed = {q \in Request : home[q] \in sinks}
        /\ Latest = values
    BY <1>1, <1>3, KnownBetween
  <1>5. Answered(<<"complete", r>>)'
    BY <1>2, <1>3 DEF Answered, Idle, At, Number
  <1>6. /\ Attempts' = left' + 1
        /\ Observed' = {q \in Request : home'[q] \in sinks'} \ {r}
        /\ Latest' = values'
    BY <1>5, KnownAlways DEF Known
  <1>7. r \in Observed /\ Observed' = Observed \ {r}
    BY <1>1, <1>2, <1>4, <1>6
  <1>8. Attempts' = Attempts /\ Latest' = Latest
    BY <1>2, <1>4, <1>6
  <1> QED
    BY <1>1, <1>2, <1>7, <1>8, SameScreens DEF S!DeliverSuccess

\* onError ends every call, costs an attempt and leaves the next one with what
\* the fields will replay.
LEMMA FailIsFailure ==
  ASSUME IInv, IInv', NEW r \in Request, Fail(r)
  PROVE  S!DeliverFailure(r)
  <1>1. /\ ~Busy /\ S!Dequeue(r) /\ calls[r] = "rejected" /\ home[r] \in sinks
        /\ Present("Auth", "alert")
    BY DEF Fail
  <1>2. /\ UNCHANGED <<text, currentUser, stack, userName, left, over, sinks, users, values, pair>>
        /\ todo' = <<<<"retry">>>>
    BY DEF Fail
  <1>3. Idle /\ ~over
    BY <1>1, IdleFacts, AnswerKeeps DEF IInv
  <1>4. /\ Attempts = left + 1
        /\ Observed = {q \in Request : home[q] \in sinks}
    BY <1>1, <1>3, KnownBetween
  <1>5. Answered(<<"retry">>)'
    BY <1>2, <1>3 DEF Answered, Idle, At, Number
  <1>6. Attempts' = left' /\ Observed' = {} /\ Latest' = Expected'
    BY <1>5, KnownAlways DEF Known
  <1>7. r \in Observed
    BY <1>1, <1>4
  <1>8. left \in 0..2 /\ text \in [Field -> Text]
    BY DEF IInv, RxTypeOK, S!MaxAttempts
  <1>9. Attempts' = Attempts - 1 /\ (Attempts' > 0 <=> Attempts > 1)
    BY <1>2, <1>4, <1>6, <1>8
  <1>10. Latest' = IF Attempts > 1 THEN S!LatestOnSubscribe ELSE [f \in S!Field |-> None]
    <2>1. Expected' = [f \in Field |-> IF Attempts' > 0 /\ Valid(text[f]) THEN text[f] ELSE None]
      BY <1>2 DEF Expected, Valid
    <2>2. S!LatestOnSubscribe = [f \in Field |-> IF Valid(text[f]) THEN text[f] ELSE None]
      BY <1>8, SameFilter DEF S!LatestOnSubscribe, S!Field, Field
    <2> QED
      BY <1>6, <1>9, <2>1, <2>2 DEF S!Field, Field
  <1> QED
    BY <1>1, <1>2, <1>6, <1>7, <1>9, <1>10, SameScreens DEF S!DeliverFailure

\* An answer to a call of a subscription that is gone has no effect.
LEMMA IgnoreIsIgnored ==
  ASSUME IInv, IInv', NEW r \in Request, Ignore(r)
  PROVE  S!DeliverIgnored(r)
  <1>1. ~Busy /\ S!Dequeue(r) /\ home[r] \notin sinks /\ home' = [home EXCEPT ![r] = 0]
    BY DEF Ignore
  <1>2. UNCHANGED <<text, currentUser, navVars, left, over, sinks, users, values, pair, todo>>
    BY DEF Ignore
  <1>3. Observed = {q \in Request : home[q] \in sinks} /\ Latest = values
    BY <1>1, KnownBetween
  <1>4. /\ Attempts' = Attempts
        /\ Observed' = {q \in Request : home'[q] \in sinks}
        /\ Latest' = values'
    BY <1>1, <1>2, KnownStill
  <1>5. 0 \notin sinks
    BY <1>1, IdleFacts, NumberRange DEF IInv
  <1>6. r \notin Observed /\ Observed' = Observed
    BY <1>1, <1>3, <1>4, <1>5 DEF IInv, RxTypeOK
  <1>7. Latest' = Latest
    BY <1>2, <1>3, <1>4
  <1> QED
    BY <1>1, <1>2, <1>4, <1>6, <1>7, SameScreens DEF S!DeliverIgnored, S!navVars, navVars

\* What SignIn knows while the app starts: three attempts, no call, no text.
LEMMA KnownAtStart ==
  /\ text = [f \in Field |-> EmptyText]
  /\ left = S!MaxAttempts - 1
  /\ over = FALSE
  /\ todo = <<<<"subscribe">>>>
  => Attempts = S!MaxAttempts /\ Observed = {} /\ Latest = [f \in S!Field |-> None]
  <1> SUFFICES ASSUME text = [f \in Field |-> EmptyText],
                      left = S!MaxAttempts - 1,
                      over = FALSE,
                      todo = <<<<"subscribe">>>>
               PROVE  Attempts = S!MaxAttempts /\ Observed = {} /\ Latest = [f \in S!Field |-> None]
    OBVIOUS
  <1>1. Busy /\ todo[1][1] = "subscribe"
    BY ShortWork, StepsDiffer DEF Busy
  <1>2. ~RetryDue /\ \A r \in Request : ~Completing(r)
    BY <1>1, StepsDiffer DEF RetryDue, Completing
  <1>3. Attempts = S!MaxAttempts
    BY <1>2 DEF Attempts, S!MaxAttempts
  <1>4. Observed = {} /\ Latest = Expected
    BY <1>1, <1>2 DEF Observed, Latest, Resubscribing
  <1>5. ~Valid(EmptyText)
    BY TextAssumption DEF Valid
  <1>6. Expected = [f \in S!Field |-> None]
    BY <1>5 DEF Expected, S!Field, Field
  <1> QED
    BY <1>3, <1>4, <1>6

\* The app starts as SignIn says.
LEMMA StartIsStart == Init => S!Init
  BY KnownAtStart DEF Init, NavInit, S!Init, S!NavInit, S!Field, Field

\* It also starts again as SignIn says, whatever it was at.
LEMMA RelaunchIsRelaunch == Relaunch => S!Relaunch
  <1> DEFINE Fresh == /\ text = [f \in Field |-> EmptyText]
                      /\ left = S!MaxAttempts - 1
                      /\ over = FALSE
                      /\ todo = <<<<"subscribe">>>>
             AtStart == /\ Attempts = S!MaxAttempts
                        /\ Observed = {}
                        /\ Latest = [f \in S!Field |-> None]
  <1>1. Fresh => AtStart
    BY KnownAtStart
  <1>2. Fresh' => AtStart'
    <2> HIDE DEF Fresh, AtStart
    <2> QED
      BY <1>1, PTL
  <1>3. Relaunch => Fresh'
    BY DEF Relaunch, S!MaxAttempts
  <1>4. AtStart' => /\ Attempts' = S!MaxAttempts
                    /\ Observed' = {}
                    /\ Latest' = [f \in S!Field |-> None]
    BY DEF S!MaxAttempts, S!Field
  <1> QED
    BY <1>2, <1>3, <1>4 DEF Relaunch, S!Relaunch, S!Field, Field

\* Every step of the pipeline, operator by operator, is a step of SignIn or is
\* invisible to it.
LEMMA SignInStep == IInv /\ IInv' /\ [Next]_vars => [S!Next]_(S!vars)
  <1> SUFFICES ASSUME IInv, IInv', [Next]_vars
               PROVE  S!Next \/ UNCHANGED S!vars
    OBVIOUS
  <1>1. CASE Work
    BY <1>1, WorkStep
  <1>2. ASSUME NEW f \in Field, NEW t \in Text, Type(f, t)
        PROVE  S!Next
    BY <1>2, TypeIsTyping DEF S!Next, S!Field, Field
  <1>3. ASSUME NEW r \in Request, Tap(r)
        PROVE  S!Next
    BY <1>3, TapIsTap DEF S!Next
  <1>4. ASSUME NEW r \in Request, Succeed(r) \/ Fail(r) \/ Ignore(r)
        PROVE  S!Next
    BY <1>4, SucceedIsSuccess, FailIsFailure, IgnoreIsIgnored DEF S!Next
  <1>5. ASSUME NEW r \in Request, Answer(r)
        PROVE  S!Next
    BY <1>5 DEF Answer, S!Answer, S!Next
  <1>6. ASSUME UNCHANGED <<text, rxVars>>
        PROVE  Attempts' = Attempts /\ Observed' = Observed /\ Latest' = Latest
    BY <1>6 DEF rxVars, Attempts, Observed, Latest, Expected, Resubscribing, Completing,
                RetryDue, Busy, Valid
  <1>7. CASE Navigate
    BY <1>6, <1>7, SameScreens DEF Navigate, S!Next, S!Navigate, S!signInVars
  <1>8. CASE Relaunch
    BY <1>8, RelaunchIsRelaunch DEF S!Next
  <1>9. CASE UNCHANGED vars
    BY <1>6, <1>9, WorkIsHidden DEF vars, sharedVars
  <1> QED
    BY <1>1, <1>2, <1>3, <1>4, <1>5, <1>7, <1>8, <1>9 DEF Next

\* RxSwift's pipeline implements SignIn: no interleaving of its operators with
\* the answers of Firebase shows more than SignIn's steps, for any texts,
\* accounts and number of calls under way.
THEOREM SimulatesSignIn == Spec => ImplementsSignIn
  <1>1. IInv /\ [Next]_vars => [S!Next]_(S!vars)
    BY InvariantStep, SignInStep
  <1> QED
    BY <1>1, StartIsStart, InvariantHolds, PTL DEF Spec, ImplementsSignIn, S!Spec

-----------------------------------------------------------------------------
(***************************************************************************)
(* Type correctness.                                                       *)
(***************************************************************************)

\* What is proved of SignIn alone.  S and SP are the same module twice, which
\* the provers see once its definitions are expanded.
LEMMA SignInInvariant ==
  /\ S!Init => S!IInv
  /\ S!IInv /\ [S!Next]_(S!vars) => S!IInv'
  <1>1. S!Init <=> SP!Init
    BY DEF S!Init, SP!Init, S!NavInit, SP!NavInit, S!Field, SP!Field, S!MaxAttempts, SP!MaxAttempts
  <1>2. (S!IInv <=> SP!IInv) /\ (S!IInv' <=> SP!IInv')
    BY DEF S!IInv, SP!IInv, S!TypeOK, SP!TypeOK, S!NavTypeOK, SP!NavTypeOK,
           S!ExhaustedMeansQuiet, SP!ExhaustedMeansQuiet, S!AcceptedMeansUser,
           SP!AcceptedMeansUser, S!LatestTracksScreen, SP!LatestTracksScreen,
           S!AlertMeansQuiet, SP!AlertMeansQuiet, S!OfficeRequiresUser,
           SP!OfficeRequiresUser, S!IgnoredOnlyAfterFailure,
           SP!IgnoredOnlyAfterFailure, S!Acceptable, SP!Acceptable, S!OnStack,
           SP!OnStack, S!Field, SP!Field, S!MaxAttempts, SP!MaxAttempts, S!CallStatus,
           SP!CallStatus, S!Screen, SP!Screen, S!Modal, SP!Modal
  <1>3. [S!Next]_(S!vars) => [SP!Next]_(SP!vars)
    BY DEF S!Next, SP!Next, S!Type, SP!Type, S!Tap, SP!Tap, S!Accept, SP!Accept,
           S!Reject, SP!Reject, S!DeliverSuccess, SP!DeliverSuccess, S!DeliverFailure,
           SP!DeliverFailure, S!DeliverIgnored, SP!DeliverIgnored, S!Dequeue,
           SP!Dequeue, S!Valid, SP!Valid, S!MinCount, SP!MinCount, S!MaxCount,
           SP!MaxCount, S!LatestOnSubscribe, SP!LatestOnSubscribe, S!Navigate,
           SP!Navigate, S!Relaunch, SP!Relaunch, S!NavNext, SP!NavNext, S!ShowRooms,
           SP!ShowRooms, S!ShowWorkPlaces, SP!ShowWorkPlaces, S!ShowDates,
           SP!ShowDates, S!ShowProfile, SP!ShowProfile, S!SaveProfile, SP!SaveProfile,
           S!DismissAlert, SP!DismissAlert, S!Back, SP!Back, S!Open, SP!Open,
           S!Frontmost, SP!Frontmost, S!Top, SP!Top, S!Push, SP!Push, S!Present,
           SP!Present, S!Field, SP!Field, S!MaxAttempts, SP!MaxAttempts, S!signInVars,
           SP!signInVars, S!navVars, SP!navVars, S!vars, SP!vars
  <1> QED
    BY <1>1, <1>2, <1>3, SP!InvariantInit, SP!InvariantStep,
       TextAssumption, AccountAssumption, NoneAssumption, MaxDepthAssumption

\* The pipeline inherits the invariant of SignIn, hence its types and all that
\* is proved of a tap, an alert and the screen of offices there.
THEOREM InheritsSignIn == Spec => [](S!IInv)
  <1>1. Init => S!IInv
    BY StartIsStart, SignInInvariant
  <1>2. IInv /\ S!IInv /\ [Next]_vars => S!IInv'
    BY InvariantStep, SignInStep, SignInInvariant
  <1> QED
    BY <1>1, <1>2, InvariantHolds, PTL DEF Spec

\* Work is made of steps.
LEMMA WorkOfSteps ==
  ASSUME NEW s \in Steps, NEW t \in Steps
  PROVE  /\ << >> \in Seq(Steps)
         /\ <<s>> \in Seq(Steps) /\ <<s, t>> \in Seq(Steps)
         /\ <<s>> \o Afterwards \in Seq(Steps) /\ <<s, t>> \o Afterwards \in Seq(Steps)
  <1>1. << >> \in Seq(Steps) /\ <<s>> \in Seq(Steps) /\ <<s, t>> \in Seq(Steps)
    OBVIOUS
  <1>2. Afterwards \in Seq(Steps)
    <2>1. <<"subscribe">> \in Steps
      BY DEF Steps
    <2>2. <<<<"subscribe">>>> \in Seq(Steps)
      BY <2>1
    <2> QED
      BY <1>1, <2>2 DEF Afterwards
  <1> QED
    BY <1>1, <1>2

\* At each stage what is left to do is a sequence of steps.
LEMMA TodoType == Whereabouts => todo \in Seq(Steps)
  <1>1. /\ <<"retry">> \in Steps /\ <<"subscribe">> \in Steps
        /\ \A k \in 1..S!MaxAttempts : <<"dispose", k>> \in Steps
        /\ \A n \in Shared : <<"join", n>> \in Steps /\ <<"leave", n>> \in Steps
        /\ \A r \in Request : <<"complete", r>> \in Steps
    BY DEF Steps
  <1>2. CASE Idle
    BY <1>1, <1>2, WorkOfSteps DEF Idle, At
  <1>3. ASSUME NEW r \in Request, Answered(<<"complete", r>>)
        PROVE  todo \in Seq(Steps)
    BY <1>1, <1>3, WorkOfSteps DEF Answered, At
  <1>4. CASE Answered(<<"retry">>)
    BY <1>1, <1>4, WorkOfSteps DEF Answered, At
  <1>5. CASE TakingDown
    <2>1. ASSUME NEW s \in Steps, NEW c, NEW a, At(<<s>> \o Afterwards, c, a)
          PROVE  todo \in Seq(Steps)
      BY <2>1, WorkOfSteps DEF At
    <2>2. ASSUME NEW s \in Steps, NEW t \in Steps, NEW c, NEW a, At(<<s, t>> \o Afterwards, c, a)
          PROVE  todo \in Seq(Steps)
      BY <2>2, WorkOfSteps DEF At
    <2>3. CASE \E k \in 1..S!MaxAttempts : At(<<<<"dispose", k>>>> \o Afterwards, Shared, {k})
      BY <1>1, <2>1, <2>3
    <2>4. CASE At(<<<<"leave", "withLatest">>>> \o Afterwards, Shared, {})
      BY <1>1, <2>1, <2>4, SourcesAre
    <2>5. CASE At(<<<<"leave", "combined">>>> \o Afterwards, Shared \ {"withLatest"}, {})
      BY <1>1, <2>1, <2>5, SourcesAre
    <2>6. CASE At(<<<<"leave", "login">>, <<"leave", "password">>>> \o Afterwards, Field, {})
      BY <1>1, <2>2, <2>6, SourcesAre
    <2>7. CASE At(<<<<"leave", "password">>>> \o Afterwards, {"password"}, {})
      BY <1>1, <2>1, <2>7, SourcesAre
    <2> QED
      BY <1>5, <2>3, <2>4, <2>5, <2>6, <2>7 DEF TakingDown
  <1>6. CASE SettingUp
    <2>1. ASSUME NEW s \in Steps, NEW c, NEW a, At(<<s>>, c, a)
          PROVE  todo \in Seq(Steps)
      BY <2>1, WorkOfSteps DEF At
    <2>2. ASSUME NEW s \in Steps, NEW t \in Steps, NEW c, NEW a, At(<<s, t>>, c, a)
          PROVE  todo \in Seq(Steps)
      BY <2>2, WorkOfSteps DEF At
    <2> QED
      BY <1>1, <1>6, <2>1, <2>2, SourcesAre DEF SettingUp
  <1> QED
    BY <1>2, <1>3, <1>4, <1>5, <1>6 DEF Whereabouts

\* The subscriptions alive are some of the three.
LEMMA SinksType == RxTypeOK /\ Whereabouts => sinks \subseteq 1..S!MaxAttempts
  <1> SUFFICES ASSUME RxTypeOK, Whereabouts
               PROVE  sinks \subseteq 1..S!MaxAttempts
    OBVIOUS
  <1>1. Number \in 1..S!MaxAttempts
    BY NumberRange
  <1> QED
    BY <1>1 DEF Whereabouts, Idle, Answered, TakingDown, SettingUp, At

\* Every variable of the pipeline keeps its type: no sequence ever has a second
\* observer, there are never more subscriptions than retry(3) makes, and what
\* SignIn knows of it has the types that SignIn gives it.
THEOREM TypeCorrect == Spec => []TypeOK
  <1>1. IInv /\ S!IInv => TypeOK
    <2> SUFFICES ASSUME IInv, S!IInv
                 PROVE  TypeOK
      OBVIOUS
    <2>1. sinks \subseteq 1..S!MaxAttempts /\ users \in [Shared -> 0..1]
      BY SinksType, UsersRange DEF IInv
    <2>2. \A i \in DOMAIN todo : todo[i] \in Steps
      BY TodoType DEF IInv
    <2>3. pair \in (Text \X Text) \union {None}
      BY DEF IInv, PairFollows, RxTypeOK, Field
    <2>4. S!TypeOK
      BY DEF S!IInv
    <2> QED
      BY <2>1, <2>2, <2>3, <2>4 DEF IInv, RxTypeOK, TypeOK
  <1> QED
    BY <1>1, InvariantHolds, InheritsSignIn, PTL

=============================================================================
