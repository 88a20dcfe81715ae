------------------------- MODULE ChannelInput_proofs ------------------------
(***************************************************************************)
(* What the listeners of a channel are given is what the peer sent, for    *)
(* every set of messages, however long their bodies are and wherever the   *)
(* reads cut the stream.                                                   *)
(***************************************************************************)
EXTENDS ChannelInput, FiniteSetTheorems, SequenceTheorems,
        WellFoundedInduction, TLAPS

-----------------------------------------------------------------------------
(***************************************************************************)
(* A loop that repeats a step until it changes nothing, as a recursive     *)
(* function: it exists whatever the step is, and if the step takes from a  *)
(* weight the loop ends in a fixed point and keeps what each step keeps.   *)
(***************************************************************************)

LEMMA LeastNatural ==
    ASSUME NEW T \in SUBSET Nat, T # {}
    PROVE  \E x \in T : \A y \in T : x <= y
<1>1. IsWellFoundedOn(OpToRel(<, Nat), Nat)
  BY NatLessThanWellFounded
<1>2. PICK x \in T : \A y \in T : ~ (<<y, x>> \in OpToRel(<, Nat))
  BY <1>1, WFMin, Zenon
<1>3. \A y \in T : <<y, x>> \in Nat \X Nat /\ (y < x => <<y, x>> \in OpToRel(<, Nat))
  BY Zenon DEF OpToRel
<1>4. \A y \in T : y \in Nat /\ ~ (y < x)
  BY <1>2, <1>3
<1> HIDE DEF OpToRel
<1>5. x \in Nat /\ \A y \in T : x <= y
  BY <1>4
<1> QED BY <1>5

Closed(I, S, t) == I \subseteq S /\ \A s \in I : t[s] \in I
Fixed(s, S, t) == {r \in S : t[r] = r /\ \A I \in SUBSET S : s \in I /\ Closed(I, S, t) => r \in I}

LEMMA LoopExists ==
    ASSUME NEW S, NEW t \in [S -> S]
    PROVE  \E f : f = [s \in S |-> IF t[s] = s THEN s ELSE f[t[s]]]
<1> DEFINE f == [s \in S |-> CHOOSE r : r \in Fixed(s, S, t)]
<1>1. ASSUME NEW s \in S, t[s] = s
      PROVE  Fixed(s, S, t) = {s}
  <2>1. Closed({s}, S, t)
    BY <1>1 DEF Closed
  <2> QED BY <1>1, <2>1 DEF Fixed
<1>2. ASSUME NEW s \in S, t[s] # s
      PROVE  Fixed(s, S, t) = Fixed(t[s], S, t)
  <2>1. ASSUME NEW r \in Fixed(s, S, t)
        PROVE  r \in Fixed(t[s], S, t)
    <3> SUFFICES ASSUME NEW I \in SUBSET S, t[s] \in I, Closed(I, S, t)
                 PROVE  r \in I
      BY <2>1 DEF Fixed
    <3>1. s \in I \cup {s} /\ Closed(I \cup {s}, S, t)
      BY DEF Closed
    <3>2. r \in I \cup {s} /\ t[r] = r
      BY <2>1, <3>1 DEF Fixed
    <3> QED BY <1>2, <3>2
  <2>2. ASSUME NEW r \in Fixed(t[s], S, t)
        PROVE  r \in Fixed(s, S, t)
    BY <1>2, <2>2 DEF Fixed, Closed
  <2> QED BY <2>1, <2>2
<1>3. \A s \in S : f[s] = IF t[s] = s THEN s ELSE f[t[s]]
  <2> SUFFICES ASSUME NEW s \in S
               PROVE  f[s] = IF t[s] = s THEN s ELSE f[t[s]]
    OBVIOUS
  <2>1. CASE t[s] = s
    BY <1>1, <2>1
  <2>2. CASE t[s] # s
    BY <1>2, <2>2
  <2> QED BY <2>1, <2>2
<1>4. f = [s \in S |-> IF t[s] = s THEN s ELSE f[t[s]]]
  BY <1>3
<1> QED BY <1>4

LEMMA LoopEnds ==
    ASSUME NEW S, NEW t \in [S -> S], NEW weight \in [S -> Nat],
           \A s \in S : t[s] # s => weight[t[s]] < weight[s],
           NEW f, f = [s \in S |-> IF t[s] = s THEN s ELSE f[t[s]]],
           NEW I \in SUBSET S, \A s \in I : t[s] \in I
    PROVE  \A s \in I : f[s] \in I /\ t[f[s]] = f[s]
<1> DEFINE Bad == {s \in I : ~ (f[s] \in I /\ t[f[s]] = f[s])}
           T == {weight[s] : s \in Bad}
<1> SUFFICES ASSUME Bad # {}
             PROVE  FALSE
  OBVIOUS
<1>1. \A s \in Bad : s \in S /\ s \in I /\ weight[s] \in Nat /\ ~ (f[s] \in I /\ t[f[s]] = f[s])
  OBVIOUS
<1>2. \A s \in I : ~ (f[s] \in I /\ t[f[s]] = f[s]) => s \in Bad
  OBVIOUS
<1>3. PICK s \in Bad : \A r \in Bad : weight[s] <= weight[r]
  <2> HIDE DEF Bad
  <2>1. T \in SUBSET Nat
    BY <1>1, SMTT(30)
  <2>2. T # {}
    BY SMTT(30)
  <2>3. PICK n \in T : \A k \in T : n <= k
    BY <2>1, <2>2, LeastNatural
  <2>4. PICK s \in Bad : n = weight[s]
    BY <2>3
  <2>5. \A r \in Bad : weight[r] \in T
    OBVIOUS
  <2> QED BY <2>3, <2>4, <2>5
<1> HIDE DEF Bad
<1>4. s \in S /\ s \in I /\ t[s] \in I
  BY <1>1
<1>5. CASE t[s] = s
  <2>1. f[s] = s
    BY <1>4, <1>5
  <2> QED BY <1>1, <1>4, <1>5, <2>1
<1>6. CASE t[s] # s
  <2>1. f[s] = f[t[s]]
    BY <1>4, <1>6
  <2>2. t[s] \notin Bad
    <3>1. weight[t[s]] < weight[s] /\ weight[t[s]] \in Nat /\ weight[s] \in Nat
      BY <1>4, <1>6
    <3> QED BY <1>3, <3>1
  <2>3. f[t[s]] \in I /\ t[f[t[s]]] = f[t[s]]
    BY <1>2, <1>4, <2>2
  <2> QED BY <1>1, <1>3, <2>1, <2>3
<1> QED BY <1>5, <1>6


-----------------------------------------------------------------------------
(***************************************************************************)
(* What a turn does, field by field.                                       *)
(***************************************************************************)
After(s, n) == SubSeq(s.bytes, n + 1, Len(s.bytes))

\* read_ptr moves over n pieces, ...
Moved(s, n, state, msg) ==
    [state |-> state, msg |-> msg, body |-> s.body, bytes |-> After(s, n),
     offset |-> s.offset + n, eos |-> s.eos, ready |-> s.ready]

\* ... and the stream is reset behind them.
Cleared(s, n, ready) ==
    [state |-> "WAITING_MESSAGE_START", msg |-> NoMessage, body |-> <<>>,
     bytes |-> After(s, n), offset |-> 0, eos |-> s.eos, ready |-> ready]

\* There is a line, or no more room, and no first line.
Trashes(s, t) ==
    /\ s.state = "WAITING_MESSAGE_START" /\ MayHoldLine(s) /\ Starts(s) = {}
    /\ s.bytes # <<>>
    /\ t = Cleared(s, Len(s.bytes), s.ready)

\* The first line found is behind n pieces.
Finds(s, t, n) ==
    /\ s.state = "WAITING_MESSAGE_START"
    /\ n + 1 \in Starts(s) /\ \A i \in Starts(s) : n + 1 <= i
    /\ t = Moved(s, n, "MESSAGE_AQUISITION", s.msg)

\* The headers of m end with the n-th piece.
HeadersOf(s, m, n) ==
    /\ s.state = "MESSAGE_AQUISITION"
    /\ s.bytes[n] = <<m, "headers">>
    /\ \A i \in 1..n - 1 : s.bytes[i][2] # "headers"

Refuses(s, t, m, n) ==
    /\ HeadersOf(s, m, n) /\ m \in Malformed
    /\ t = Moved(s, n, "WAITING_MESSAGE_START", s.msg)

Takes(s, t, m, n) ==
    /\ HeadersOf(s, m, n) /\ m \notin Malformed /\ m \in WithBody
    /\ t = Moved(s, n, "BODY_AQUISITION", m)

Completes(s, t, m, n) ==
    /\ HeadersOf(s, m, n) /\ m \notin Malformed /\ m \notin WithBody
    /\ t = Cleared(s, n, Append(s.ready, <<m, s.body>>))

\* The next n pieces are the body's.
Eats(s, n) ==
    /\ s.state = "BODY_AQUISITION"
    /\ n <= BodyLength - Len(s.body)
    /\ n = BodyLength - Len(s.body) \/ n = Len(s.bytes)

Eaten(s, n) == s.body \o SubSeq(s.bytes, 1, n)

Feeds(s, t, n) ==
    /\ Eats(s, n) /\ ~s.eos /\ Len(s.body) + n < BodyLength
    /\ t = [state |-> s.state, msg |-> s.msg, body |-> Eaten(s, n),
            bytes |-> After(s, n), offset |-> 0, eos |-> s.eos, ready |-> s.ready]

Finishes(s, t, n) ==
    /\ Eats(s, n) /\ (s.eos \/ Len(s.body) + n = BodyLength)
    /\ t = Cleared(s, n, Append(s.ready, <<s.msg, Eaten(s, n)>>))

Turns(s, t) ==
    \/ Trashes(s, t)
    \/ \E n \in 0..Len(s.bytes) - 2 : Finds(s, t, n)
    \/ \E n \in 1..Len(s.bytes), m \in Messages :
          Refuses(s, t, m, n) \/ Takes(s, t, m, n) \/ Completes(s, t, m, n)
    \/ \E n \in 1..Len(s.bytes) : Feeds(s, t, n) \/ Finishes(s, t, n)

\* What a turn that changes nothing waits for.
Rests(s) ==
    \/ s.bytes = <<>>
    \/ s.state = "WAITING_MESSAGE_START" /\ ~MayHoldLine(s)
    \/ s.state = "MESSAGE_AQUISITION" /\ \A i \in 1..Len(s.bytes) : s.bytes[i][2] # "headers"

LEMMA MinFacts ==
    ASSUME NEW T \in SUBSET Nat, T # {}
    PROVE  Min(T) \in T /\ \A i \in T : Min(T) <= i
BY LeastNatural DEF Min

LEMMA StreamFields ==
    ASSUME NEW s \in InputStream
    PROVE  /\ s.state \in InputStates /\ s.msg \in Messages \cup {NoMessage}
           /\ s.body \in Seq(Pieces) /\ Len(s.body) \in Nat /\ Len(s.body) < BodyLength
           /\ s.bytes \in Seq(Pieces) /\ Len(s.bytes) \in Nat
           /\ DOMAIN s.bytes = 1..Len(s.bytes)
           /\ \A i \in 1..Len(s.bytes) : s.bytes[i] \in Pieces
           /\ s.offset \in Nat /\ s.eos \in BOOLEAN
           /\ s.ready \in Seq((Messages \cup {NoMessage}) \X Seq(Pieces))
BY DEF InputStream

LEMMA SkippedIs ==
    ASSUME NEW s \in InputStream, NEW n
    PROVE  Skipped(s, n) = Moved(s, n, s.state, s.msg)
<1> DEFINE x == [state |-> s.state, msg |-> s.msg, body |-> s.body, bytes |-> s.bytes,
                 offset |-> s.offset, eos |-> s.eos, ready |-> s.ready]
           y == [s EXCEPT !.bytes = After(s, n)]
<1>1. s = x
  BY DEF InputStream
<1>2. y = [state |-> s.state, msg |-> s.msg, body |-> s.body, bytes |-> After(s, n),
           offset |-> s.offset, eos |-> s.eos, ready |-> s.ready]
  BY <1>1
<1> HIDE DEF x, y
<1>3. Skipped(s, n) = [y EXCEPT !.offset = s.offset + n]
  BY DEF Skipped, y, After
<1> QED BY <1>2, <1>3 DEF Moved

LEMMA ResetIs ==
    ASSUME NEW a, NEW b, NEW c, NEW d, NEW e, NEW f, NEW g
    PROVE  Reset([state |-> a, msg |-> b, body |-> c, bytes |-> d,
                  offset |-> e, eos |-> f, ready |-> g])
           = [state |-> "WAITING_MESSAGE_START", msg |-> NoMessage, body |-> <<>>,
              bytes |-> d, offset |-> 0, eos |-> f, ready |-> g]
<1> DEFINE x == [state |-> a, msg |-> b, body |-> c, bytes |-> d,
                 offset |-> e, eos |-> f, ready |-> g]
           y == [x EXCEPT !.offset = 0]
           z == [y EXCEPT !.state = "WAITING_MESSAGE_START"]
           w == [z EXCEPT !.msg = NoMessage]
<1>1. Reset(x) = [w EXCEPT !.body = <<>>]
  BY DEF Reset, Rewound
<1>2. y = [state |-> a, msg |-> b, body |-> c, bytes |-> d,
           offset |-> 0, eos |-> f, ready |-> g]
  OBVIOUS
<1> HIDE DEF y
<1>3. z = [state |-> "WAITING_MESSAGE_START", msg |-> b, body |-> c, bytes |-> d,
           offset |-> 0, eos |-> f, ready |-> g]
  BY <1>2
<1> HIDE DEF z
<1>4. w = [state |-> "WAITING_MESSAGE_START", msg |-> NoMessage, body |-> c, bytes |-> d,
           offset |-> 0, eos |-> f, ready |-> g]
  BY <1>3
<1> HIDE DEF w, x
<1> QED BY <1>1, <1>4 DEF x


LEMMA FindStartTurns ==
    ASSUME NEW s \in InputStream, s.state = "WAITING_MESSAGE_START", MayHoldLine(s),
           s.bytes # <<>>
    PROVE  Turns(s, FindStart(s))
<1>1. Len(s.bytes) \in Nat
  BY StreamFields
<1>2. CASE Starts(s) = {}
  <2> DEFINE n == Len(s.bytes)
  <2>1. FindStart(s) = Reset(Moved(s, n, s.state, s.msg))
    BY <1>2, SkippedIs DEF FindStart
  <2>2. Reset(Moved(s, n, s.state, s.msg)) = Cleared(s, n, s.ready)
    BY ResetIs DEF Moved, Cleared
  <2>3. Trashes(s, FindStart(s))
    BY <1>2, <2>1, <2>2 DEF Trashes
  <2> QED BY <2>3 DEF Turns
<1>3. CASE Starts(s) # {}
  <2> DEFINE n == Min(Starts(s)) - 1
             x == Moved(s, n, s.state, s.msg)
  <2>1. Starts(s) \subseteq 1..Len(s.bytes) - 1
    BY DEF Starts
  <2>2. /\ n \in 0..Len(s.bytes) - 2 /\ n + 1 \in Starts(s)
        /\ \A i \in Starts(s) : n + 1 <= i
    <3>1. Starts(s) \in SUBSET Nat
      BY <1>1, <2>1
    <3>2. Min(Starts(s)) \in Starts(s) /\ \A i \in Starts(s) : Min(Starts(s)) <= i
      BY <1>3, <3>1, MinFacts
    <3> QED BY <1>1, <2>1, <3>2
  <2>3. FindStart(s) = [x EXCEPT !.state = "MESSAGE_AQUISITION"]
    BY <1>3, SkippedIs DEF FindStart
  <2> HIDE DEF n
  <2>4. [x EXCEPT !.state = "MESSAGE_AQUISITION"] = Moved(s, n, "MESSAGE_AQUISITION", s.msg)
    BY DEF Moved
  <2>5. Finds(s, FindStart(s), n)
    BY <2>2, <2>3, <2>4 DEF Finds
  <2> QED BY <2>2, <2>5 DEF Turns
<1> QED BY <1>2, <1>3

LEMMA AcquireHeadersTurns ==
    ASSUME NEW s \in InputStream, s.state = "MESSAGE_AQUISITION",
           ~ \A i \in 1..Len(s.bytes) : s.bytes[i][2] # "headers"
    PROVE  Turns(s, AcquireHeaders(s))
<1> DEFINE Ends == {i \in DOMAIN s.bytes : s.bytes[i][2] = "headers"}
           n    == Min(Ends)
           m    == s.bytes[n][1]
           x    == Moved(s, n, s.state, s.msg)
<1>1. Len(s.bytes) \in Nat /\ DOMAIN s.bytes = 1..Len(s.bytes)
  BY StreamFields
<1>2. Ends # {} /\ Ends \in SUBSET Nat
  BY <1>1
<1>3. n \in Ends /\ \A i \in Ends : n <= i
  BY <1>2, MinFacts
<1>4. AcquireHeaders(s) =
        IF m \in Malformed THEN [x EXCEPT !.state = "WAITING_MESSAGE_START"]
        ELSE IF m \in WithBody
        THEN [x EXCEPT !.state = "BODY_AQUISITION", !.msg = m]
        ELSE MessageReady([x EXCEPT !.msg = m])
  BY <1>2, SkippedIs DEF AcquireHeaders, CheckBody
<1> HIDE DEF n
<1>5. /\ n \in 1..Len(s.bytes) /\ s.bytes[n][2] = "headers"
      /\ \A i \in 1..n - 1 : s.bytes[i][2] # "headers"
  BY <1>1, <1>3
<1>6. m \in Messages /\ s.bytes[n] = <<m, "headers">>
  <2>1. s.bytes[n] \in Pieces
    BY <1>5, StreamFields
  <2> QED BY <1>5, <2>1 DEF Pieces, KeepAlive
<1> HIDE DEF m
<1>7. HeadersOf(s, m, n)
  BY <1>5, <1>6 DEF HeadersOf
<1> HIDE DEF Ends
<1>8. CASE m \in Malformed
  <2>1. [x EXCEPT !.state = "WAITING_MESSAGE_START"] = Moved(s, n, "WAITING_MESSAGE_START", s.msg)
    BY DEF Moved
  <2>2. Refuses(s, AcquireHeaders(s), m, n)
    BY <1>4, <1>7, <1>8, <2>1 DEF Refuses
  <2> QED BY <1>5, <1>6, <2>2 DEF Turns
<1>9. CASE m \notin Malformed /\ m \in WithBody
  <2> DEFINE y == [x EXCEPT !.state = "BODY_AQUISITION"]
  <2>1. y = Moved(s, n, "BODY_AQUISITION", s.msg)
    BY DEF Moved
  <2> HIDE DEF y
  <2>2. [y EXCEPT !.msg = m] = Moved(s, n, "BODY_AQUISITION", m)
    BY <2>1 DEF Moved
  <2>3. AcquireHeaders(s) = [y EXCEPT !.msg = m]
    BY <1>4, <1>9 DEF y
  <2>4. Takes(s, AcquireHeaders(s), m, n)
    BY <1>7, <1>9, <2>2, <2>3 DEF Takes
  <2> QED BY <1>5, <1>6, <2>4 DEF Turns
<1>10. CASE m \notin Malformed /\ m \notin WithBody
  <2> DEFINE y == [x EXCEPT !.msg = m]
             ready == Append(s.ready, <<m, s.body>>)
             z == [y EXCEPT !.ready = Append(y.ready, <<y.msg, y.body>>)]
  <2>1. AcquireHeaders(s) = Reset(z)
    BY <1>4, <1>10 DEF MessageReady
  <2>2. y = [state |-> s.state, msg |-> m, body |-> s.body, bytes |-> After(s, n),
             offset |-> s.offset + n, eos |-> s.eos, ready |-> s.ready]
    BY DEF Moved
  <2> HIDE DEF y, x
  <2>3. z = [state |-> s.state, msg |-> m, body |-> s.body, bytes |-> After(s, n),
             offset |-> s.offset + n, eos |-> s.eos, ready |-> ready]
    <3>1. y.ready = s.ready /\ y.msg = m /\ y.body = s.body
      BY <2>2
    <3>2. Append(y.ready, <<y.msg, y.body>>) = ready
      BY <3>1, Zenon
    <3>3. z = [y EXCEPT !.ready = ready]
      BY <3>2, Zenon
    <3> HIDE DEF z, ready
    <3> QED BY <2>2, <3>3
  <2>4. Reset(z) = Cleared(s, n, ready)
    BY <2>3, ResetIs, SMTT(30) DEF Cleared
  <2> HIDE DEF z
  <2>5. Completes(s, AcquireHeaders(s), m, n)
    BY <1>7, <1>10, <2>1, <2>4 DEF Completes
  <2> QED BY <1>5, <1>6, <2>5 DEF Turns
<1> QED BY <1>8, <1>9, <1>10

LEMMA AcquireBodyTurns ==
    ASSUME NEW s \in InputStream, s.state = "BODY_AQUISITION", s.bytes # <<>>
    PROVE  Turns(s, AcquireBody(s))
<1> DEFINE n == Min({BodyLength - Len(s.body), Len(s.bytes)})
           x == Moved(s, n, s.state, s.msg)
           y == [x EXCEPT !.body = Eaten(s, n)]
           f == FeedBody(s, n)
           ready == Append(s.ready, <<s.msg, Eaten(s, n)>>)
           z == [f EXCEPT !.ready = Append(f.ready, <<f.msg, f.body>>)]
<1>1. /\ BodyLength \in Nat /\ Len(s.body) \in Nat /\ Len(s.body) < BodyLength
      /\ Len(s.bytes) \in Nat /\ Len(s.bytes) > 0
      /\ s.bytes \in Seq(Pieces) /\ s.body \in Seq(Pieces)
  BY StreamFields, EmptySeq, ChannelInputAssumption
<1>2. n \in 1..Len(s.bytes) /\ Eats(s, n)
  <2>1. {BodyLength - Len(s.body), Len(s.bytes)} \in SUBSET Nat
    BY <1>1
  <2>2. /\ n \in {BodyLength - Len(s.body), Len(s.bytes)}
        /\ \A i \in {BodyLength - Len(s.body), Len(s.bytes)} : n <= i
    BY <2>1, MinFacts
  <2> HIDE DEF n
  <2> QED BY <1>1, <2>2 DEF Eats
<1>3. AcquireBody(s) = IF f.eos \/ Len(f.body) >= BodyLength THEN Reset(z) ELSE f
  <2>1. f.eos = s.eos
    BY SkippedIs DEF FeedBody, Rewound, Moved
  <2> QED BY <2>1 DEF AcquireBody, MessageReady
<1>4. f = Rewound(y)
  BY SkippedIs DEF FeedBody, Eaten
<1> HIDE DEF n
<1>5. y = [state |-> s.state, msg |-> s.msg, body |-> Eaten(s, n), bytes |-> After(s, n),
           offset |-> s.offset + n, eos |-> s.eos, ready |-> s.ready]
  BY DEF Moved
<1> HIDE DEF y, f
<1>6. f = [state |-> s.state, msg |-> s.msg, body |-> Eaten(s, n), bytes |-> After(s, n),
           offset |-> 0, eos |-> s.eos, ready |-> s.ready]
  BY <1>4, <1>5 DEF Rewound
<1>7. Len(Eaten(s, n)) = Len(s.body) + n /\ n \in Nat
  <2>1. SubSeq(s.bytes, 1, n) \in Seq(Pieces) /\ Len(SubSeq(s.bytes, 1, n)) = n
    BY <1>1, <1>2
  <2> QED BY <1>1, <1>2, <2>1, ConcatProperties DEF Eaten
<1>8. /\ f.eos = s.eos /\ f.body = Eaten(s, n) /\ f.msg = s.msg /\ f.ready = s.ready
      /\ z = [state |-> s.state, msg |-> s.msg, body |-> Eaten(s, n), bytes |-> After(s, n),
              offset |-> 0, eos |-> s.eos, ready |-> ready]
  BY <1>6
<1>9. Reset(z) = Cleared(s, n, ready)
  BY <1>8, ResetIs, SMTT(30) DEF Cleared
<1> HIDE DEF z
<1>10. n <= BodyLength - Len(s.body)
  BY <1>2 DEF Eats
<1>11. CASE s.eos \/ Len(Eaten(s, n)) >= BodyLength
  <2>1. s.eos \/ Len(s.body) + n = BodyLength
    BY <1>1, <1>7, <1>10, <1>11
  <2>2. AcquireBody(s) = Cleared(s, n, ready)
    BY <1>3, <1>8, <1>9, <1>11
  <2>3. Finishes(s, AcquireBody(s), n)
    BY <1>2, <2>1, <2>2 DEF Finishes
  <2> QED BY <1>2, <2>3 DEF Turns
<1>12. CASE ~ (s.eos \/ Len(Eaten(s, n)) >= BodyLength)
  <2>1. AcquireBody(s) = f
    BY <1>3, <1>8, <1>12
  <2>2. ~s.eos /\ Len(s.body) + n < BodyLength
    BY <1>1, <1>7, <1>12
  <2>3. Feeds(s, AcquireBody(s), n)
    BY <1>2, <1>6, <2>1, <2>2 DEF Feeds
  <2> QED BY <1>2, <2>3 DEF Turns
<1> QED BY <1>11, <1>12

LEMMA TurnFacts ==
    ASSUME NEW s \in InputStream
    PROVE  /\ Rests(s) => Turn(s) = s
           /\ ~Rests(s) => Turns(s, Turn(s))
<1>1. /\ s.state \in InputStates /\ Len(s.bytes) \in Nat
      /\ DOMAIN s.bytes = 1..Len(s.bytes)
  BY StreamFields
<1>2. CASE s.bytes = <<>>
  BY <1>2 DEF Turn, Rests
<1>3. CASE s.bytes # <<>> /\ s.state = "WAITING_MESSAGE_START"
  <2>1. Turn(s) = FindStart(s)
    BY <1>3 DEF Turn
  <2>2. ~MayHoldLine(s) => FindStart(s) = s
    BY DEF FindStart
  <2> QED BY <1>3, <2>1, <2>2, FindStartTurns DEF Rests
<1>4. CASE s.bytes # <<>> /\ s.state = "MESSAGE_AQUISITION"
  <2>1. Turn(s) = AcquireHeaders(s)
    BY <1>4 DEF Turn
  <2>2. (\A i \in 1..Len(s.bytes) : s.bytes[i][2] # "headers") => AcquireHeaders(s) = s
    BY <1>1 DEF AcquireHeaders
  <2> QED BY <1>4, <2>1, <2>2, AcquireHeadersTurns DEF Rests
<1>5. CASE s.bytes # <<>> /\ s.state = "BODY_AQUISITION"
  <2>1. Turn(s) = AcquireBody(s)
    BY <1>5 DEF Turn
  <2> QED BY <1>5, <2>1, AcquireBodyTurns DEF Rests
<1> QED BY <1>1, <1>2, <1>3, <1>4, <1>5 DEF InputStates

-----------------------------------------------------------------------------
(***************************************************************************)
(* The types: each turn consumes bytes or leaves WAITING_MESSAGE_START, so *)
(* the loop ends.                                                          *)
(***************************************************************************)
LEMMA AfterFacts ==
    ASSUME NEW s \in InputStream, NEW n \in 0..Len(s.bytes)
    PROVE  /\ After(s, n) \in Seq(Pieces)
           /\ Len(After(s, n)) = Len(s.bytes) - n
           /\ \A i \in 1..Len(s.bytes) - n : After(s, n)[i] = s.bytes[n + i]
BY StreamFields DEF After

LEMMA EatenFacts ==
    ASSUME NEW s \in InputStream, NEW n \in 0..Len(s.bytes)
    PROVE  /\ Eaten(s, n) \in Seq(Pieces)
           /\ Len(Eaten(s, n)) = Len(s.body) + n
           /\ \A i \in 1..Len(s.body) : Eaten(s, n)[i] = s.body[i]
           /\ \A i \in 1..n : Eaten(s, n)[Len(s.body) + i] = s.bytes[i]
<1>1. /\ s.bytes \in Seq(Pieces) /\ Len(s.bytes) \in Nat
      /\ s.body \in Seq(Pieces) /\ Len(s.body) \in Nat
  BY StreamFields
<1>2. /\ SubSeq(s.bytes, 1, n) \in Seq(Pieces) /\ Len(SubSeq(s.bytes, 1, n)) = n
      /\ \A i \in 1..n : SubSeq(s.bytes, 1, n)[i] = s.bytes[i]
  BY <1>1
<1> DEFINE eaten == SubSeq(s.bytes, 1, n)
<1> HIDE DEF eaten
<1>3. eaten \in Seq(Pieces) /\ Len(eaten) = n
  BY <1>2 DEF eaten
<1>4. /\ s.body \o eaten \in Seq(Pieces)
      /\ Len(s.body \o eaten) = Len(s.body) + n
      /\ \A i \in 1..Len(s.body) : (s.body \o eaten)[i] = s.body[i]
      /\ \A i \in 1..n : (s.body \o eaten)[Len(s.body) + i] = eaten[i]
  BY <1>1, <1>3
<1>5. Eaten(s, n) = s.body \o eaten
  BY DEF Eaten, eaten
<1>6. \A i \in 1..n : eaten[i] = s.bytes[i]
  BY <1>2 DEF eaten
<1> QED BY <1>4, <1>5, <1>6

Weight(s) == 2 * Len(s.bytes) + IF s.state = "WAITING_MESSAGE_START" THEN 1 ELSE 0

LEMMA TurnsTypes ==
    ASSUME NEW s \in InputStream, NEW t, Turns(s, t)
    PROVE  t \in InputStream /\ Weight(t) < Weight(s)
<1>1. /\ s.state \in InputStates /\ s.msg \in Messages \cup {NoMessage}
      /\ s.body \in {b \in Seq(Pieces) : Len(b) < BodyLength}
      /\ s.bytes \in Seq(Pieces) /\ Len(s.bytes) \in Nat
      /\ s.offset \in Nat /\ s.eos \in BOOLEAN
      /\ s.ready \in Seq((Messages \cup {NoMessage}) \X Seq(Pieces))
      /\ <<>> \in {b \in Seq(Pieces) : Len(b) < BodyLength}
      /\ s.body \in Seq(Pieces) /\ Len(s.body) \in Nat
  BY ChannelInputAssumption DEF InputStream
<1>2. ASSUME NEW n \in 0..Len(s.bytes), NEW state \in InputStates,
             NEW m \in Messages \cup {NoMessage}
      PROVE  /\ Moved(s, n, state, m) \in InputStream
             /\ Moved(s, n, state, m).state = state
             /\ Len(Moved(s, n, state, m).bytes) = Len(s.bytes) - n
  <2>1. After(s, n) \in Seq(Pieces) /\ Len(After(s, n)) = Len(s.bytes) - n
    BY AfterFacts
  <2>2. s.offset + n \in Nat
    BY <1>1
  <2>3. Moved(s, n, state, m) \in InputStream
    BY <1>1, <2>1, <2>2 DEF Moved, InputStream
  <2> QED BY <2>1, <2>3 DEF Moved
<1>3. ASSUME NEW n \in 0..Len(s.bytes),
             NEW ready \in Seq((Messages \cup {NoMessage}) \X Seq(Pieces))
      PROVE  /\ Cleared(s, n, ready) \in InputStream
             /\ Cleared(s, n, ready).state = "WAITING_MESSAGE_START"
             /\ Len(Cleared(s, n, ready).bytes) = Len(s.bytes) - n
  <2>1. After(s, n) \in Seq(Pieces) /\ Len(After(s, n)) = Len(s.bytes) - n
    BY AfterFacts
  <2>2. Cleared(s, n, ready) \in InputStream
    BY <1>1, <2>1 DEF Cleared, InputStream, InputStates
  <2> QED BY <2>1, <2>2 DEF Cleared
<1>4. ASSUME NEW m \in Messages \cup {NoMessage}, NEW b \in Seq(Pieces)
      PROVE  Append(s.ready, <<m, b>>) \in Seq((Messages \cup {NoMessage}) \X Seq(Pieces))
  BY <1>1, AppendProperties
<1>5. CASE Trashes(s, t)
  <2>1. Len(s.bytes) # 0
    BY <1>1, <1>5, EmptySeq DEF Trashes
  <2>2. t = Cleared(s, Len(s.bytes), s.ready) /\ Len(s.bytes) \in 0..Len(s.bytes)
    BY <1>1, <1>5 DEF Trashes
  <2>3. t \in InputStream /\ t.state = "WAITING_MESSAGE_START" /\ Len(t.bytes) = 0
    BY <1>1, <1>3, <2>2
  <2>4. s.state = "WAITING_MESSAGE_START"
    BY <1>5 DEF Trashes
  <2> QED BY <1>1, <2>1, <2>3, <2>4 DEF Weight
<1>6. ASSUME NEW n \in 0..Len(s.bytes) - 2, Finds(s, t, n)
      PROVE  t \in InputStream /\ Weight(t) < Weight(s)
  <2>1. t = Moved(s, n, "MESSAGE_AQUISITION", s.msg) /\ n \in 0..Len(s.bytes)
    BY <1>1, <1>6 DEF Finds
  <2>2. t \in InputStream /\ t.state = "MESSAGE_AQUISITION" /\ Len(t.bytes) = Len(s.bytes) - n
    BY <1>1, <1>2, <2>1 DEF InputStates
  <2>3. s.state = "WAITING_MESSAGE_START" /\ n \in Nat
    BY <1>6 DEF Finds
  <2> QED BY <1>1, <2>2, <2>3 DEF Weight
<1>7. ASSUME NEW n \in 1..Len(s.bytes), NEW m \in Messages,
             Refuses(s, t, m, n) \/ Takes(s, t, m, n) \/ Completes(s, t, m, n)
      PROVE  t \in InputStream /\ Weight(t) < Weight(s)
  <2>0. n \in 0..Len(s.bytes) /\ s.state = "MESSAGE_AQUISITION"
    BY <1>1, <1>7 DEF Refuses, Takes, Completes, HeadersOf
  <2>1. CASE Refuses(s, t, m, n)
    <3>1. t = Moved(s, n, "WAITING_MESSAGE_START", s.msg)
      BY <2>1 DEF Refuses
    <3>2. t \in InputStream /\ t.state = "WAITING_MESSAGE_START" /\ Len(t.bytes) = Len(s.bytes) - n
      BY <1>1, <1>2, <2>0, <3>1 DEF InputStates
    <3> QED BY <1>1, <2>0, <3>2 DEF Weight
  <2>2. CASE Takes(s, t, m, n)
    <3>1. t = Moved(s, n, "BODY_AQUISITION", m)
      BY <2>2 DEF Takes
    <3>2. t \in InputStream /\ t.state = "BODY_AQUISITION" /\ Len(t.bytes) = Len(s.bytes) - n
      BY <1>1, <1>2, <2>0, <3>1 DEF InputStates
    <3> QED BY <1>1, <2>0, <3>2 DEF Weight
  <2>3. CASE Completes(s, t, m, n)
    <3>1. t = Cleared(s, n, Append(s.ready, <<m, s.body>>))
      BY <2>3 DEF Completes
    <3>2. t \in InputStream /\ t.state = "WAITING_MESSAGE_START" /\ Len(t.bytes) = Len(s.bytes) - n
      BY <1>1, <1>3, <1>4, <2>0, <3>1
    <3> QED BY <1>1, <2>0, <3>2 DEF Weight
  <2> QED BY <1>7, <2>1, <2>2, <2>3
<1>8. ASSUME NEW n \in 1..Len(s.bytes), Feeds(s, t, n) \/ Finishes(s, t, n)
      PROVE  t \in InputStream /\ Weight(t) < Weight(s)
  <2>1. Eaten(s, n) \in Seq(Pieces) /\ Len(Eaten(s, n)) = Len(s.body) + n
    BY EatenFacts
  <2>0. n \in 0..Len(s.bytes) /\ s.state = "BODY_AQUISITION"
    BY <1>1, <1>8 DEF Feeds, Finishes, Eats
  <2>2. CASE Feeds(s, t, n)
    <3>1. After(s, n) \in Seq(Pieces) /\ Len(After(s, n)) = Len(s.bytes) - n
      BY AfterFacts, <2>0
    <3>2. t \in InputStream
      <4>1. Eaten(s, n) \in {b \in Seq(Pieces) : Len(b) < BodyLength}
        BY <2>1, <2>2 DEF Feeds
      <4> QED BY <1>1, <4>1, <2>2, <3>1 DEF Feeds, InputStream
    <3>3. t.state = s.state /\ t.bytes = After(s, n)
      BY <2>2 DEF Feeds
    <3> QED BY <1>1, <2>0, <3>1, <3>2, <3>3 DEF Weight
  <2>3. CASE Finishes(s, t, n)
    <3>1. t = Cleared(s, n, Append(s.ready, <<s.msg, Eaten(s, n)>>))
      BY <2>3 DEF Finishes
    <3>2. t \in InputStream /\ t.state = "WAITING_MESSAGE_START" /\ Len(t.bytes) = Len(s.bytes) - n
      BY <1>1, <1>3, <1>4, <2>0, <2>1, <3>1
    <3> QED BY <1>1, <2>0, <3>2 DEF Weight
  <2> QED BY <1>8, <2>2, <2>3
<1> QED BY <1>5, <1>6, <1>7, <1>8 DEF Turns

-----------------------------------------------------------------------------
(***************************************************************************)
(* The loop of belle_sip_channel_parse_stream: what each turn keeps, it    *)
(* keeps, and it ends where there is nothing to do.                        *)
(***************************************************************************)
LEMMA ParseKeeps ==
    ASSUME NEW I \in SUBSET InputStream,
           \A s \in I : \A t : Turns(s, t) => t \in I
    PROVE  \A s \in I : ParseStream[s] \in I /\ Rests(ParseStream[s])
<1> DEFINE turn == [s \in InputStream |-> Turn(s)]
           weight == [s \in InputStream |-> Weight(s)]
<1>1. ASSUME NEW s \in InputStream
      PROVE  /\ Turn(s) \in InputStream
             /\ Turn(s) # s => Weight(Turn(s)) < Weight(s)
             /\ Turn(s) = s => Rests(s)
             /\ Weight(s) \in Nat
  <2>1. Weight(s) \in Nat
    <3>1. Len(s.bytes) \in Nat
      BY StreamFields
    <3>2. CASE s.state = "WAITING_MESSAGE_START"
      BY <3>1, <3>2 DEF Weight
    <3>3. CASE s.state # "WAITING_MESSAGE_START"
      BY <3>1, <3>3 DEF Weight
    <3> QED BY <3>2, <3>3
  <2>2. Rests(s) => Turn(s) = s
    BY TurnFacts
  <2>3. ~Rests(s) => Turn(s) \in InputStream /\ Weight(Turn(s)) < Weight(s)
    BY TurnFacts, TurnsTypes
  <2> QED BY <2>1, <2>2, <2>3
<1>2. turn \in [InputStream -> InputStream] /\ weight \in [InputStream -> Nat]
  BY <1>1
<1>3. \A s \in InputStream : turn[s] = Turn(s) /\ weight[s] = Weight(s)
  OBVIOUS
<1>4. \A s \in InputStream : turn[s] # s => weight[turn[s]] < weight[s]
  BY <1>1, <1>3
<1>5. \A s \in I : turn[s] \in I
  BY <1>3, TurnFacts
<1> HIDE DEF turn, weight
<1>6. \E f : f = [s \in InputStream |-> IF turn[s] = s THEN s ELSE f[turn[s]]]
  BY <1>2, LoopExists
<1>7. ParseStream = [s \in InputStream |-> IF turn[s] = s THEN s ELSE ParseStream[turn[s]]]
  <2>1. \E f : f = [s \in InputStream |-> IF Turn(s) = s THEN s ELSE f[Turn(s)]]
    BY <1>3, <1>6
  <2>2. ParseStream = [s \in InputStream |-> IF Turn(s) = s THEN s ELSE ParseStream[Turn(s)]]
    BY <2>1 DEF ParseStream
  <2> QED BY <1>3, <2>2
<1>8. \A s \in I : ParseStream[s] \in I /\ turn[ParseStream[s]] = ParseStream[s]
  BY <1>2, <1>4, <1>5, <1>7, LoopEnds
<1> QED BY <1>1, <1>3, <1>8

-----------------------------------------------------------------------------
(***************************************************************************)
(* What was sent: the messages one behind the other, keep alives between   *)
(* them.                                                                   *)
(***************************************************************************)
Begins(st, m, p) == p \in 1..Len(st) /\ st[p] = <<m, "start">>

Length(m) == IF m \in WithBody THEN 3 + BodyLength ELSE 3

\* A message goes on as it must, and ...
Whole(st) ==
    \A m \in Messages, p \in 1..Len(st) : Begins(st, m, p) =>
        /\ p + Length(m) - 1 <= Len(st)
        /\ st[p + 1] = <<m, "line">>
        /\ st[p + 2] = <<m, "headers">>
        /\ m \in WithBody => \A i \in 1..BodyLength : st[p + 2 + i] = <<m, "body">>

\* ... each piece has its place behind the beginning of its message.
Placed(st) ==
    \A m \in Messages, i \in 1..Len(st) :
        /\ st[i] = <<m, "line">> => Begins(st, m, i - 1)
        /\ st[i] = <<m, "headers">> => Begins(st, m, i - 2)
        /\ st[i] = <<m, "body">> =>
              /\ m \in WithBody
              /\ \E p \in 1..Len(st) : Begins(st, m, p) /\ i \in p + 3..p + 2 + BodyLength

Once(st) ==
    \A m \in Messages, p, q \in 1..Len(st) :
        Begins(st, m, p) /\ Begins(st, m, q) => p = q

WellSent(st) == st \in Seq(Pieces) /\ Whole(st) /\ Placed(st) /\ Once(st)

\* No message goes over the n-th piece.
Outside(st, n) ==
    \A m \in Messages, p \in 1..Len(st) :
        Begins(st, m, p) /\ p <= n => p + Length(m) - 1 <= n

\* Something to be trashed is among the first n pieces.
Bad(st, n) == \E i \in 1..n : st[i][1] \in Malformed \cup {NoMessage}

-----------------------------------------------------------------------------
(***************************************************************************)
(* What the parser keeps, turn after turn: s is the input stream, g pieces *)
(* of st were read, D was delivered or is ready to be and W are the        *)
(* messages whose first line came in one read.                             *)
(***************************************************************************)
Consumed(s, g) == g - Len(s.bytes)

\* The messages that begin here or before are done with.
Settled(s, g) ==
    IF s.state = "BODY_AQUISITION" THEN Consumed(s, g) - 3 - Len(s.body)
                                   ELSE Consumed(s, g)

Aligned(st, s, g) ==
    /\ g \in Nat /\ g <= Len(st) /\ Len(s.bytes) <= g
    /\ s.offset <= Consumed(s, g)
    /\ \A i \in 1..Len(s.bytes) : s.bytes[i] = st[Consumed(s, g) + i]
    /\ s.state # "BODY_AQUISITION" => s.msg = NoMessage /\ s.body = <<>>
    /\ s.state = "MESSAGE_AQUISITION" =>
          /\ \E m \in Messages : Begins(st, m, Consumed(s, g) + 1)
          /\ Consumed(s, g) + 2 <= g
    /\ s.state = "BODY_AQUISITION" =>
          /\ s.msg \in WithBody \ Malformed
          /\ Begins(st, s.msg, Settled(s, g) + 1)
          /\ \A i \in 1..Len(s.body) : s.body[i] = <<s.msg, "body">>

Given(st, s, g, D) ==
    /\ D \in Seq((Messages \ Malformed) \X Seq(Pieces))
    /\ \A i \in 1..Len(D) :
          /\ D[i][2] = BodyOf(D[i][1])
          /\ \E p \in 1..Len(st) : /\ Begins(st, D[i][1], p)
                                   /\ p + Length(D[i][1]) - 1 <= Settled(s, g)
    /\ \A i, j \in 1..Len(D) : \A p, q \in 1..Len(st) :
          i < j /\ Begins(st, D[i][1], p) /\ Begins(st, D[j][1], q) => p < q

\* A message that is not among what was given was cut in its first line.
Kept(st, s, g, D, W) ==
    \A m \in Messages \ Malformed, p \in 1..Len(st) :
        Begins(st, m, p) /\ p <= Settled(s, g) =>
            \/ \E i \in 1..Len(D) : D[i][1] = m
            \/ m \notin W /\ Bad(st, p)

LinesRead(st, g, W) ==
    \A m \in W : m \in Messages /\ \E p \in 1..Len(st) : Begins(st, m, p) /\ p < g

Clean(st, s, g) ==
    s.state = "WAITING_MESSAGE_START" /\ ~Bad(st, Consumed(s, g)) =>
        s.offset = 0 /\ Outside(st, Consumed(s, g))

\* Between the piece the buffer was last rewound behind and read_ptr ...
Stretch(st, s, g) ==
    LET c == Consumed(s, g)
        r == c - s.offset
    IN  /\ \A m \in Messages \ Malformed, p \in 1..Len(st) :
              Begins(st, m, p) /\ r < p /\ p <= c =>
                  s.state = "BODY_AQUISITION" /\ m = s.msg
        /\ s.state = "BODY_AQUISITION" /\ s.body # <<>> => s.offset = 0
        /\ \/ Outside(st, r)
           \/ Bad(st, r)
           \/ s.state = "BODY_AQUISITION" /\ s.offset = 0

-----------------------------------------------------------------------------
(***************************************************************************)
(* Where the pieces of a message are.                                      *)
(***************************************************************************)
LEMMA LengthFacts ==
    ASSUME NEW m \in Messages
    PROVE  /\ Length(m) \in Nat /\ Length(m) >= 3 /\ BodyLength \in Nat \ {0}
           /\ m \in WithBody => Length(m) = 3 + BodyLength
           /\ m \notin WithBody => Length(m) = 3
           /\ Length(m) <= 3 + BodyLength
BY ChannelInputAssumption DEF Length

LEMMA BodyFacts ==
    ASSUME NEW m \in Messages
    PROVE  /\ BodyOf(m) \in Seq(Pieces)
           /\ m \in WithBody => /\ Len(BodyOf(m)) = BodyLength
                                /\ \A i \in 1..BodyLength : BodyOf(m)[i] = <<m, "body">>
           /\ m \notin WithBody => BodyOf(m) = <<>>
<1>1. CASE m \in WithBody
  <2>1. /\ BodyLength \in Nat /\ <<m, "body">> \in Pieces
        /\ BodyOf(m) = [i \in 1..BodyLength |-> <<m, "body">>]
    BY <1>1, ChannelInputAssumption DEF BodyOf, Pieces
  <2> QED BY <1>1, <2>1
<1>2. CASE m \notin WithBody
  BY <1>2 DEF BodyOf
<1> QED BY <1>1, <1>2

LEMMA PiecesFacts ==
    ASSUME NEW m \in Messages
    PROVE  /\ PiecesOf(m) \in Seq(Pieces) /\ Len(PiecesOf(m)) = Length(m)
           /\ PiecesOf(m)[1] = <<m, "start">>
           /\ PiecesOf(m)[2] = <<m, "line">>
           /\ PiecesOf(m)[3] = <<m, "headers">>
           /\ m \in WithBody => \A i \in 1..BodyLength : PiecesOf(m)[3 + i] = <<m, "body">>
<1> DEFINE h == << <<m, "start">>, <<m, "line">>, <<m, "headers">> >>
           b == BodyOf(m)
           w == h \o b
<1>1. h \in Seq(Pieces)
  BY DEF Pieces
<1>2. Len(h) = 3 /\ h[1] = <<m, "start">> /\ h[2] = <<m, "line">> /\ h[3] = <<m, "headers">>
  OBVIOUS
<1>3. PiecesOf(m) = w
  BY DEF PiecesOf
<1>4. b \in Seq(Pieces)
  BY BodyFacts
<1>5. Len(b) = Length(m) - 3 /\ Len(b) \in Nat /\ Length(m) \in Nat
  <2>1. Len(<<>>) = 0
    OBVIOUS
  <2> QED BY <2>1, BodyFacts, LengthFacts
<1>6. m \in WithBody => Len(b) = BodyLength /\ \A i \in 1..BodyLength : b[i] = <<m, "body">>
  BY BodyFacts
<1> HIDE DEF h, b
<1>7. /\ w \in Seq(Pieces) /\ Len(w) = Len(h) + Len(b)
      /\ \A i \in 1..Len(h) : w[i] = h[i]
      /\ \A i \in 1..Len(b) : w[Len(h) + i] = b[i]
  BY <1>1, <1>4
<1> HIDE DEF w
<1>8. Len(w) = Length(m) /\ w[1] = h[1] /\ w[2] = h[2] /\ w[3] = h[3]
  BY <1>2, <1>5, <1>7
<1>9. \A i \in 1..Len(b) : w[3 + i] = b[i]
  BY <1>2, <1>7
<1> QED BY <1>2, <1>3, <1>6, <1>7, <1>8, <1>9

LEMMA PieceFacts ==
    ASSUME NEW st, WellSent(st), NEW i \in 1..Len(st)
    PROVE  /\ st[i] = KeepAlive \/ \E m \in Messages :
                 st[i] \in {<<m, "start">>, <<m, "line">>, <<m, "headers">>, <<m, "body">>}
           /\ i \in Nat /\ Len(st) \in Nat
<1>1. st[i] \in Pieces /\ Len(st) \in Nat
  BY DEF WellSent
<1> QED BY <1>1 DEF Pieces

\* A piece is within its message.
LEMMA Belongs ==
    ASSUME NEW st, WellSent(st), NEW i \in 1..Len(st), st[i] # KeepAlive
    PROVE  \E m \in Messages, p \in 1..Len(st) :
              /\ Begins(st, m, p) /\ st[i][1] = m
              /\ p <= i /\ i <= p + Length(m) - 1
              /\ st[i][2] # "start" => p < i
<1>1. PICK m \in Messages :
         st[i] \in {<<m, "start">>, <<m, "line">>, <<m, "headers">>, <<m, "body">>}
  BY PieceFacts
<1>2. i \in Nat /\ Len(st) \in Nat /\ Length(m) \in Nat /\ Length(m) >= 3
  BY PieceFacts, LengthFacts
<1>3. CASE st[i] = <<m, "start">>
  <2>1. Begins(st, m, i)
    BY <1>3 DEF Begins
  <2> QED BY <1>2, <1>3, <2>1
<1>4. CASE st[i] = <<m, "line">>
  <2>1. Begins(st, m, i - 1)
    BY <1>4 DEF WellSent, Placed
  <2>2. i - 1 \in 1..Len(st)
    BY <2>1 DEF Begins
  <2> QED BY <1>2, <1>4, <2>1, <2>2
<1>5. CASE st[i] = <<m, "headers">>
  <2>1. Begins(st, m, i - 2)
    BY <1>5 DEF WellSent, Placed
  <2>2. i - 2 \in 1..Len(st)
    BY <2>1 DEF Begins
  <2> QED BY <1>2, <1>5, <2>1, <2>2
<1>6. CASE st[i] = <<m, "body">>
  <2>1. PICK p \in 1..Len(st) : Begins(st, m, p) /\ i \in p + 3..p + 2 + BodyLength
    BY <1>6 DEF WellSent, Placed
  <2>2. m \in WithBody
    BY <1>6 DEF WellSent, Placed
  <2>3. Length(m) = 3 + BodyLength /\ BodyLength \in Nat
    BY <2>2, LengthFacts
  <2> QED BY <1>2, <1>6, <2>1, <2>3
<1> QED BY <1>1, <1>3, <1>4, <1>5, <1>6

\* What is within a message is a piece of it.
LEMMA Inside ==
    ASSUME NEW st, WellSent(st), NEW m \in Messages, NEW p, Begins(st, m, p),
           NEW i \in p..p + Length(m) - 1
    PROVE  /\ i \in 1..Len(st) /\ p \in 1..Len(st) /\ p + Length(m) - 1 <= Len(st)
           /\ st[i][1] = m
           /\ i # p => st[i][2] # "start"
           /\ i = p + 1 => st[i] = <<m, "line">>
           /\ i = p + 2 => st[i] = <<m, "headers">>
           /\ i > p + 2 => st[i] = <<m, "body">> /\ m \in WithBody
<1>1. p \in 1..Len(st) /\ Len(st) \in Nat /\ st[p] = <<m, "start">>
  BY PieceFacts DEF Begins
<1>2. /\ p + Length(m) - 1 <= Len(st)
      /\ st[p + 1] = <<m, "line">> /\ st[p + 2] = <<m, "headers">>
      /\ m \in WithBody => \A k \in 1..BodyLength : st[p + 2 + k] = <<m, "body">>
  BY <1>1 DEF WellSent, Whole
<1>3. /\ Length(m) \in Nat /\ BodyLength \in Nat
      /\ m \in WithBody => Length(m) = 3 + BodyLength
      /\ m \notin WithBody => Length(m) = 3
  BY LengthFacts
<1>4. i \in 1..Len(st)
  BY <1>1, <1>2, <1>3
<1>5. CASE i <= p + 2
  <2>1. i = p \/ i = p + 1 \/ i = p + 2
    BY <1>1, <1>5, <1>3
  <2> QED BY <1>1, <1>2, <1>3, <1>4, <1>5, <2>1, SMTT(30)
<1>6. CASE i > p + 2
  <2>1. m \in WithBody
    BY <1>1, <1>3, <1>6
  <2>2. i - (p + 2) \in 1..BodyLength /\ p + 2 + (i - (p + 2)) = i
    BY <1>1, <1>3, <1>6, <2>1
  <2>3. st[i] = <<m, "body">>
    BY <1>2, <2>1, <2>2
  <2> QED BY <1>1, <1>2, <1>3, <1>4, <1>6, <2>1, <2>3
<1> QED BY <1>1, <1>5, <1>6

LEMMA Apart ==
    ASSUME NEW st, WellSent(st), NEW m \in Messages, NEW p, Begins(st, m, p),
           NEW k \in Messages, NEW q, Begins(st, k, q), p < q
    PROVE  p + Length(m) - 1 < q
<1>1. p \in 1..Len(st) /\ q \in 1..Len(st) /\ Len(st) \in Nat /\ st[q] = <<k, "start">>
  BY PieceFacts DEF Begins
<1>2. Length(m) \in Nat
  BY LengthFacts
<1>3. SUFFICES ASSUME q <= p + Length(m) - 1
               PROVE  FALSE
  BY <1>1, <1>2
<1>4. q \in p..p + Length(m) - 1
  BY <1>1, <1>2, <1>3
<1>5. st[q][2] # "start"
  BY <1>1, <1>4, Inside
<1> QED BY <1>1, <1>5

LEMMA BeginsOnce ==
    ASSUME NEW st, WellSent(st), NEW m \in Messages, NEW p, Begins(st, m, p),
           NEW k \in Messages, NEW q, Begins(st, k, q)
    PROVE  p = q <=> m = k
<1>1. p \in 1..Len(st) /\ q \in 1..Len(st) /\ st[p] = <<m, "start">> /\ st[q] = <<k, "start">>
  BY DEF Begins
<1>2. m = k => p = q
  BY <1>1 DEF WellSent, Once
<1> QED BY <1>1, <1>2

-----------------------------------------------------------------------------
(***************************************************************************)
(* The peer sends whole messages, and what was said of the stream is still *)
(* so when it is longer.                                                   *)
(***************************************************************************)
Longer(st, u) == Len(st) <= Len(u) /\ \A i \in 1..Len(st) : u[i] = st[i]

LEMMA PieceOfMessage ==
    ASSUME NEW m \in Messages, NEW j \in 1..Length(m)
    PROVE  \/ j = 1 /\ PiecesOf(m)[j] = <<m, "start">>
           \/ j = 2 /\ PiecesOf(m)[j] = <<m, "line">>
           \/ j = 3 /\ PiecesOf(m)[j] = <<m, "headers">>
           \/ j > 3 /\ PiecesOf(m)[j] = <<m, "body">> /\ m \in WithBody
<1>1. /\ Length(m) \in Nat /\ BodyLength \in Nat
      /\ m \in WithBody => Length(m) = 3 + BodyLength
      /\ m \notin WithBody => Length(m) = 3
  BY LengthFacts
<1>2. CASE j <= 3
  <2>1. j = 1 \/ j = 2 \/ j = 3
    BY <1>1, <1>2
  <2>2. /\ PiecesOf(m)[1] = <<m, "start">> /\ PiecesOf(m)[2] = <<m, "line">>
        /\ PiecesOf(m)[3] = <<m, "headers">>
    BY PiecesFacts
  <2> QED BY <2>1, <2>2
<1>3. CASE j > 3
  <2>1. m \in WithBody /\ j - 3 \in 1..BodyLength /\ 3 + (j - 3) = j
    BY <1>1, <1>3
  <2>2. PiecesOf(m)[3 + (j - 3)] = <<m, "body">>
    BY <2>1, PiecesFacts
  <2> QED BY <1>3, <2>1, <2>2
<1> QED BY <1>1, <1>2, <1>3

LEMMA MessageSent ==
    ASSUME NEW st, WellSent(st), NEW m \in Messages,
           \A i \in 1..Len(st) : st[i][1] # m
    PROVE  WellSent(st \o PiecesOf(m)) /\ Longer(st, st \o PiecesOf(m))
<1> DEFINE b == PiecesOf(m)
           u == st \o b
           L == Len(st)
<1>1. st \in Seq(Pieces)
  BY DEF WellSent
<1>2. b \in Seq(Pieces)
  BY PiecesFacts
<1>3. Len(b) = Length(m) /\ Length(m) \in Nat /\ Length(m) >= 3 /\ L \in Nat
  BY <1>1, PiecesFacts, LengthFacts
<1>4. \A j \in 1..Length(m) :
         \/ j = 1 /\ b[j] = <<m, "start">>
         \/ j = 2 /\ b[j] = <<m, "line">>
         \/ j = 3 /\ b[j] = <<m, "headers">>
         \/ j > 3 /\ b[j] = <<m, "body">> /\ m \in WithBody
  BY PieceOfMessage
<1> HIDE DEF b
<1>5. /\ u \in Seq(Pieces) /\ Len(u) = L + Len(b)
      /\ \A i \in 1..L : u[i] = st[i]
      /\ \A i \in 1..Len(b) : u[L + i] = b[i]
  BY <1>1, <1>2
<1> HIDE DEF u, L
<1>6. Len(u) = L + Length(m) /\ \A i \in 1..Length(m) : u[L + i] = b[i]
  BY <1>3, <1>5
<1>7. \A i \in 1..Len(u) : i \in 1..L \/ (i - L \in 1..Length(m) /\ L + (i - L) = i)
  BY <1>3, <1>6
<1>8. \A i \in 1..Len(u) : i \notin 1..L =>
         \/ i = L + 1 /\ u[i] = <<m, "start">>
         \/ i = L + 2 /\ u[i] = <<m, "line">>
         \/ i = L + 3 /\ u[i] = <<m, "headers">>
         \/ i > L + 3 /\ u[i] = <<m, "body">> /\ m \in WithBody
  <2> SUFFICES ASSUME NEW i \in 1..Len(u), i \notin 1..L
               PROVE  \/ i = L + 1 /\ u[i] = <<m, "start">>
                      \/ i = L + 2 /\ u[i] = <<m, "line">>
                      \/ i = L + 3 /\ u[i] = <<m, "headers">>
                      \/ i > L + 3 /\ u[i] = <<m, "body">> /\ m \in WithBody
    OBVIOUS
  <2> DEFINE j == i - L
  <2>1. j \in 1..Length(m) /\ L + j = i /\ i \in Nat
    BY <1>3, <1>6, <1>7
  <2>2. u[i] = b[j]
    BY <1>6, <2>1
  <2>3. \/ j = 1 /\ b[j] = <<m, "start">>
        \/ j = 2 /\ b[j] = <<m, "line">>
        \/ j = 3 /\ b[j] = <<m, "headers">>
        \/ j > 3 /\ b[j] = <<m, "body">> /\ m \in WithBody
    BY <1>4, <2>1
  <2> HIDE DEF j
  <2> QED BY <1>3, <2>1, <2>2, <2>3
<1>9. /\ u[L + 1] = <<m, "start">> /\ u[L + 2] = <<m, "line">>
      /\ u[L + 3] = <<m, "headers">>
      /\ L + 1 \in 1..Len(u) /\ L + 2 \in 1..Len(u) /\ L + 3 \in 1..Len(u)
      /\ L + 1 \notin 1..L /\ L + 2 \notin 1..L /\ L + 3 \notin 1..L
  <2>1. /\ L + 1 \in 1..Len(u) /\ L + 2 \in 1..Len(u) /\ L + 3 \in 1..Len(u)
        /\ L + 1 \notin 1..L /\ L + 2 \notin 1..L /\ L + 3 \notin 1..L
    BY <1>3, <1>6
  <2> QED BY <1>3, <1>8, <2>1
<1>10. \A k \in Messages : \A p : Begins(st, k, p) => k # m /\ p \in 1..L /\ p \in 1..Len(u)
  BY <1>3, <1>6 DEF Begins, L
<1>11. \A k \in Messages : \A p : Begins(u, k, p) <=> Begins(st, k, p) \/ (k = m /\ p = L + 1)
  <2>1. ASSUME NEW k \in Messages, NEW p, Begins(u, k, p)
        PROVE  Begins(st, k, p) \/ (k = m /\ p = L + 1)
    BY <1>5, <1>8, <2>1 DEF Begins, L
  <2>2. ASSUME NEW k \in Messages, NEW p, Begins(st, k, p)
        PROVE  Begins(u, k, p)
    BY <1>5, <1>10, <2>2 DEF Begins
  <2>3. Begins(u, m, L + 1)
    BY <1>9 DEF Begins
  <2> QED BY <2>1, <2>2, <2>3
<1>12. Whole(u)
  <2> SUFFICES ASSUME NEW k \in Messages, NEW p \in 1..Len(u), Begins(u, k, p)
               PROVE  /\ p + Length(k) - 1 <= Len(u)
                      /\ u[p + 1] = <<k, "line">> /\ u[p + 2] = <<k, "headers">>
                      /\ k \in WithBody => \A i \in 1..BodyLength : u[p + 2 + i] = <<k, "body">>
    BY DEF Whole
  <2>1. CASE Begins(st, k, p)
    <3>1. /\ Length(k) \in Nat /\ BodyLength \in Nat /\ Length(k) >= 3
          /\ k \in WithBody => Length(k) = 3 + BodyLength
      BY LengthFacts
    <3>2. /\ p + Length(k) - 1 <= L /\ p \in 1..L
          /\ st[p + 1] = <<k, "line">> /\ st[p + 2] = <<k, "headers">>
          /\ k \in WithBody => \A i \in 1..BodyLength : st[p + 2 + i] = <<k, "body">>
      BY <1>10, <2>1 DEF WellSent, Whole, L
    <3>3. p + 1 \in 1..L /\ p + 2 \in 1..L
      BY <1>3, <3>1, <3>2
    <3>4. k \in WithBody => \A i \in 1..BodyLength : p + 2 + i \in 1..L
      BY <1>3, <3>1, <3>2
    <3>5. p + Length(k) - 1 <= Len(u)
      BY <1>3, <1>6, <3>1, <3>2
    <3> QED BY <1>5, <3>2, <3>3, <3>4, <3>5
  <2>2. CASE k = m /\ p = L + 1
    <3>1. BodyLength \in Nat /\ (m \in WithBody => Length(m) = 3 + BodyLength)
      BY LengthFacts
    <3>2. ASSUME m \in WithBody, NEW i \in 1..BodyLength
          PROVE  u[p + 2 + i] = <<k, "body">>
      <4>1. /\ p + 2 + i \in 1..Len(u) /\ p + 2 + i \notin 1..L /\ p + 2 + i > L + 3
        BY <1>3, <1>6, <2>2, <3>1, <3>2
      <4> QED BY <1>3, <1>8, <2>2, <4>1
    <3>3. p + Length(k) - 1 <= Len(u) /\ p + 1 = L + 2 /\ p + 2 = L + 3
      BY <1>3, <1>6, <2>2
    <3> QED BY <1>9, <2>2, <3>2, <3>3
  <2> QED BY <1>11, <2>1, <2>2
<1>13. Placed(u)
  <2> SUFFICES ASSUME NEW k \in Messages, NEW i \in 1..Len(u)
               PROVE  /\ u[i] = <<k, "line">> => Begins(u, k, i - 1)
                      /\ u[i] = <<k, "headers">> => Begins(u, k, i - 2)
                      /\ u[i] = <<k, "body">> =>
                           /\ k \in WithBody
                           /\ \E p \in 1..Len(u) :
                                 Begins(u, k, p) /\ i \in p + 3..p + 2 + BodyLength
    BY DEF Placed
  <2>1. CASE i \in 1..L
    <3>1. u[i] = st[i]
      BY <1>5, <2>1
    <3>2. /\ st[i] = <<k, "line">> => Begins(st, k, i - 1)
          /\ st[i] = <<k, "headers">> => Begins(st, k, i - 2)
          /\ st[i] = <<k, "body">> =>
                /\ k \in WithBody
                /\ \E p \in 1..L : Begins(st, k, p) /\ i \in p + 3..p + 2 + BodyLength
      BY <2>1 DEF WellSent, Placed, L
    <3> QED BY <1>10, <1>11, <3>1, <3>2
  <2>2. CASE i \notin 1..L
    <3>1. BodyLength \in Nat /\ (m \in WithBody => Length(m) = 3 + BodyLength) /\ i \in Nat
      BY <1>3, <1>6, LengthFacts
    <3>2. \/ i = L + 1 /\ u[i] = <<m, "start">>
          \/ i = L + 2 /\ u[i] = <<m, "line">>
          \/ i = L + 3 /\ u[i] = <<m, "headers">>
          \/ i > L + 3 /\ u[i] = <<m, "body">> /\ m \in WithBody
      BY <1>8, <2>2
    <3>3. (i = L + 2 => i - 1 = L + 1) /\ (i = L + 3 => i - 2 = L + 1)
      BY <1>3
    <3>4. i > L + 3 /\ m \in WithBody => i \in (L + 1) + 3..(L + 1) + 2 + BodyLength
      BY <1>3, <1>6, <3>1
    <3>5. u[i] = <<k, "line">> => i = L + 2 /\ k = m
      BY <3>2
    <3>6. u[i] = <<k, "headers">> => i = L + 3 /\ k = m
      BY <3>2
    <3>7. u[i] = <<k, "body">> => i > L + 3 /\ k = m /\ m \in WithBody
      BY <3>2
    <3>8. Begins(u, m, L + 1)
      BY <1>11
    <3> QED BY <1>9, <3>3, <3>4, <3>5, <3>6, <3>7, <3>8
  <2> QED BY <2>1, <2>2
<1>14. Once(u)
  BY <1>10, <1>11 DEF WellSent, Once, L
<1>15. Longer(st, u)
  BY <1>3, <1>5, <1>6 DEF Longer, L
<1> QED BY <1>5, <1>12, <1>13, <1>14, <1>15 DEF WellSent, u, b

LEMMA KeepAliveSent ==
    ASSUME NEW st, WellSent(st)
    PROVE  WellSent(Append(st, KeepAlive)) /\ Longer(st, Append(st, KeepAlive))
<1> DEFINE u == Append(st, KeepAlive)
           L == Len(st)
<1>1. st \in Seq(Pieces) /\ KeepAlive \in Pieces /\ L \in Nat
  BY DEF WellSent, Pieces
<1>2. /\ u \in Seq(Pieces) /\ Len(u) = L + 1
      /\ \A i \in 1..L : u[i] = st[i]
      /\ u[L + 1] = KeepAlive
  BY <1>1
<1>3. \A m \in Messages : KeepAlive \notin {<<m, "start">>, <<m, "line">>,
                                            <<m, "headers">>, <<m, "body">>}
  BY DEF KeepAlive
<1> HIDE DEF u, L
<1>4. \A i \in 1..Len(u) : i \in 1..L \/ u[i] = KeepAlive
  BY <1>1, <1>2
<1>5. 1..L \subseteq 1..Len(u)
  BY <1>1, <1>2
<1>6. \A k \in Messages : \A p : Begins(u, k, p) <=> Begins(st, k, p)
  BY <1>2, <1>3, <1>4, <1>5 DEF Begins, L
<1>7. Whole(u)
  <2> SUFFICES ASSUME NEW k \in Messages, NEW p \in 1..Len(u), Begins(u, k, p)
               PROVE  /\ p + Length(k) - 1 <= Len(u)
                      /\ u[p + 1] = <<k, "line">> /\ u[p + 2] = <<k, "headers">>
                      /\ k \in WithBody => \A i \in 1..BodyLength : u[p + 2 + i] = <<k, "body">>
    BY DEF Whole
  <2>1. Begins(st, k, p)
    BY <1>6
  <2>2. /\ Length(k) \in Nat /\ BodyLength \in Nat /\ Length(k) >= 3
        /\ k \in WithBody => Length(k) = 3 + BodyLength
    BY LengthFacts
  <2>3. /\ p + Length(k) - 1 <= L /\ p \in 1..L
        /\ st[p + 1] = <<k, "line">> /\ st[p + 2] = <<k, "headers">>
        /\ k \in WithBody => \A i \in 1..BodyLength : st[p + 2 + i] = <<k, "body">>
    BY <2>1 DEF WellSent, Whole, Begins, L
  <2>4. p + 1 \in 1..L /\ p + 2 \in 1..L
    BY <1>1, <2>2, <2>3
  <2>5. k \in WithBody => \A i \in 1..BodyLength : p + 2 + i \in 1..L
    BY <1>1, <2>2, <2>3
  <2>6. p + Length(k) - 1 <= Len(u)
    BY <1>1, <1>2, <2>2, <2>3
  <2> QED BY <1>2, <2>3, <2>4, <2>5, <2>6
<1>8. Placed(u)
  <2> SUFFICES ASSUME NEW k \in Messages, NEW i \in 1..Len(u), u[i] # KeepAlive
               PROVE  /\ u[i] = <<k, "line">> => Begins(u, k, i - 1)
                      /\ u[i] = <<k, "headers">> => Begins(u, k, i - 2)
                      /\ u[i] = <<k, "body">> =>
                           /\ k \in WithBody
                           /\ \E p \in 1..Len(u) :
                                 Begins(u, k, p) /\ i \in p + 3..p + 2 + BodyLength
    BY <1>3 DEF Placed
  <2>1. i \in 1..L /\ u[i] = st[i]
    BY <1>2, <1>4
  <2>2. /\ st[i] = <<k, "line">> => Begins(st, k, i - 1)
        /\ st[i] = <<k, "headers">> => Begins(st, k, i - 2)
        /\ st[i] = <<k, "body">> =>
              /\ k \in WithBody
              /\ \E p \in 1..L : Begins(st, k, p) /\ i \in p + 3..p + 2 + BodyLength
    BY <2>1 DEF WellSent, Placed, L
  <2> QED BY <1>5, <1>6, <2>1, <2>2
<1>9. Once(u)
  <2>1. \A k \in Messages : \A p : Begins(st, k, p) => p \in 1..L
    BY DEF Begins, L
  <2> QED BY <1>6, <2>1 DEF WellSent, Once, L
<1>10. Longer(st, u)
  BY <1>1, <1>2 DEF Longer, L
<1> QED BY <1>2, <1>7, <1>8, <1>9, <1>10 DEF WellSent, u

LEMMA LongerBegins ==
    ASSUME NEW st, WellSent(st), NEW u, WellSent(u), Longer(st, u)
    PROVE  /\ Len(st) \in Nat /\ Len(u) \in Nat /\ 1..Len(st) \subseteq 1..Len(u)
           /\ \A m \in Messages : \A p : Begins(st, m, p) => Begins(u, m, p)
           /\ \A m \in Messages : \A p :
                 Begins(u, m, p) /\ p <= Len(st) => Begins(st, m, p) /\ p \in 1..Len(st)
           /\ \A n \in 0..Len(st) : Bad(st, n) <=> Bad(u, n)
           /\ \A n \in 0..Len(st) : Outside(st, n) <=> Outside(u, n)
<1>1. Len(st) \in Nat /\ Len(u) \in Nat /\ Len(st) <= Len(u)
  BY DEF WellSent, Longer
<1>2. \A i \in 1..Len(st) : u[i] = st[i] /\ i \in 1..Len(u)
  BY <1>1 DEF Longer
<1>3. \A m \in Messages : \A p : Begins(st, m, p) => Begins(u, m, p)
  BY <1>2 DEF Begins
<1>4. \A m \in Messages : \A p :
         Begins(u, m, p) /\ p <= Len(st) => Begins(st, m, p) /\ p \in 1..Len(st)
  BY <1>1, <1>2 DEF Begins
<1>5. \A n \in 0..Len(st) : Bad(st, n) <=> Bad(u, n)
  BY <1>1, <1>2 DEF Bad
<1>6. ASSUME NEW n \in 0..Len(st)
      PROVE  Outside(st, n) <=> Outside(u, n)
  <2>1. ASSUME NEW m \in Messages, NEW p
        PROVE  Begins(u, m, p) /\ p <= n <=> Begins(st, m, p) /\ p <= n
    <3>1. Begins(u, m, p) => p \in Nat
      BY <1>1 DEF Begins
    <3> QED BY <1>1, <1>3, <1>4, <3>1
  <2>2. \A m, p : Begins(u, m, p) => p \in 1..Len(u)
    BY DEF Begins
  <2>3. \A m, p : Begins(st, m, p) => p \in 1..Len(st)
    BY DEF Begins
  <2> QED BY <2>1, <2>2, <2>3 DEF Outside
<1> QED BY <1>1, <1>2, <1>3, <1>4, <1>5, <1>6

LEMMA LongerKeeps ==
    ASSUME NEW st, WellSent(st), NEW u, WellSent(u), Longer(st, u),
           NEW s \in InputStream, NEW g, NEW D, NEW W, Aligned(st, s, g)
    PROVE  /\ Aligned(u, s, g)
           /\ Given(st, s, g, D) => Given(u, s, g, D)
           /\ Kept(st, s, g, D, W) => Kept(u, s, g, D, W)
           /\ LinesRead(st, g, W) => LinesRead(u, g, W)
           /\ Clean(st, s, g) => Clean(u, s, g)
           /\ Stretch(st, s, g) => Stretch(u, s, g)
<1> DEFINE c == Consumed(s, g)
<1>1. /\ Len(st) \in Nat /\ Len(u) \in Nat /\ 1..Len(st) \subseteq 1..Len(u)
      /\ \A m \in Messages : \A p : Begins(st, m, p) => Begins(u, m, p)
      /\ \A m \in Messages : \A p :
            Begins(u, m, p) /\ p <= Len(st) => Begins(st, m, p) /\ p \in 1..Len(st)
      /\ \A n \in 0..Len(st) : Bad(st, n) <=> Bad(u, n)
      /\ \A n \in 0..Len(st) : Outside(st, n) <=> Outside(u, n)
  BY LongerBegins
<1>2. /\ g \in Nat /\ g <= Len(st) /\ Len(s.bytes) \in Nat /\ Len(s.bytes) <= g
      /\ s.offset \in Nat /\ s.offset <= c
      /\ Len(s.body) \in Nat
  BY StreamFields DEF Aligned
<1>3. /\ c \in Nat /\ c <= g /\ c = g - Len(s.bytes)
      /\ Settled(s, g) \in Int /\ Settled(s, g) <= c
  <2>1. c \in Nat /\ c <= g /\ c = g - Len(s.bytes)
    BY <1>2 DEF Consumed
  <2> HIDE DEF c
  <2>2. CASE s.state = "BODY_AQUISITION"
    BY <1>2, <2>1, <2>2 DEF Settled, c
  <2>3. CASE s.state # "BODY_AQUISITION"
    BY <1>2, <2>1, <2>3 DEF Settled, c
  <2> QED BY <2>1, <2>2, <2>3
<1>4. \A i \in 1..Len(st) : u[i] = st[i]
  BY DEF Longer
<1>5. Aligned(u, s, g)
  <2>1. \A i \in 1..Len(s.bytes) : c + i \in 1..Len(st)
    BY <1>2, <1>3
  <2>2. \A i \in 1..Len(s.bytes) : s.bytes[i] = u[c + i]
    BY <1>4, <2>1 DEF Aligned
  <2>3. g <= Len(u)
    BY <1>1, <1>2 DEF Longer
  <2>4. s.state = "BODY_AQUISITION" => s.msg \in Messages
    BY ChannelInputAssumption DEF Aligned
  <2> HIDE DEF c
  <2> QED BY <1>1, <2>2, <2>3, <2>4 DEF Aligned, c
<1>6. ASSUME Given(st, s, g, D)
      PROVE  Given(u, s, g, D)
  <2>1. \A i \in 1..Len(D) : D[i][1] \in Messages
    BY <1>6 DEF Given
  <2>2. \A i \in 1..Len(D) : \E p \in 1..Len(u) :
           Begins(st, D[i][1], p) /\ Begins(u, D[i][1], p)
           /\ p + Length(D[i][1]) - 1 <= Settled(s, g)
    BY <1>1, <1>6, <2>1 DEF Given
  <2>3. \A i \in 1..Len(D) : \A p :
           Begins(u, D[i][1], p) => Begins(st, D[i][1], p) /\ p \in 1..Len(st)
    <3> SUFFICES ASSUME NEW i \in 1..Len(D), NEW p, Begins(u, D[i][1], p)
                 PROVE  Begins(st, D[i][1], p) /\ p \in 1..Len(st)
      OBVIOUS
    <3>1. PICK q \in 1..Len(u) : Begins(st, D[i][1], q) /\ Begins(u, D[i][1], q)
      BY <2>2
    <3>2. p = q
      BY <2>1, <3>1, BeginsOnce
    <3> QED BY <3>1, <3>2 DEF Begins
  <2>4. \A i, j \in 1..Len(D) : \A p, q \in 1..Len(u) :
           i < j /\ Begins(u, D[i][1], p) /\ Begins(u, D[j][1], q) => p < q
    BY <1>6, <2>3 DEF Given
  <2> QED BY <1>6, <2>2, <2>4 DEF Given
<1>7. ASSUME NEW m \in Messages, NEW p \in 1..Len(u), Begins(u, m, p), NEW n \in Int,
             p <= n, n <= Len(st)
      PROVE  Begins(st, m, p) /\ p \in 1..Len(st) /\ p \in 0..Len(st)
  <2>1. p <= Len(st) /\ p \in Nat
    BY <1>1, <1>7
  <2> QED BY <1>1, <1>7, <2>1
<1>8. Settled(s, g) <= Len(st) /\ c <= Len(st)
  BY <1>1, <1>2, <1>3
<1> HIDE DEF c
<1>9. ASSUME Kept(st, s, g, D, W)
      PROVE  Kept(u, s, g, D, W)
  <2> SUFFICES ASSUME NEW m \in Messages \ Malformed, NEW p \in 1..Len(u),
                      Begins(u, m, p), p <= Settled(s, g)
               PROVE  \/ \E i \in 1..Len(D) : D[i][1] = m
                      \/ m \notin W /\ Bad(u, p)
    BY DEF Kept
  <2>1. Begins(st, m, p) /\ p \in 1..Len(st) /\ p \in 0..Len(st)
    BY <1>3, <1>7, <1>8
  <2> QED BY <1>1, <1>9, <2>1 DEF Kept
<1>10. ASSUME LinesRead(st, g, W)
       PROVE  LinesRead(u, g, W)
  BY <1>1, <1>10 DEF LinesRead
<1>11. ASSUME Clean(st, s, g)
       PROVE  Clean(u, s, g)
  <2>1. c \in 0..Len(st)
    BY <1>1, <1>3, <1>8
  <2> QED BY <1>1, <1>11, <2>1 DEF Clean, c
<1>12. ASSUME Stretch(st, s, g)
       PROVE  Stretch(u, s, g)
  <2>1. c \in 0..Len(st) /\ c - s.offset \in 0..Len(st)
    BY <1>1, <1>2, <1>3, <1>8
  <2>2. \A m \in Messages \ Malformed, p \in 1..Len(u) :
           Begins(u, m, p) /\ c - s.offset < p /\ p <= c =>
               s.state = "BODY_AQUISITION" /\ m = s.msg
    <3> SUFFICES ASSUME NEW m \in Messages \ Malformed, NEW p \in 1..Len(u),
                        Begins(u, m, p), c - s.offset < p, p <= c
                 PROVE  s.state = "BODY_AQUISITION" /\ m = s.msg
      OBVIOUS
    <3>1. Begins(st, m, p) /\ p \in 1..Len(st)
      BY <1>3, <1>7, <1>8
    <3> QED BY <1>12, <3>1 DEF Stretch, c
  <2> QED BY <1>1, <1>12, <2>1, <2>2 DEF Stretch, c
<1> QED BY <1>5, <1>6, <1>9, <1>10, <1>11, <1>12

-----------------------------------------------------------------------------
(***************************************************************************)
(* Where each turn moves read_ptr in what was sent.                        *)
(***************************************************************************)
LEMMA AlignedFacts ==
    ASSUME NEW st, WellSent(st), NEW s \in InputStream, NEW g, Aligned(st, s, g)
    PROVE  /\ Consumed(s, g) \in Nat /\ g \in Nat /\ Len(st) \in Nat /\ g <= Len(st)
           /\ Len(s.bytes) \in Nat /\ g = Consumed(s, g) + Len(s.bytes)
           /\ s.offset \in Nat /\ s.offset <= Consumed(s, g)
           /\ Settled(s, g) \in Int /\ Settled(s, g) <= Consumed(s, g)
           /\ s.state # "BODY_AQUISITION" => Settled(s, g) = Consumed(s, g)
           /\ s.state = "BODY_AQUISITION" =>
                 Settled(s, g) = Consumed(s, g) - 3 - Len(s.body)
           /\ \A i \in 1..Len(s.bytes) : /\ Consumed(s, g) + i \in 1..Len(st)
                                         /\ s.bytes[i] = st[Consumed(s, g) + i]
<1> DEFINE c == Consumed(s, g)
<1>1. /\ g \in Nat /\ g <= Len(st) /\ Len(st) \in Nat
      /\ Len(s.bytes) \in Nat /\ Len(s.bytes) <= g /\ Len(s.body) \in Nat
      /\ s.offset \in Nat /\ s.offset <= c
      /\ \A i \in 1..Len(s.bytes) : s.bytes[i] = st[c + i]
  BY StreamFields DEF Aligned, WellSent
<1>2. c \in Nat /\ g = c + Len(s.bytes)
  BY <1>1 DEF Consumed
<1>3. /\ s.state # "BODY_AQUISITION" => Settled(s, g) = c
      /\ s.state = "BODY_AQUISITION" => Settled(s, g) = c - 3 - Len(s.body)
  BY DEF Settled
<1> HIDE DEF c
<1>4. Settled(s, g) \in Int /\ Settled(s, g) <= c
  <2>1. CASE s.state = "BODY_AQUISITION"
    <3>1. Len(s.body) \in Nat /\ c \in Nat
      BY <1>1, <1>2
    <3>2. Settled(s, g) = c - 3 - Len(s.body)
      BY <1>3, <2>1
    <3> QED BY ONLY <3>1, <3>2
  <2>2. CASE s.state # "BODY_AQUISITION"
    BY <1>1, <1>2, <1>3, <2>2
  <2> QED BY <2>1, <2>2
<1>5. \A i \in 1..Len(s.bytes) : c + i \in 1..Len(st)
  BY <1>1, <1>2
<1> QED BY <1>1, <1>2, <1>3, <1>4, <1>5 DEF c

LEMMA Advance ==
    ASSUME NEW st, WellSent(st), NEW s \in InputStream, NEW g, Aligned(st, s, g),
           NEW n \in 0..Len(s.bytes), NEW t, t.bytes = After(s, n)
    PROVE  /\ Len(t.bytes) \in Nat /\ Len(t.bytes) <= g
           /\ Len(t.bytes) = Len(s.bytes) - n
           /\ Consumed(t, g) = Consumed(s, g) + n /\ Consumed(t, g) \in Nat
           /\ \A i \in 1..Len(t.bytes) : t.bytes[i] = st[Consumed(t, g) + i]
<1>1. /\ Consumed(s, g) \in Nat /\ g \in Nat /\ Len(s.bytes) \in Nat
      /\ g = Consumed(s, g) + Len(s.bytes)
      /\ \A i \in 1..Len(s.bytes) : s.bytes[i] = st[Consumed(s, g) + i]
  BY AlignedFacts
<1>2. /\ Len(t.bytes) = Len(s.bytes) - n
      /\ \A i \in 1..Len(s.bytes) - n : t.bytes[i] = s.bytes[n + i]
  BY AfterFacts
<1>3. Consumed(t, g) = Consumed(s, g) + n /\ Consumed(t, g) \in Nat
  <2>1. Consumed(t, g) = g - Len(t.bytes)
    BY DEF Consumed
  <2>2. n \in Nat /\ n <= Len(s.bytes) /\ Len(s.bytes) \in Nat
    BY <1>1
  <2>3. Consumed(s, g) \in Nat /\ g = Consumed(s, g) + Len(s.bytes)
    BY <1>1
  <2>4. Len(t.bytes) = Len(s.bytes) - n
    BY <1>2
  <2> QED BY ONLY <2>1, <2>2, <2>3, <2>4
<1>4. ASSUME NEW i \in 1..Len(t.bytes)
      PROVE  t.bytes[i] = st[Consumed(t, g) + i]
  <2>1. /\ i \in 1..Len(s.bytes) - n /\ n + i \in 1..Len(s.bytes)
        /\ Consumed(s, g) + (n + i) = Consumed(t, g) + i
    BY <1>1, <1>2, <1>3, <1>4
  <2>2. t.bytes[i] = s.bytes[n + i] /\ s.bytes[n + i] = st[Consumed(s, g) + (n + i)]
    BY <1>1, <1>2, <2>1
  <2> QED BY <2>1, <2>2
<1> QED BY <1>1, <1>2, <1>3, <1>4

LEMMA MovedFields ==
    ASSUME NEW s, NEW n, NEW state, NEW m, NEW t, t = Moved(s, n, state, m)
    PROVE  /\ t.state = state /\ t.msg = m /\ t.body = s.body
           /\ t.bytes = After(s, n) /\ t.offset = s.offset + n
           /\ t.eos = s.eos /\ t.ready = s.ready
BY DEF Moved

LEMMA ClearedFields ==
    ASSUME NEW s, NEW n, NEW ready, NEW t, t = Cleared(s, n, ready)
    PROVE  /\ t.state = "WAITING_MESSAGE_START" /\ t.msg = NoMessage /\ t.body = <<>>
           /\ t.bytes = After(s, n) /\ t.offset = 0
           /\ t.eos = s.eos /\ t.ready = ready
BY DEF Cleared

LEMMA ClearedAligned ==
    ASSUME NEW st, WellSent(st), NEW s \in InputStream, NEW g, Aligned(st, s, g),
           NEW n \in 0..Len(s.bytes), NEW ready, NEW t, t = Cleared(s, n, ready)
    PROVE  /\ Aligned(st, t, g)
           /\ Consumed(t, g) = Consumed(s, g) + n /\ Settled(t, g) = Consumed(t, g)
           /\ t.state = "WAITING_MESSAGE_START" /\ t.offset = 0
           /\ t.eos = s.eos /\ t.ready = ready
<1>1. /\ t.state = "WAITING_MESSAGE_START" /\ t.msg = NoMessage /\ t.body = <<>>
      /\ t.bytes = After(s, n) /\ t.offset = 0
      /\ t.eos = s.eos /\ t.ready = ready
  BY ClearedFields
<1>2. /\ Len(t.bytes) \in Nat /\ Len(t.bytes) <= g
      /\ Consumed(t, g) = Consumed(s, g) + n /\ Consumed(t, g) \in Nat
      /\ \A i \in 1..Len(t.bytes) : t.bytes[i] = st[Consumed(t, g) + i]
  BY <1>1, Advance
<1>3. g \in Nat /\ g <= Len(st)
  BY AlignedFacts
<1>4. t.offset <= Consumed(t, g)
  BY <1>1, <1>2
<1>5. t.state # "BODY_AQUISITION" /\ t.state # "MESSAGE_AQUISITION"
  BY <1>1
<1>6. Aligned(st, t, g)
  BY <1>1, <1>2, <1>3, <1>4, <1>5 DEF Aligned
<1>7. Settled(t, g) = Consumed(t, g)
  BY <1>5 DEF Settled
<1> QED BY <1>1, <1>2, <1>6, <1>7

\* Nothing is kept of bytes without a first line.
LEMMA TrashMoves ==
    ASSUME NEW st, WellSent(st), NEW s \in InputStream, NEW g, Aligned(st, s, g),
           NEW t, Trashes(s, t)
    PROVE  /\ Aligned(st, t, g)
           /\ Consumed(t, g) = g /\ Settled(t, g) = g
           /\ t.state = "WAITING_MESSAGE_START" /\ t.offset = 0
           /\ t.eos = s.eos /\ t.ready = s.ready
<1>1. Len(s.bytes) \in Nat /\ g = Consumed(s, g) + Len(s.bytes) /\ Consumed(s, g) \in Nat
  BY AlignedFacts
<1>2. Len(s.bytes) \in 0..Len(s.bytes)
  BY <1>1
<1>3. t = Cleared(s, Len(s.bytes), s.ready)
  BY DEF Trashes
<1> QED BY <1>1, <1>2, <1>3, ClearedAligned

\* A first line found is one of a message, and no message that can be read to
\* its line begins before it.
LEMMA FindMoves ==
    ASSUME NEW st, WellSent(st), NEW s \in InputStream, NEW g, Aligned(st, s, g),
           NEW t, NEW n \in 0..Len(s.bytes) - 2, Finds(s, t, n)
    PROVE  /\ Aligned(st, t, g)
           /\ Consumed(t, g) = Consumed(s, g) + n /\ Settled(t, g) = Consumed(t, g)
           /\ \A m \in Messages : \A p : Begins(st, m, p) =>
                 p <= Consumed(s, g) \/ p > Consumed(t, g)
           /\ s.state = "WAITING_MESSAGE_START" /\ t.state = "MESSAGE_AQUISITION"
           /\ t.offset = s.offset + n
           /\ t.eos = s.eos /\ t.ready = s.ready
<1> DEFINE c == Consumed(s, g)
           d == Consumed(t, g)
<1>1. /\ c \in Nat /\ g \in Nat /\ Len(st) \in Nat /\ g <= Len(st)
      /\ Len(s.bytes) \in Nat /\ g = c + Len(s.bytes)
      /\ s.offset \in Nat /\ s.offset <= c
  BY AlignedFacts
<1>2. \A i \in 1..Len(s.bytes) : c + i \in 1..Len(st) /\ s.bytes[i] = st[c + i]
  BY AlignedFacts
<1>3. n \in 0..Len(s.bytes) /\ n + 1 \in 1..Len(s.bytes) - 1 /\ n + 1 \in 1..Len(s.bytes)
  BY <1>1
<1>4. /\ s.state = "WAITING_MESSAGE_START"
      /\ n + 1 \in Starts(s) /\ \A i \in Starts(s) : n + 1 <= i
      /\ t = Moved(s, n, "MESSAGE_AQUISITION", s.msg)
  BY DEF Finds
<1>5. /\ t.state = "MESSAGE_AQUISITION" /\ t.msg = s.msg /\ t.body = s.body
      /\ t.bytes = After(s, n) /\ t.offset = s.offset + n
      /\ t.eos = s.eos /\ t.ready = s.ready
  BY <1>4, MovedFields
<1>6. /\ Len(t.bytes) \in Nat /\ Len(t.bytes) <= g
      /\ d = c + n /\ d \in Nat
      /\ \A i \in 1..Len(t.bytes) : t.bytes[i] = st[d + i]
  BY <1>3, <1>5, Advance
<1>7. Settled(t, g) = d
  BY <1>5 DEF Settled
<1> HIDE DEF c, d
<1>8. \E m \in Messages : Begins(st, m, d + 1)
  <2>1. /\ s.bytes[n + 1][2] = "start"
        /\ s.bytes[n + 1] = st[c + (n + 1)]
        /\ c + (n + 1) \in 1..Len(st)
    BY <1>2, <1>3, <1>4 DEF Starts
  <2>2. c + (n + 1) = d + 1
    BY <1>1, <1>3, <1>6
  <2>3. st[d + 1][2] = "start" /\ d + 1 \in 1..Len(st)
    BY <2>1, <2>2
  <2>4. \E m \in Messages : st[d + 1] = <<m, "start">>
    BY <2>3, PieceFacts DEF KeepAlive
  <2> QED BY <2>3, <2>4 DEF Begins
<1>9. Aligned(st, t, g)
  <2>1. d + 2 <= g /\ t.offset <= d
    BY <1>1, <1>3, <1>5, <1>6
  <2>2. t.msg = NoMessage /\ t.body = <<>>
    BY <1>4, <1>5 DEF Aligned
  <2>3. t.state # "BODY_AQUISITION"
    BY <1>5
  <2> QED BY <1>1, <1>5, <1>6, <1>8, <2>1, <2>2, <2>3 DEF Aligned, d
<1>10. ASSUME NEW m \in Messages, NEW p, Begins(st, m, p), ~ (p <= c), ~ (p > d)
       PROVE  FALSE
  <2> DEFINE i == p - c
  <2>1. p \in Nat /\ p \in 1..Len(st) /\ st[p] = <<m, "start">>
    BY <1>1, <1>10 DEF Begins
  <2>2. i \in 1..Len(s.bytes) - 1 /\ i \in 1..Len(s.bytes) /\ i + 1 \in 1..Len(s.bytes) /\ i <= n
        /\ c + i = p /\ c + (i + 1) = p + 1
    <3>1. p \in Nat /\ c \in Nat /\ n \in Nat /\ Len(s.bytes) \in Nat /\ n <= Len(s.bytes) - 2
      BY <1>1, <1>3, <2>1
    <3>2. p > c /\ p <= c + n
      BY <1>6, <1>10, <3>1
    <3> QED BY ONLY <3>1, <3>2
  <2> HIDE DEF i
  <2>3. s.bytes[i] = <<m, "start">>
    BY <1>2, <2>1, <2>2
  <2>4. st[p + 1] = <<m, "line">>
    BY <1>10, <2>1 DEF WellSent, Whole
  <2>5. s.bytes[i + 1] = <<m, "line">>
    BY <1>2, <2>2, <2>4
  <2>6. i \in Starts(s)
    BY <2>2, <2>3, <2>5 DEF Starts
  <2>7. n + 1 <= i /\ i \in Nat /\ n \in Nat
    BY <1>3, <1>4, <2>2, <2>6
  <2> QED BY <2>2, <2>7
<1> QED BY <1>4, <1>5, <1>6, <1>7, <1>9, <1>10 DEF c, d

\* Headers found are those of the message at read_ptr.
LEMMA HeadersAt ==
    ASSUME NEW st, WellSent(st), NEW s \in InputStream, NEW g, Aligned(st, s, g),
           NEW m \in Messages, NEW n \in 1..Len(s.bytes), HeadersOf(s, m, n)
    PROVE  n = 3 /\ Begins(st, m, Consumed(s, g) + 1) /\ 3 \in 0..Len(s.bytes)
<1> DEFINE c == Consumed(s, g)
<1>1. c \in Nat /\ Len(s.bytes) \in Nat /\ g = c + Len(s.bytes) /\ n \in Nat
  BY AlignedFacts
<1>2. \A i \in 1..Len(s.bytes) : c + i \in 1..Len(st) /\ s.bytes[i] = st[c + i]
  BY AlignedFacts
<1>3. /\ s.bytes[n] = <<m, "headers">>
      /\ \A i \in 1..n - 1 : s.bytes[i][2] # "headers"
      /\ s.state = "MESSAGE_AQUISITION"
  BY DEF HeadersOf
<1>4. PICK k \in Messages : Begins(st, k, c + 1)
  BY <1>3 DEF Aligned
<1> HIDE DEF c
<1>5. /\ c + 1 \in 1..Len(st) /\ st[c + 1] = <<k, "start">>
      /\ st[(c + 1) + 1] = <<k, "line">> /\ st[(c + 1) + 2] = <<k, "headers">>
  BY <1>4 DEF Begins, WellSent, Whole
<1>6. st[c + 1] = <<k, "start">> /\ st[c + 2] = <<k, "line">> /\ st[c + 3] = <<k, "headers">>
  <2>1. (c + 1) + 1 = c + 2 /\ (c + 1) + 2 = c + 3
    BY <1>1
  <2> QED BY <1>5, <2>1
<1>7. n # 1 /\ n # 2
  <2>1. s.bytes[n] = st[c + n]
    BY <1>2
  <2> QED BY <1>3, <1>6, <2>1
<1>8. 3 \in 1..Len(s.bytes) /\ 3 \in 0..Len(s.bytes) /\ (n # 3 => 3 \in 1..n - 1)
  BY <1>1, <1>7
<1>9. s.bytes[3] = <<k, "headers">>
  BY <1>2, <1>6, <1>8
<1>10. n = 3
  BY <1>3, <1>8, <1>9
<1>11. m = k
  BY <1>3, <1>9, <1>10
<1> QED BY <1>4, <1>8, <1>10, <1>11 DEF c

LEMMA RefuseMoves ==
    ASSUME NEW st, WellSent(st), NEW s \in InputStream, NEW g, Aligned(st, s, g),
           NEW t, NEW m \in Messages, NEW n \in 1..Len(s.bytes), Refuses(s, t, m, n)
    PROVE  /\ Aligned(st, t, g)
           /\ Consumed(t, g) = Consumed(s, g) + 3 /\ Settled(t, g) = Consumed(t, g)
           /\ m \in Malformed /\ Begins(st, m, Consumed(s, g) + 1)
           /\ s.state = "MESSAGE_AQUISITION" /\ t.state = "WAITING_MESSAGE_START"
           /\ t.offset = s.offset + 3
           /\ t.eos = s.eos /\ t.ready = s.ready
<1>1. HeadersOf(s, m, n) /\ m \in Malformed /\ t = Moved(s, n, "WAITING_MESSAGE_START", s.msg)
  BY DEF Refuses
<1>2. n = 3 /\ Begins(st, m, Consumed(s, g) + 1) /\ 3 \in 0..Len(s.bytes)
  BY <1>1, HeadersAt
<1>3. s.state = "MESSAGE_AQUISITION"
  BY <1>1 DEF HeadersOf
<1>4. /\ t.state = "WAITING_MESSAGE_START" /\ t.msg = s.msg /\ t.body = s.body
      /\ t.bytes = After(s, 3) /\ t.offset = s.offset + 3
      /\ t.eos = s.eos /\ t.ready = s.ready
  BY <1>1, <1>2, MovedFields
<1>5. /\ Len(t.bytes) \in Nat /\ Len(t.bytes) <= g
      /\ Consumed(t, g) = Consumed(s, g) + 3 /\ Consumed(t, g) \in Nat
      /\ \A i \in 1..Len(t.bytes) : t.bytes[i] = st[Consumed(t, g) + i]
  BY <1>2, <1>4, Advance
<1>6. /\ g \in Nat /\ g <= Len(st) /\ Consumed(s, g) \in Nat
      /\ s.offset \in Nat /\ s.offset <= Consumed(s, g)
  BY AlignedFacts
<1>7. t.offset <= Consumed(t, g)
  BY <1>4, <1>5, <1>6
<1>8. t.msg = NoMessage /\ t.body = <<>>
  BY <1>3, <1>4 DEF Aligned
<1>9. t.state # "BODY_AQUISITION" /\ t.state # "MESSAGE_AQUISITION"
  BY <1>4
<1>10. Aligned(st, t, g)
  BY <1>5, <1>6, <1>7, <1>8, <1>9 DEF Aligned
<1>11. Settled(t, g) = Consumed(t, g)
  BY <1>9 DEF Settled
<1> QED BY <1>1, <1>2, <1>3, <1>4, <1>5, <1>10, <1>11

LEMMA TakeMoves ==
    ASSUME NEW st, WellSent(st), NEW s \in InputStream, NEW g, Aligned(st, s, g),
           NEW t, NEW m \in Messages, NEW n \in 1..Len(s.bytes), Takes(s, t, m, n)
    PROVE  /\ Aligned(st, t, g)
           /\ Consumed(t, g) = Consumed(s, g) + 3 /\ Settled(t, g) = Consumed(s, g)
           /\ m \notin Malformed /\ Begins(st, m, Consumed(s, g) + 1)
           /\ s.state = "MESSAGE_AQUISITION" /\ t.state = "BODY_AQUISITION"
           /\ t.msg = m /\ t.body = <<>>
           /\ t.offset = s.offset + 3
           /\ t.eos = s.eos /\ t.ready = s.ready
<1>1. /\ HeadersOf(s, m, n) /\ m \notin Malformed /\ m \in WithBody
      /\ t = Moved(s, n, "BODY_AQUISITION", m)
  BY DEF Takes
<1>2. n = 3 /\ Begins(st, m, Consumed(s, g) + 1) /\ 3 \in 0..Len(s.bytes)
  BY <1>1, HeadersAt
<1>3. s.state = "MESSAGE_AQUISITION"
  BY <1>1 DEF HeadersOf
<1>4. /\ t.state = "BODY_AQUISITION" /\ t.msg = m /\ t.body = s.body
      /\ t.bytes = After(s, 3) /\ t.offset = s.offset + 3
      /\ t.eos = s.eos /\ t.ready = s.ready
  BY <1>1, <1>2, MovedFields
<1>5. /\ Len(t.bytes) \in Nat /\ Len(t.bytes) <= g
      /\ Consumed(t, g) = Consumed(s, g) + 3 /\ Consumed(t, g) \in Nat
      /\ \A i \in 1..Len(t.bytes) : t.bytes[i] = st[Consumed(t, g) + i]
  BY <1>2, <1>4, Advance
<1>6. /\ g \in Nat /\ g <= Len(st) /\ Consumed(s, g) \in Nat
      /\ s.offset \in Nat /\ s.offset <= Consumed(s, g)
  BY AlignedFacts
<1>7. t.offset <= Consumed(t, g)
  BY <1>4, <1>5, <1>6
<1>8. t.body = <<>> /\ Len(t.body) = 0
  BY <1>3, <1>4 DEF Aligned
<1>9. t.state # "MESSAGE_AQUISITION"
  BY <1>4
<1>10. Settled(t, g) = Consumed(s, g)
  <2>1. Settled(t, g) = Consumed(t, g) - 3 - 0
    BY <1>4, <1>8 DEF Settled
  <2> QED BY <1>5, <1>6, <2>1
<1>11. Begins(st, t.msg, Settled(t, g) + 1)
  BY <1>2, <1>4, <1>10
<1>12. Aligned(st, t, g)
  BY <1>1, <1>4, <1>5, <1>6, <1>7, <1>8, <1>9, <1>11 DEF Aligned
<1> QED BY <1>1, <1>2, <1>3, <1>4, <1>5, <1>8, <1>10, <1>12

\* What a body is fed with is its own.
LEMMA BodyAt ==
    ASSUME NEW st, WellSent(st), NEW s \in InputStream, NEW g, Aligned(st, s, g),
           NEW n \in 1..Len(s.bytes), Eats(s, n)
    PROVE  /\ s.state = "BODY_AQUISITION" /\ s.msg \in Messages
           /\ s.msg \in WithBody \ Malformed
           /\ Begins(st, s.msg, Settled(s, g) + 1)
           /\ Consumed(s, g) = Settled(s, g) + 3 + Len(s.body)
           /\ Len(s.body) + n <= BodyLength /\ Len(s.body) \in Nat /\ BodyLength \in Nat
           /\ Length(s.msg) = 3 + BodyLength
           /\ Eaten(s, n) \in Seq(Pieces) /\ Len(Eaten(s, n)) = Len(s.body) + n
           /\ \A i \in 1..Len(s.body) + n : Eaten(s, n)[i] = <<s.msg, "body">>
<1> DEFINE m == s.msg
           b == Len(s.body)
           c == Consumed(s, g)
           q == Settled(s, g)
<1>1. /\ s.state = "BODY_AQUISITION" /\ n <= BodyLength - b
      /\ b \in Nat /\ BodyLength \in Nat /\ n \in Nat
  BY StreamFields, ChannelInputAssumption DEF Eats
<1>2. /\ m \in WithBody \ Malformed /\ Begins(st, m, q + 1)
      /\ \A i \in 1..b : s.body[i] = <<m, "body">>
  BY <1>1 DEF Aligned
<1>3. m \in Messages /\ Length(m) = 3 + BodyLength
  BY <1>2, ChannelInputAssumption, LengthFacts
<1>4. /\ c \in Nat /\ q \in Int /\ q = c - 3 - b /\ Len(s.bytes) \in Nat
      /\ \A i \in 1..Len(s.bytes) : s.bytes[i] = st[c + i]
  BY <1>1, AlignedFacts
<1>5. /\ Eaten(s, n) \in Seq(Pieces) /\ Len(Eaten(s, n)) = b + n
      /\ \A i \in 1..b : Eaten(s, n)[i] = s.body[i]
      /\ \A i \in 1..n : Eaten(s, n)[b + i] = s.bytes[i]
  <2>1. n \in 0..Len(s.bytes)
    BY <1>1, <1>4
  <2> QED BY <2>1, EatenFacts
<1> HIDE DEF m, b, c, q
<1>6. \A k \in 1..BodyLength : st[(q + 1) + 2 + k] = <<m, "body">>
  <2>1. q + 1 \in 1..Len(st)
    BY <1>2 DEF Begins
  <2> QED BY <1>2, <1>3, <2>1 DEF WellSent, Whole
<1>7. \A i \in 1..n : Eaten(s, n)[b + i] = <<m, "body">>
  <2> SUFFICES ASSUME NEW i \in 1..n
               PROVE  Eaten(s, n)[b + i] = <<m, "body">>
    OBVIOUS
  <2>1. i \in Nat /\ i <= n /\ i >= 1
    BY <1>1
  <2>2. c = q + 3 + b
    BY ONLY <1>1, <1>4
  <2>3. b + i \in 1..BodyLength /\ (q + 1) + 2 + (b + i) = c + i
    BY ONLY <1>1, <1>4, <2>1
  <2>4. i \in 1..Len(s.bytes)
    BY <1>1, <1>4, <2>1
  <2> QED BY <1>4, <1>5, <1>6, <2>3, <2>4
<1>8. ASSUME NEW i \in 1..b + n
      PROVE  Eaten(s, n)[i] = <<m, "body">>
  <2>1. CASE i \in 1..b
    BY <1>2, <1>5, <2>1
  <2>2. CASE i \notin 1..b
    <3>1. i - b \in 1..n /\ b + (i - b) = i
      BY <1>1, <2>2
    <3> QED BY <1>7, <3>1
  <2> QED BY <2>1, <2>2
<1>9. c = q + 3 + b /\ b + n <= BodyLength
  BY ONLY <1>1, <1>4
<1> QED BY <1>1, <1>2, <1>3, <1>5, <1>8, <1>9 DEF m, b, c, q

LEMMA FeedMoves ==
    ASSUME NEW st, WellSent(st), NEW s \in InputStream, NEW g, Aligned(st, s, g),
           NEW t, NEW n \in 1..Len(s.bytes), Feeds(s, t, n)
    PROVE  /\ Aligned(st, t, g)
           /\ Settled(t, g) = Settled(s, g) /\ Settled(s, g) \in Nat
           /\ s.msg \in Messages \ Malformed /\ Begins(st, s.msg, Settled(s, g) + 1)
           /\ s.state = "BODY_AQUISITION" /\ t.state = "BODY_AQUISITION"
           /\ t.msg = s.msg /\ t.offset = 0
           /\ t.eos = s.eos /\ t.ready = s.ready
<1>1. /\ Eats(s, n) /\ t.state = s.state /\ t.msg = s.msg /\ t.body = Eaten(s, n)
      /\ t.bytes = After(s, n) /\ t.offset = 0 /\ t.eos = s.eos /\ t.ready = s.ready
  BY DEF Feeds
<1>2. /\ s.state = "BODY_AQUISITION" /\ s.msg \in Messages
      /\ s.msg \in WithBody \ Malformed
      /\ Begins(st, s.msg, Settled(s, g) + 1)
      /\ Consumed(s, g) = Settled(s, g) + 3 + Len(s.body)
      /\ Len(s.body) \in Nat
      /\ Len(Eaten(s, n)) = Len(s.body) + n
      /\ \A i \in 1..Len(s.body) + n : Eaten(s, n)[i] = <<s.msg, "body">>
  BY <1>1, BodyAt
<1>3. /\ Consumed(s, g) \in Nat /\ g \in Nat /\ g <= Len(st) /\ Len(s.bytes) \in Nat
      /\ Settled(s, g) \in Int
  BY AlignedFacts
<1>4. n \in 0..Len(s.bytes) /\ n \in Nat
  BY <1>3
<1>5. /\ Len(t.bytes) \in Nat /\ Len(t.bytes) <= g
      /\ Consumed(t, g) = Consumed(s, g) + n /\ Consumed(t, g) \in Nat
      /\ \A i \in 1..Len(t.bytes) : t.bytes[i] = st[Consumed(t, g) + i]
  BY <1>1, <1>4, Advance
<1>6. Settled(t, g) = Settled(s, g)
  <2>1. Settled(t, g) = Consumed(t, g) - 3 - (Len(s.body) + n)
    BY <1>1, <1>2 DEF Settled
  <2>2. Consumed(s, g) = Settled(s, g) + 3 + Len(s.body) /\ Len(s.body) \in Nat
    BY <1>2
  <2>3. Consumed(t, g) = Consumed(s, g) + n
    BY <1>5
  <2>4. Settled(s, g) \in Int /\ n \in Nat
    BY <1>3, <1>4
  <2> QED BY ONLY <2>1, <2>2, <2>3, <2>4
<1>7. Settled(s, g) \in Nat
  <2>1. Settled(s, g) + 1 \in 1..Len(st)
    BY <1>2 DEF Begins
  <2> QED BY <1>3, <2>1
<1>8. t.state # "MESSAGE_AQUISITION" /\ t.offset <= Consumed(t, g)
  BY <1>1, <1>2, <1>5
<1>9. \A i \in 1..Len(t.body) : t.body[i] = <<t.msg, "body">>
  BY <1>1, <1>2
<1>10. Begins(st, t.msg, Settled(t, g) + 1)
  BY <1>1, <1>2, <1>6
<1>11. Aligned(st, t, g)
  BY <1>1, <1>2, <1>3, <1>5, <1>8, <1>9, <1>10 DEF Aligned
<1> QED BY <1>1, <1>2, <1>6, <1>7, <1>11

\* A message is completed with its own body, headers or body last.
Gives(st, s, t, g, m) ==
    /\ m \notin Malformed
    /\ Begins(st, m, Settled(s, g) + 1)
    /\ Settled(s, g) \in Nat
    /\ Settled(t, g) = Settled(s, g) + Length(m) /\ Consumed(t, g) = Settled(t, g)
    /\ t.state = "WAITING_MESSAGE_START" /\ t.offset = 0
    /\ t.ready = Append(s.ready, <<m, BodyOf(m)>>)

LEMMA CompleteMoves ==
    ASSUME NEW st, WellSent(st), NEW s \in InputStream, NEW g, Aligned(st, s, g),
           NEW t, NEW m \in Messages, NEW n \in 1..Len(s.bytes), Completes(s, t, m, n)
    PROVE  Aligned(st, t, g) /\ t.eos = s.eos /\ Gives(st, s, t, g, m)
<1>1. /\ HeadersOf(s, m, n) /\ m \notin Malformed /\ m \notin WithBody
      /\ t = Cleared(s, n, Append(s.ready, <<m, s.body>>))
  BY DEF Completes
<1>2. n = 3 /\ Begins(st, m, Consumed(s, g) + 1) /\ 3 \in 0..Len(s.bytes)
  BY <1>1, HeadersAt
<1>3. s.state = "MESSAGE_AQUISITION"
  BY <1>1 DEF HeadersOf
<1>4. s.body = <<>>
  BY <1>3 DEF Aligned
<1>5. BodyOf(m) = <<>> /\ Length(m) = 3
  BY <1>1, BodyFacts, LengthFacts
<1>6. t = Cleared(s, 3, Append(s.ready, <<m, BodyOf(m)>>))
  BY <1>1, <1>2, <1>4, <1>5
<1>7. /\ Aligned(st, t, g)
      /\ Consumed(t, g) = Consumed(s, g) + 3 /\ Settled(t, g) = Consumed(t, g)
      /\ t.state = "WAITING_MESSAGE_START" /\ t.offset = 0
      /\ t.eos = s.eos /\ t.ready = Append(s.ready, <<m, BodyOf(m)>>)
  <2> DEFINE ready == Append(s.ready, <<m, BodyOf(m)>>)
  <2>1. t = Cleared(s, 3, ready)
    BY <1>6
  <2> HIDE DEF ready
  <2>2. /\ Aligned(st, t, g)
        /\ Consumed(t, g) = Consumed(s, g) + 3 /\ Settled(t, g) = Consumed(t, g)
        /\ t.state = "WAITING_MESSAGE_START" /\ t.offset = 0
        /\ t.eos = s.eos /\ t.ready = ready
    BY <1>2, <2>1, ClearedAligned
  <2> QED BY <2>2 DEF ready
<1>8. Settled(s, g) = Consumed(s, g) /\ Consumed(s, g) \in Nat
  BY <1>3, AlignedFacts
<1> QED BY <1>1, <1>2, <1>5, <1>7, <1>8 DEF Gives

LEMMA FinishMoves ==
    ASSUME NEW st, WellSent(st), NEW s \in InputStream, NEW g, Aligned(st, s, g), ~s.eos,
           NEW t, NEW n \in 1..Len(s.bytes), Finishes(s, t, n)
    PROVE  Aligned(st, t, g) /\ t.eos = s.eos /\ s.msg \in Messages /\ Gives(st, s, t, g, s.msg)
<1> DEFINE m == s.msg
<1>1. /\ Eats(s, n) /\ Len(s.body) + n = BodyLength
      /\ t = Cleared(s, n, Append(s.ready, <<m, Eaten(s, n)>>))
  BY DEF Finishes
<1>2. /\ s.state = "BODY_AQUISITION" /\ m \in Messages
      /\ m \in WithBody \ Malformed
      /\ Begins(st, m, Settled(s, g) + 1)
      /\ Consumed(s, g) = Settled(s, g) + 3 + Len(s.body)
      /\ Len(s.body) \in Nat /\ BodyLength \in Nat /\ Length(m) = 3 + BodyLength
      /\ Eaten(s, n) \in Seq(Pieces) /\ Len(Eaten(s, n)) = Len(s.body) + n
      /\ \A i \in 1..Len(s.body) + n : Eaten(s, n)[i] = <<m, "body">>
  BY <1>1, BodyAt
<1>3. Settled(s, g) \in Int /\ Len(s.bytes) \in Nat /\ Consumed(s, g) \in Nat
  BY AlignedFacts
<1>4. n \in 0..Len(s.bytes) /\ n \in Nat
  BY <1>3
<1>5. Eaten(s, n) = BodyOf(m)
  <2>1. /\ BodyOf(m) \in Seq(Pieces) /\ Len(BodyOf(m)) = BodyLength
        /\ \A i \in 1..BodyLength : BodyOf(m)[i] = <<m, "body">>
    BY <1>2, BodyFacts
  <2>2. /\ Eaten(s, n) \in Seq(Pieces) /\ Len(Eaten(s, n)) = BodyLength
        /\ \A i \in 1..BodyLength : Eaten(s, n)[i] = <<m, "body">>
    BY <1>1, <1>2
  <2> DEFINE a == Eaten(s, n)
             b == BodyOf(m)
  <2> HIDE DEF a, b
  <2>3. a \in Seq(Pieces) /\ b \in Seq(Pieces) /\ Len(a) = Len(b)
        /\ \A i \in 1..Len(a) : a[i] = b[i]
    BY <2>1, <2>2 DEF a, b
  <2>4. a = b
    BY <2>3, SeqEqual
  <2> QED BY <2>4 DEF a, b
<1>6. /\ Aligned(st, t, g)
      /\ Consumed(t, g) = Consumed(s, g) + n /\ Settled(t, g) = Consumed(t, g)
      /\ t.state = "WAITING_MESSAGE_START" /\ t.offset = 0
      /\ t.eos = s.eos /\ t.ready = Append(s.ready, <<m, Eaten(s, n)>>)
  <2> DEFINE ready == Append(s.ready, <<m, Eaten(s, n)>>)
  <2>1. t = Cleared(s, n, ready)
    BY <1>1
  <2> HIDE DEF ready
  <2>2. /\ Aligned(st, t, g)
        /\ Consumed(t, g) = Consumed(s, g) + n /\ Settled(t, g) = Consumed(t, g)
        /\ t.state = "WAITING_MESSAGE_START" /\ t.offset = 0
        /\ t.eos = s.eos /\ t.ready = ready
    BY <1>4, <2>1, ClearedAligned
  <2> QED BY <2>2 DEF ready
<1>7. Settled(t, g) = Settled(s, g) + Length(m)
  <2>1. /\ Consumed(s, g) = Settled(s, g) + 3 + Len(s.body) /\ Len(s.body) \in Nat
        /\ Length(m) = 3 + BodyLength /\ Len(s.body) + n = BodyLength
    BY <1>1, <1>2
  <2>2. Settled(t, g) = Consumed(s, g) + n
    BY <1>6
  <2> QED BY ONLY <1>3, <1>4, <2>1, <2>2, SMTT(30)
<1>8. Settled(s, g) \in Nat
  <2>1. Settled(s, g) + 1 \in 1..Len(st)
    BY <1>2 DEF Begins
  <2> QED BY <1>3, <2>1
<1> QED BY <1>2, <1>5, <1>6, <1>7, <1>8 DEF Gives

\* Where the buffer was last rewound.
Base(s, g) == Consumed(s, g) - s.offset

LEMMA RoomIs ==
    ASSUME NEW st, WellSent(st), NEW s \in InputStream, NEW g, Aligned(st, s, g)
    PROVE  Room(s) = Capacity - g + Base(s, g) /\ Base(s, g) \in Nat /\ Room(s) \in Int
<1>1. /\ Consumed(s, g) \in Nat /\ Len(s.bytes) \in Nat /\ g = Consumed(s, g) + Len(s.bytes)
      /\ s.offset \in Nat /\ s.offset <= Consumed(s, g)
  BY AlignedFacts
<1>2. Capacity \in Nat
  BY ChannelInputAssumption
<1>3. Base(s, g) = Consumed(s, g) - s.offset /\ Room(s) = Capacity - s.offset - Len(s.bytes)
  BY DEF Base, Room
<1> QED BY ONLY <1>1, <1>2, <1>3

LEMMA TurnMoves ==
    ASSUME NEW st, WellSent(st), NEW s \in InputStream, NEW g, Aligned(st, s, g), ~s.eos,
           NEW t, Turns(s, t)
    PROVE  /\ t \in InputStream /\ Aligned(st, t, g) /\ ~t.eos
           /\ Base(t, g) \in Nat /\ Base(s, g) <= Base(t, g)
           /\ Settled(s, g) <= Settled(t, g)
           /\ t.ready = s.ready \/ \E m \in Messages : Gives(st, s, t, g, m)
<1> DEFINE P == /\ Aligned(st, t, g) /\ ~t.eos
                /\ Base(s, g) <= Base(t, g)
                /\ Settled(s, g) <= Settled(t, g)
                /\ t.ready = s.ready \/ \E m \in Messages : Gives(st, s, t, g, m)
           c == Consumed(s, g)
           q == Settled(s, g)
<1>0. t \in InputStream
  BY TurnsTypes
<1>1. /\ c \in Nat /\ g \in Nat /\ Len(s.bytes) \in Nat /\ g = c + Len(s.bytes)
      /\ s.offset \in Nat /\ s.offset <= c
      /\ q \in Int /\ q <= c
      /\ s.state # "BODY_AQUISITION" => q = c
  BY AlignedFacts
<1>2. Base(s, g) = c - s.offset /\ Base(t, g) = Consumed(t, g) - t.offset
  BY DEF Base
<1> HIDE DEF c, q
<1>3. ASSUME Trashes(s, t)
      PROVE  P
  <2>1. /\ Aligned(st, t, g) /\ Consumed(t, g) = g /\ Settled(t, g) = g
        /\ t.offset = 0 /\ t.eos = s.eos /\ t.ready = s.ready
    BY <1>3, TrashMoves
  <2>2. Base(s, g) <= Base(t, g) /\ q <= Settled(t, g)
    BY <1>1, <1>2, <2>1
  <2> QED BY <2>1, <2>2 DEF q
<1>4. ASSUME NEW n \in 0..Len(s.bytes) - 2, Finds(s, t, n)
      PROVE  P
  <2>1. /\ Aligned(st, t, g) /\ Consumed(t, g) = c + n /\ Settled(t, g) = Consumed(t, g)
        /\ t.offset = s.offset + n /\ t.eos = s.eos /\ t.ready = s.ready
    BY <1>4, FindMoves DEF c
  <2>2. n \in Nat
    BY <1>1
  <2>3. Base(s, g) <= Base(t, g) /\ q <= Settled(t, g)
    BY <1>1, <1>2, <2>1, <2>2
  <2> QED BY <2>1, <2>3 DEF q
<1>5. ASSUME NEW n \in 1..Len(s.bytes), NEW m \in Messages, Refuses(s, t, m, n)
      PROVE  P
  <2>1. /\ Aligned(st, t, g) /\ Consumed(t, g) = c + 3 /\ Settled(t, g) = Consumed(t, g)
        /\ t.offset = s.offset + 3 /\ t.eos = s.eos /\ t.ready = s.ready
    BY <1>5, RefuseMoves DEF c
  <2>2. Base(s, g) <= Base(t, g) /\ q <= Settled(t, g)
    BY <1>1, <1>2, <2>1
  <2> QED BY <2>1, <2>2 DEF q
<1>6. ASSUME NEW n \in 1..Len(s.bytes), NEW m \in Messages, Takes(s, t, m, n)
      PROVE  P
  <2>1. /\ Aligned(st, t, g) /\ Consumed(t, g) = c + 3 /\ Settled(t, g) = c
        /\ t.offset = s.offset + 3 /\ t.eos = s.eos /\ t.ready = s.ready
    BY <1>6, TakeMoves DEF c
  <2>2. Base(s, g) <= Base(t, g) /\ q <= Settled(t, g)
    BY <1>1, <1>2, <2>1
  <2> QED BY <2>1, <2>2 DEF q
<1>7. ASSUME NEW m \in Messages, Gives(st, s, t, g, m), Aligned(st, t, g), t.eos = s.eos
      PROVE  P
  <2>1. /\ Settled(t, g) = q + Length(m) /\ Consumed(t, g) = Settled(t, g) /\ t.offset = 0
    BY <1>7 DEF Gives, q
  <2>2. Length(m) \in Nat
    BY LengthFacts
  <2>3. Consumed(t, g) >= c
    <3>1. /\ Len(t.bytes) \in Nat
          /\ g = Consumed(t, g) + Len(t.bytes) /\ Consumed(t, g) \in Nat
      BY <1>0, <1>7, AlignedFacts
    <3>2. Len(t.bytes) <= Len(s.bytes)
      <4>1. PICK n \in 0..Len(s.bytes) : t.bytes = After(s, n)
        <5>1. Len(s.bytes) \in 0..Len(s.bytes)
          BY <1>1
        <5>2. ASSUME NEW n \in 0..Len(s.bytes) - 2
              PROVE  n \in 0..Len(s.bytes)
          BY <1>1
        <5>3. ASSUME NEW n \in 1..Len(s.bytes)
              PROVE  n \in 0..Len(s.bytes)
          BY <1>1
        <5> QED BY <5>1, <5>2, <5>3
                DEF Turns, Trashes, Finds, Refuses, Takes, Completes, Feeds, Finishes,
                    Moved, Cleared
      <4>2. Len(t.bytes) = Len(s.bytes) - n /\ n \in Nat
        BY <1>1, <4>1, AfterFacts
      <4> QED BY <1>1, <4>2
    <3> QED BY <1>1, <3>1, <3>2
  <2>4. q <= Settled(t, g)
    BY <1>1, <2>1, <2>2
  <2>5. Base(s, g) <= Base(t, g)
    <3>1. Consumed(t, g) \in Int
      BY <1>1, <2>1, <2>2
    <3> QED BY <1>1, <1>2, <2>1, <2>3, <3>1
  <2> QED BY <1>7, <2>4, <2>5 DEF q
<1>8. ASSUME NEW n \in 1..Len(s.bytes), Feeds(s, t, n)
      PROVE  P
  <2>1. /\ Aligned(st, t, g) /\ Settled(t, g) = q /\ t.offset = 0
        /\ t.eos = s.eos /\ t.ready = s.ready
    BY <1>8, FeedMoves DEF q
  <2>2. Consumed(t, g) = c + n /\ n \in Nat
    <3>1. t.bytes = After(s, n) /\ n \in 0..Len(s.bytes) /\ n \in Nat
      BY <1>1, <1>8 DEF Feeds
    <3> QED BY <3>1, Advance DEF c
  <2>3. Base(s, g) <= Base(t, g)
    BY <1>1, <1>2, <2>1, <2>2
  <2>4. q <= Settled(t, g)
    BY <1>1, <2>1
  <2> QED BY <2>1, <2>3, <2>4 DEF q
<1>9. P
  <2>1. ASSUME NEW n \in 1..Len(s.bytes), NEW m \in Messages, Completes(s, t, m, n)
        PROVE  P
    <3>1. Aligned(st, t, g) /\ t.eos = s.eos /\ Gives(st, s, t, g, m)
      BY <2>1, CompleteMoves
    <3> QED BY <1>7, <3>1
  <2>2. ASSUME NEW n \in 1..Len(s.bytes), Finishes(s, t, n)
        PROVE  P
    <3>1. Aligned(st, t, g) /\ t.eos = s.eos /\ s.msg \in Messages /\ Gives(st, s, t, g, s.msg)
      BY <2>2, FinishMoves
    <3> QED BY <1>7, <3>1
  <2> HIDE DEF P
  <2> QED BY <1>3, <1>4, <1>5, <1>6, <1>8, <2>1, <2>2 DEF Turns
<1>10. Base(t, g) \in Nat
  BY <1>0, <1>9, RoomIs
<1> QED BY <1>0, <1>9, <1>10

-----------------------------------------------------------------------------
(***************************************************************************)
(* What is given to the listeners: whole messages, in order.               *)
(***************************************************************************)
LEMMA GivenGrows ==
    ASSUME NEW st, WellSent(st), NEW s \in InputStream, NEW t \in InputStream, NEW g, NEW D,
           Aligned(st, s, g), Aligned(st, t, g), Settled(s, g) <= Settled(t, g),
           Given(st, s, g, D)
    PROVE  Given(st, t, g, D)
<1>1. Settled(s, g) \in Int /\ Settled(t, g) \in Int
  BY AlignedFacts
<1>2. \A i \in 1..Len(D) : \E p \in 1..Len(st) :
         Begins(st, D[i][1], p) /\ p + Length(D[i][1]) - 1 <= Settled(t, g)
  <2> SUFFICES ASSUME NEW i \in 1..Len(D)
               PROVE  \E p \in 1..Len(st) :
                         Begins(st, D[i][1], p) /\ p + Length(D[i][1]) - 1 <= Settled(t, g)
    OBVIOUS
  <2>1. D[i][1] \in Messages
    BY DEF Given
  <2>2. PICK p \in 1..Len(st) :
           Begins(st, D[i][1], p) /\ p + Length(D[i][1]) - 1 <= Settled(s, g)
    BY DEF Given
  <2>3. Length(D[i][1]) \in Nat /\ p \in Nat
    BY <2>1, LengthFacts
  <2>4. p + Length(D[i][1]) - 1 <= Settled(t, g)
    BY <1>1, <2>2, <2>3
  <2> QED BY <2>2, <2>4
<1> QED BY <1>2 DEF Given

LEMMA GivenMore ==
    ASSUME NEW st, WellSent(st), NEW s \in InputStream, NEW t \in InputStream, NEW g, NEW D,
           Aligned(st, s, g), Aligned(st, t, g), Given(st, s, g, D),
           NEW m \in Messages, Gives(st, s, t, g, m)
    PROVE  Given(st, t, g, Append(D, <<m, BodyOf(m)>>))
<1> DEFINE x == <<m, BodyOf(m)>>
           E == Append(D, x)
           q == Settled(s, g)
           r == Settled(t, g)
           l == Len(D)
<1>1. /\ m \notin Malformed /\ Begins(st, m, q + 1) /\ q \in Nat /\ r = q + Length(m)
  BY DEF Gives
<1>2. Length(m) \in Nat /\ Length(m) >= 3
  BY LengthFacts
<1>3. D \in Seq((Messages \ Malformed) \X Seq(Pieces)) /\ l \in Nat
  BY DEF Given
<1>4. x \in (Messages \ Malformed) \X Seq(Pieces)
  BY <1>1, BodyFacts
<1>5. x[1] = m /\ x[2] = BodyOf(m)
  OBVIOUS
<1> HIDE DEF x, q, r, l
<1>6. /\ E \in Seq((Messages \ Malformed) \X Seq(Pieces)) /\ Len(E) = l + 1
      /\ \A i \in 1..l : E[i] = D[i]
      /\ E[l + 1] = x
  BY <1>3, <1>4 DEF l
<1> HIDE DEF E
<1>7. \A i \in 1..Len(E) : i \in 1..l \/ i = l + 1
  BY <1>3, <1>6
<1>8. Settled(s, g) <= Settled(t, g)
  BY <1>1, <1>2 DEF q, r
<1>9. Given(st, t, g, D)
  BY <1>8, GivenGrows
<1>10. \A i \in 1..l :
          /\ D[i][1] \in Messages
          /\ D[i][2] = BodyOf(D[i][1])
          /\ \E p \in 1..Len(st) : Begins(st, D[i][1], p) /\ p + Length(D[i][1]) - 1 <= r
  BY <1>9 DEF Given, l, r
<1>11. \A i \in 1..l, p \in 1..Len(st) : Begins(st, D[i][1], p) => p <= q
  <2> SUFFICES ASSUME NEW i \in 1..l, NEW p \in 1..Len(st), Begins(st, D[i][1], p)
               PROVE  p <= q
    OBVIOUS
  <2>1. D[i][1] \in Messages
    BY <1>10
  <2>2. PICK o \in 1..Len(st) : Begins(st, D[i][1], o) /\ o + Length(D[i][1]) - 1 <= q
    BY DEF Given, l, q
  <2>3. o = p
    BY <2>1, <2>2, BeginsOnce
  <2>4. Length(D[i][1]) \in Nat /\ Length(D[i][1]) >= 3 /\ p \in Nat
    BY <2>1, LengthFacts
  <2> QED BY <1>1, <2>2, <2>3, <2>4
<1>12. q + 1 \in 1..Len(st) /\ q + 1 + Length(m) - 1 <= r
  BY <1>1, <1>2 DEF Begins
<1>13. \A i \in 1..Len(E) :
          /\ E[i][2] = BodyOf(E[i][1])
          /\ \E p \in 1..Len(st) : Begins(st, E[i][1], p) /\ p + Length(E[i][1]) - 1 <= r
  <2>1. \A i \in 1..l :
           /\ E[i][2] = BodyOf(E[i][1])
           /\ \E p \in 1..Len(st) : Begins(st, E[i][1], p) /\ p + Length(E[i][1]) - 1 <= r
    BY <1>6, <1>10
  <2>2. /\ E[l + 1][2] = BodyOf(E[l + 1][1])
        /\ \E p \in 1..Len(st) : Begins(st, E[l + 1][1], p) /\ p + Length(E[l + 1][1]) - 1 <= r
    BY <1>1, <1>5, <1>6, <1>12
  <2> QED BY <1>7, <2>1, <2>2
<1>14. ASSUME NEW i \in 1..Len(E), NEW j \in 1..Len(E), NEW p \in 1..Len(st),
              NEW o \in 1..Len(st), i < j, Begins(st, E[i][1], p), Begins(st, E[j][1], o)
       PROVE  p < o
  <2>1. i \in 1..l
    BY <1>3, <1>6, <1>14
  <2>2. Begins(st, D[i][1], p)
    BY <1>6, <1>14, <2>1
  <2>3. CASE j \in 1..l
    <3>1. Begins(st, D[j][1], o)
      BY <1>6, <1>14, <2>3
    <3> QED BY <1>14, <2>1, <2>2, <2>3, <3>1 DEF Given, l
  <2>4. CASE j = l + 1
    <3>1. Begins(st, m, o)
      BY <1>5, <1>6, <1>14, <2>4
    <3>2. o = q + 1
      BY <1>1, <3>1, BeginsOnce
    <3>3. p <= q /\ p \in Nat
      BY <1>11, <2>1, <2>2
    <3> QED BY <1>1, <3>2, <3>3
  <2> QED BY <1>7, <2>3, <2>4
<1> QED BY <1>6, <1>13, <1>14 DEF Given, E, x, r

LEMMA AppendLast ==
    ASSUME NEW S, NEW D \in Seq(S), NEW ready \in Seq(S), NEW x \in S
    PROVE  D \o Append(ready, x) = Append(D \o ready, x)
<1> DEFINE a == D \o Append(ready, x)
           b == Append(D \o ready, x)
<1>1. a \in Seq(S) /\ b \in Seq(S) /\ Len(a) = Len(b)
  OBVIOUS
<1>2. \A i \in 1..Len(a) : a[i] = b[i]
  OBVIOUS
<1> HIDE DEF a, b
<1>3. a = b
  BY <1>1, <1>2, SeqEqual
<1> QED BY <1>3 DEF a, b

Entries == (Messages \cup {NoMessage}) \X Seq(Pieces)

\* What was delivered or is ready to be, and one more message behind it.
Out(D, s) == D \o s.ready
More(E, m) == Append(E, <<m, BodyOf(m)>>)

LEMMA GivesLast ==
    ASSUME NEW st, NEW s \in InputStream, NEW g, NEW t, NEW D \in Seq(Entries),
           NEW m \in Messages, Gives(st, s, t, g, m)
    PROVE  Out(D, t) = More(Out(D, s), m)
<1>1. t.ready = Append(s.ready, <<m, BodyOf(m)>>)
  BY DEF Gives
<1>2. s.ready \in Seq(Entries)
  BY StreamFields DEF Entries
<1>3. <<m, BodyOf(m)>> \in Entries
  BY BodyFacts DEF Entries
<1> QED BY <1>1, <1>2, <1>3, AppendLast DEF Out, More

LEMMA TurnGives ==
    ASSUME NEW st, WellSent(st), NEW s \in InputStream, NEW g, Aligned(st, s, g), ~s.eos,
           NEW t, Turns(s, t), NEW D \in Seq(Entries), Given(st, s, g, D \o s.ready)
    PROVE  Given(st, t, g, D \o t.ready)
<1>1. /\ t \in InputStream /\ Aligned(st, t, g)
      /\ Settled(s, g) <= Settled(t, g)
      /\ t.ready = s.ready \/ \E m \in Messages : Gives(st, s, t, g, m)
  BY TurnMoves
<1>3. CASE t.ready = s.ready
  <2>1. Given(st, t, g, D \o s.ready)
    BY <1>1, GivenGrows
  <2> QED BY <1>3, <2>1
<1>4. ASSUME NEW m \in Messages, Gives(st, s, t, g, m)
      PROVE  Given(st, t, g, D \o t.ready)
  <2>1. Given(st, t, g, Append(D \o s.ready, <<m, BodyOf(m)>>))
    BY <1>1, <1>4, GivenMore
  <2>2. Out(D, t) = More(Out(D, s), m)
    BY <1>4, GivesLast
  <2> QED BY <2>1, <2>2 DEF Out, More
<1> QED BY <1>1, <1>3, <1>4

-----------------------------------------------------------------------------
(***************************************************************************)
(* A read, the parse of what was read, and what is given then.             *)
(***************************************************************************)
LEMMA RestParse ==
    ASSUME NEW s \in InputStream, Rests(s)
    PROVE  ParseStream[s] = s
<1>1. \A t : ~Turns(s, t)
  <2> SUFFICES ASSUME NEW t, Turns(s, t)
               PROVE  FALSE
    OBVIOUS
  <2>1. /\ Len(s.bytes) \in Nat /\ DOMAIN s.bytes = 1..Len(s.bytes)
        /\ s.bytes = <<>> => Len(s.bytes) = 0
        /\ s.bytes \in Seq(Pieces)
    BY StreamFields
  <2>2. CASE Trashes(s, t)
    BY <2>1, <2>2 DEF Rests, Trashes
  <2>3. ASSUME NEW n \in 0..Len(s.bytes) - 2, Finds(s, t, n)
        PROVE  FALSE
    <3>1. /\ s.state = "WAITING_MESSAGE_START" /\ n + 1 \in Starts(s)
      BY <2>3 DEF Finds
    <3>2. /\ n + 1 \in 1..Len(s.bytes) - 1 /\ s.bytes[(n + 1) + 1][2] = "line"
      BY <3>1 DEF Starts
    <3>3. (n + 1) + 1 \in DOMAIN s.bytes /\ Len(s.bytes) # 0
      BY <2>1, <3>2
    <3>4. MayHoldLine(s)
      BY <3>2, <3>3 DEF MayHoldLine
    <3> QED BY <2>1, <3>1, <3>3, <3>4 DEF Rests
  <2>4. ASSUME NEW n \in 1..Len(s.bytes), NEW m \in Messages, HeadersOf(s, m, n)
        PROVE  FALSE
    <3>1. s.state = "MESSAGE_AQUISITION" /\ s.bytes[n][2] = "headers"
      BY <2>4 DEF HeadersOf
    <3>2. Len(s.bytes) # 0
      BY <2>1
    <3> QED BY <2>1, <3>1, <3>2 DEF Rests
  <2>5. ASSUME NEW n \in 1..Len(s.bytes), Eats(s, n)
        PROVE  FALSE
    <3>1. s.state = "BODY_AQUISITION" /\ Len(s.bytes) # 0
      BY <2>1, <2>5 DEF Eats
    <3> QED BY <2>1, <3>1 DEF Rests
  <2> QED BY <2>2, <2>3, <2>4, <2>5 DEF Turns, Refuses, Takes, Completes, Feeds, Finishes
<1>2. {s} \in SUBSET InputStream /\ \A r \in {s} : \A t : Turns(r, t) => t \in {s}
  BY <1>1
<1>3. \A r \in {s} : ParseStream[r] \in {s}
  BY <1>2, ParseKeeps
<1> QED BY <1>3

\* The parser's state but for what is ready and the end of the stream.
Alike(s, t) ==
    /\ t.state = s.state /\ t.msg = s.msg /\ t.body = s.body
    /\ t.bytes = s.bytes /\ t.offset = s.offset

LEMMA AlikeKeeps ==
    ASSUME NEW s, NEW t, Alike(s, t), NEW st, NEW g, NEW D, NEW W
    PROVE  /\ Room(t) = Room(s) /\ Rests(t) <=> Rests(s)
           /\ Settled(t, g) = Settled(s, g) /\ Consumed(t, g) = Consumed(s, g)
           /\ Aligned(st, s, g) => Aligned(st, t, g)
           /\ Given(st, s, g, D) => Given(st, t, g, D)
           /\ Kept(st, s, g, D, W) => Kept(st, t, g, D, W)
           /\ Clean(st, s, g) => Clean(st, t, g)
           /\ Stretch(st, s, g) => Stretch(st, t, g)
<1>1. Room(t) = Room(s) /\ Consumed(t, g) = Consumed(s, g)
  BY DEF Alike, Room, Consumed
<1>2. Settled(t, g) = Settled(s, g)
  BY <1>1 DEF Alike, Settled
<1>3. MayHoldLine(t) <=> MayHoldLine(s)
  BY <1>1 DEF Alike, MayHoldLine
<1>4. Rests(t) <=> Rests(s)
  BY <1>3 DEF Alike, Rests
<1>5. Aligned(st, s, g) => Aligned(st, t, g)
  BY <1>1, <1>2 DEF Alike, Aligned
<1>6. Given(st, s, g, D) => Given(st, t, g, D)
  BY <1>2 DEF Given
<1>7. Kept(st, s, g, D, W) => Kept(st, t, g, D, W)
  BY <1>2 DEF Kept
<1>8. Clean(st, s, g) => Clean(st, t, g)
  BY <1>1 DEF Alike, Clean
<1>9. Stretch(st, s, g) => Stretch(st, t, g)
  BY <1>1 DEF Alike, Stretch
<1> QED BY <1>1, <1>2, <1>4, <1>5, <1>6, <1>7, <1>8, <1>9

LEMMA EmptiedIs ==
    ASSUME NEW s \in InputStream, NEW t, t = [s EXCEPT !.ready = <<>>]
    PROVE  t \in InputStream /\ Alike(s, t) /\ t.eos = s.eos /\ t.ready = <<>>
<1>1. <<>> \in Seq((Messages \cup {NoMessage}) \X Seq(Pieces))
  OBVIOUS
<1> DEFINE none == <<>>
<1> HIDE DEF none
<1>2. none \in Seq((Messages \cup {NoMessage}) \X Seq(Pieces)) /\ t = [s EXCEPT !.ready = none]
  BY <1>1 DEF none
<1>3. /\ t \in InputStream /\ t.ready = none /\ t.eos = s.eos
      /\ t.state = s.state /\ t.msg = s.msg /\ t.body = s.body
      /\ t.bytes = s.bytes /\ t.offset = s.offset
  BY ONLY s \in InputStream, <1>2 DEF InputStream
<1> QED BY <1>3 DEF Alike, none

LEMMA EndedIs ==
    ASSUME NEW s \in InputStream, NEW t, t = [s EXCEPT !.eos = TRUE]
    PROVE  t \in InputStream /\ Alike(s, t) /\ t.eos = TRUE /\ t.ready = s.ready
BY DEF InputStream, Alike

LEMMA ExtendedIs ==
    ASSUME NEW s \in InputStream, NEW bytes \in Seq(Pieces),
           NEW t, t = [s EXCEPT !.bytes = bytes]
    PROVE  /\ t \in InputStream
           /\ t.state = s.state /\ t.msg = s.msg /\ t.body = s.body /\ t.bytes = bytes
           /\ t.offset = s.offset /\ t.eos = s.eos /\ t.ready = s.ready
BY DEF InputStream

\* What a read of n pieces leaves in the buffer.
Extended(s, st, g, n) == [s EXCEPT !.bytes = s.bytes \o SubSeq(st, g + 1, g + n)]

LEMMA ReadMore ==
    ASSUME NEW st, WellSent(st), NEW s \in InputStream, NEW g, Aligned(st, s, g),
           NEW n \in Nat, g + n <= Len(st)
    PROVE  LET u == Extended(s, st, g, n)
           IN  /\ u \in InputStream /\ Aligned(st, u, g + n)
               /\ Consumed(u, g + n) = Consumed(s, g) /\ Settled(u, g + n) = Settled(s, g)
               /\ Room(u) = Room(s) - n
               /\ u.state = s.state /\ u.msg = s.msg /\ u.body = s.body
               /\ u.offset = s.offset /\ u.eos = s.eos /\ u.ready = s.ready
<1> DEFINE u == Extended(s, st, g, n)
<1> HIDE DEF u
<1> DEFINE pieces == SubSeq(st, g + 1, g + n)
           more == s.bytes \o pieces
           c == Consumed(s, g)
           l == Len(s.bytes)
<1>1. /\ c \in Nat /\ g \in Nat /\ Len(st) \in Nat /\ g <= Len(st)
      /\ l \in Nat /\ g = c + l
      /\ s.offset \in Nat /\ s.offset <= c
      /\ \A i \in 1..l : s.bytes[i] = st[c + i]
  BY AlignedFacts
<1>2. st \in Seq(Pieces) /\ s.bytes \in Seq(Pieces)
  BY StreamFields DEF WellSent
<1>3. /\ pieces \in Seq(Pieces) /\ Len(pieces) = n
      /\ \A i \in 1..n : pieces[i] = st[g + i]
  <2>1. /\ g + 1 \in 1..Len(st) + 1 /\ g + n \in 0..Len(st) /\ g + n \in g..Len(st)
    BY <1>1
  <2>2. st \in Seq(Pieces)
    BY <1>2
  <2> QED BY ONLY <1>1, <2>1, <2>2, n \in Nat
<1> HIDE DEF pieces
<1>4. pieces \in Seq(Pieces)
  BY <1>3
<1>5. /\ more \in Seq(Pieces) /\ Len(more) = l + Len(pieces)
      /\ \A i \in 1..l : more[i] = s.bytes[i]
      /\ \A i \in 1..Len(pieces) : more[l + i] = pieces[i]
  BY <1>2, <1>4
<1> HIDE DEF more
<1>6. u = [s EXCEPT !.bytes = more] /\ more \in Seq(Pieces)
  BY <1>5 DEF more, pieces, Extended, u
<1>7. /\ u \in InputStream
      /\ u.state = s.state /\ u.msg = s.msg /\ u.body = s.body /\ u.bytes = more
      /\ u.offset = s.offset /\ u.eos = s.eos /\ u.ready = s.ready
  <2>1. s \in InputStream
    OBVIOUS
  <2> QED BY ONLY <1>6, <2>1, ExtendedIs
<1>9. Len(more) = l + n /\ Len(more) \in Nat
  BY <1>1, <1>3, <1>5
<1> HIDE DEF c, l
<1>10. Consumed(u, g + n) = c
  <2>1. Consumed(u, g + n) = (g + n) - (l + n)
    BY <1>7, <1>9 DEF Consumed
  <2> QED BY <1>1, <2>1
<1>11. Settled(u, g + n) = Settled(s, g)
  BY <1>7, <1>10 DEF Settled, c
<1>12. Room(u) = Room(s) - n
  <2>1. Capacity \in Nat
    BY ChannelInputAssumption
  <2>2. Room(u) = Capacity - s.offset - (l + n) /\ Room(s) = Capacity - s.offset - l
    BY <1>7, <1>9 DEF Room, l
  <2> QED BY <1>1, <2>1, <2>2
<1>13. \A i \in 1..Len(more) : more[i] = st[c + i]
  <2> SUFFICES ASSUME NEW i \in 1..Len(more)
               PROVE  more[i] = st[c + i]
    OBVIOUS
  <2>1. CASE i \in 1..l
    BY <1>1, <1>5, <2>1
  <2>2. CASE i \notin 1..l
    <3>1. i - l \in 1..n /\ l + (i - l) = i /\ g + (i - l) = c + i
      BY <1>1, <1>9, <2>2, SMTT(30)
    <3>2. more[l + (i - l)] = pieces[i - l] /\ pieces[i - l] = st[g + (i - l)]
      BY <1>3, <1>5, <3>1
    <3> QED BY <3>1, <3>2
  <2> QED BY <2>1, <2>2
<1>14. Aligned(st, u, g + n)
  <2>1. g + n \in Nat /\ Len(more) <= g + n /\ (c + 2 <= g => c + 2 <= g + n)
    BY <1>1, <1>9
  <2> QED BY <1>1, <1>7, <1>10, <1>11, <1>13, <2>1 DEF Aligned, c
<1> QED BY <1>7, <1>10, <1>11, <1>12, <1>14 DEF c, u

\* What the loop goes through, when nothing but bytes came.
Parsed(st, g, D) ==
    {s \in InputStream : /\ ~s.eos /\ Room(s) \in Nat
                         /\ Aligned(st, s, g) /\ Given(st, s, g, D \o s.ready)}

LEMMA ParsedCloses ==
    ASSUME NEW st, WellSent(st), NEW g, NEW D \in Seq(Entries)
    PROVE  \A s \in Parsed(st, g, D) : \A t : Turns(s, t) => t \in Parsed(st, g, D)
<1> SUFFICES ASSUME NEW s \in Parsed(st, g, D), NEW t, Turns(s, t)
             PROVE  t \in Parsed(st, g, D)
  OBVIOUS
<1>1. /\ s \in InputStream /\ ~s.eos /\ Room(s) \in Nat
      /\ Aligned(st, s, g) /\ Given(st, s, g, D \o s.ready)
  BY DEF Parsed
<1>2. /\ t \in InputStream /\ Aligned(st, t, g) /\ ~t.eos
      /\ Base(t, g) \in Nat /\ Base(s, g) <= Base(t, g)
  BY <1>1, TurnMoves
<1>3. Given(st, t, g, D \o t.ready)
  BY <1>1, TurnGives
<1>4. Room(t) \in Nat
  <2>1. /\ Room(s) = Capacity - g + Base(s, g) /\ Base(s, g) \in Nat
        /\ Room(t) = Capacity - g + Base(t, g)
    BY <1>1, <1>2, RoomIs
  <2>2. Capacity \in Nat /\ g \in Nat
    BY <1>1, ChannelInputAssumption DEF Aligned
  <2> QED BY <1>1, <1>2, <2>1, <2>2
<1> QED BY <1>2, <1>3, <1>4 DEF Parsed

LEMMA Processed ==
    ASSUME NEW I \in SUBSET InputStream, \A r \in I : \A t : Turns(r, t) => t \in I,
           NEW s \in I, ProcessStream(s)
    PROVE  \E p \in I : /\ Rests(p) /\ Alike(p, input')
                        /\ delivered' = delivered \o p.ready
                        /\ input' \in InputStream /\ input'.ready = <<>>
                        /\ input'.eos = p.eos
<1> DEFINE p == ParseStream[s]
<1>1. p \in I /\ Rests(p)
  BY ParseKeeps
<1>2. delivered' = delivered \o p.ready /\ input' = [p EXCEPT !.ready = <<>>]
  BY DEF ProcessStream, NotifyIncomingMessages
<1> HIDE DEF p
<1>3. input' \in InputStream /\ Alike(p, input') /\ input'.eos = p.eos /\ input'.ready = <<>>
  BY <1>1, <1>2, EmptiedIs
<1> QED BY <1>1, <1>2, <1>3

-----------------------------------------------------------------------------
(***************************************************************************)
(* The invariant.                                                          *)
(***************************************************************************)
ParserInv ==
    /\ input \in InputStream /\ input.ready = <<>>
    /\ Room(input) \in Nat /\ Rests(input)
    /\ WellSent(stream)
    /\ Aligned(stream, input, got)
    /\ Given(stream, input, got, delivered)
    /\ open => ~input.eos
    /\ peerClosed \in BOOLEAN /\ open \in BOOLEAN
    /\ wholeLines \subseteq Messages

LEMMA ParserInit == Init => ParserInv
<1> SUFFICES ASSUME Init
             PROVE  ParserInv
  OBVIOUS
<1>1. /\ input.state = "WAITING_MESSAGE_START" /\ input.msg = NoMessage
      /\ input.body = <<>> /\ input.bytes = <<>> /\ input.offset = 0
      /\ input.eos = FALSE /\ input.ready = <<>>
      /\ stream = <<>> /\ got = 0 /\ peerClosed = FALSE /\ open = TRUE
      /\ delivered = <<>> /\ wholeLines = {}
  BY DEF Init
<1>2. input \in InputStream
  BY ChannelInputAssumption DEF Init, InputStream, InputStates
<1>3. stream \in Seq(Pieces) /\ Len(stream) = 0 /\ Len(input.bytes) = 0 /\ Len(delivered) = 0
      /\ delivered \in Seq((Messages \ Malformed) \X Seq(Pieces))
  BY <1>1
<1>4. Room(input) \in Nat /\ Rests(input)
  <2>1. Room(input) = Capacity - 0 - 0 /\ Capacity \in Nat
    BY <1>1, <1>3, ChannelInputAssumption DEF Room
  <2> QED BY <1>1, <2>1 DEF Rests
<1>5. WellSent(stream)
  BY <1>3 DEF WellSent, Whole, Placed, Once
<1>6. Aligned(stream, input, got)
  <2>1. Consumed(input, got) = 0
    <3>1. got = 0 /\ Len(input.bytes) = 0
      BY <1>1, <1>3
    <3> QED BY ONLY <3>1 DEF Consumed
  <2>2. /\ got \in Nat /\ got <= Len(stream) /\ Len(input.bytes) <= got
        /\ input.offset <= Consumed(input, got)
        /\ \A i \in 1..Len(input.bytes) : FALSE
    BY <1>1, <1>3, <2>1
  <2>3. input.state # "BODY_AQUISITION" /\ input.state # "MESSAGE_AQUISITION"
    BY <1>1
  <2> QED BY ONLY <1>1, <2>2, <2>3 DEF Aligned
<1>7. Given(stream, input, got, delivered)
  BY <1>3 DEF Given
<1> QED BY <1>1, <1>2, <1>4, <1>5, <1>6, <1>7 DEF ParserInv

LEMMA GivenEntries ==
    ASSUME NEW st, NEW s, NEW g, NEW D, Given(st, s, g, D)
    PROVE  D \in Seq(Entries)
<1>1. D \in Seq((Messages \ Malformed) \X Seq(Pieces))
  BY DEF Given
<1>2. (Messages \ Malformed) \X Seq(Pieces) \subseteq Entries
  BY DEF Entries
<1> QED BY <1>1, <1>2

\* The stream grows at its end.
LEMMA ParserStreamGrows ==
    ASSUME ParserInv, WellSent(stream'), Longer(stream, stream'), peerClosed' \in BOOLEAN,
           UNCHANGED <<input, got, open, delivered, wholeLines>>
    PROVE  ParserInv'
<1>1. /\ input \in InputStream /\ WellSent(stream) /\ Aligned(stream, input, got)
      /\ Given(stream, input, got, delivered)
  BY DEF ParserInv
<1>2. Aligned(stream', input, got) /\ Given(stream', input, got, delivered)
  BY <1>1, LongerKeeps
<1>3. Room(input)' = Room(input) /\ Rests(input)' = Rests(input)
  BY DEF Room, Rests, MayHoldLine
<1> QED BY <1>2, <1>3 DEF ParserInv

LEMMA ReadStarts ==
    ASSUME ParserInv, NEW n \in 1..Capacity, Read(n)
    PROVE  LET s == Extended(input, stream, got, n)
           IN  /\ s \in Parsed(stream, got + n, delivered)
               /\ delivered \in Seq(Entries)
               /\ Consumed(s, got + n) = Consumed(input, got)
               /\ Settled(s, got + n) = Settled(input, got)
               /\ s.state = input.state /\ s.msg = input.msg /\ s.body = input.body
               /\ s.offset = input.offset /\ s.ready = <<>>
               /\ got \in Nat /\ n \in Nat /\ got' = got + n
               /\ ProcessStream(s)
<1> DEFINE s == Extended(input, stream, got, n)
<1>1. /\ input \in InputStream /\ WellSent(stream) /\ Aligned(stream, input, got)
      /\ Given(stream, input, got, delivered)
      /\ input.ready = <<>> /\ Room(input) \in Nat /\ (open => ~input.eos)
  BY DEF ParserInv
<1>2. /\ open /\ n <= Len(stream) - got /\ n <= Room(input) /\ got' = got + n
      /\ ProcessStream(s)
  BY DEF Read, Extended
<1>3. n \in Nat /\ got \in Nat /\ Len(stream) \in Nat
  BY <1>1, AlignedFacts, ChannelInputAssumption
<1>4. got + n <= Len(stream)
  BY <1>2, <1>3
<1>5. /\ s \in InputStream /\ Aligned(stream, s, got + n)
      /\ Consumed(s, got + n) = Consumed(input, got)
      /\ Settled(s, got + n) = Settled(input, got)
      /\ Room(s) = Room(input) - n
      /\ s.state = input.state /\ s.msg = input.msg /\ s.body = input.body
      /\ s.offset = input.offset /\ s.eos = input.eos /\ s.ready = input.ready
  <2>1. /\ input \in InputStream /\ WellSent(stream) /\ Aligned(stream, input, got)
        /\ n \in Nat /\ got + n <= Len(stream)
    BY <1>1, <1>3, <1>4
  <2> QED BY ONLY <2>1, ReadMore
<1> HIDE DEF s
<1>6. Room(s) \in Nat
  BY <1>1, <1>2, <1>3, <1>5
<1>7. delivered \in Seq(Entries) /\ delivered \o <<>> = delivered
  BY <1>1, GivenEntries
<1>8. Given(stream, s, got + n, delivered \o s.ready)
  BY <1>1, <1>5, <1>7 DEF Given
<1>9. s \in Parsed(stream, got + n, delivered)
  BY <1>1, <1>2, <1>5, <1>6, <1>8 DEF Parsed
<1> QED BY <1>1, <1>2, <1>3, <1>5, <1>7, <1>9 DEF s

LEMMA ReadNothingIs ==
    ASSUME ParserInv, ReadNothing
    PROVE  /\ input' \in InputStream /\ Alike(input, input') /\ input'.ready = <<>>
           /\ delivered' = delivered /\ open' = FALSE
           /\ UNCHANGED <<stream, got, peerClosed, wholeLines>>
<1> DEFINE s == [input EXCEPT !.eos = TRUE]
<1>1. /\ input \in InputStream /\ Rests(input) /\ input.ready = <<>>
      /\ Given(stream, input, got, delivered)
  BY DEF ParserInv
<1>2. /\ ProcessStream(s) /\ open' = FALSE
      /\ UNCHANGED <<stream, got, peerClosed, wholeLines>>
  BY DEF ReadNothing
<1>3. s \in InputStream /\ Alike(input, s) /\ s.ready = input.ready
  BY <1>1, EndedIs
<1> HIDE DEF s
<1>4. Rests(s)
  BY <1>1, <1>3, AlikeKeeps
<1>5. ParseStream[s] = s
  BY <1>3, <1>4, RestParse
<1>6. delivered' = delivered \o <<>> /\ input' = [s EXCEPT !.ready = <<>>]
  BY <1>1, <1>2, <1>3, <1>5 DEF ProcessStream, NotifyIncomingMessages
<1>7. input' \in InputStream /\ Alike(s, input') /\ input'.ready = <<>>
  BY <1>3, <1>6, EmptiedIs
<1>8. delivered' = delivered
  <2>1. delivered \in Seq(Entries)
    BY <1>1, GivenEntries
  <2> QED BY <1>6, <2>1
<1>9. Alike(input, input')
  BY <1>3, <1>7 DEF Alike
<1> QED BY <1>2, <1>7, <1>8, <1>9

LEMMA ParserNext == ParserInv /\ [Next]_vars => ParserInv'
<1> SUFFICES ASSUME ParserInv, [Next]_vars
             PROVE  ParserInv'
  OBVIOUS
<1>1. /\ input \in InputStream /\ WellSent(stream) /\ Aligned(stream, input, got)
      /\ Given(stream, input, got, delivered)
      /\ peerClosed \in BOOLEAN /\ open \in BOOLEAN /\ wholeLines \subseteq Messages
  BY DEF ParserInv
<1>2. ASSUME NEW m \in Messages, PeerSends(m)
      PROVE  ParserInv'
  <2>1. /\ \A i \in 1..Len(stream) : stream[i][1] # m
        /\ stream' = stream \o PiecesOf(m)
        /\ UNCHANGED <<input, got, peerClosed, open, delivered, wholeLines>>
    <3>1. DOMAIN stream = 1..Len(stream)
      BY <1>1 DEF WellSent
    <3> QED BY <1>2, <3>1 DEF PeerSends
  <2>2. WellSent(stream') /\ Longer(stream, stream')
    BY <1>1, <2>1, MessageSent
  <2> QED BY <1>1, <2>1, <2>2, ParserStreamGrows
<1>3. CASE PeerKeepsAlive
  <2>1. /\ stream' = Append(stream, KeepAlive)
        /\ UNCHANGED <<input, got, peerClosed, open, delivered, wholeLines>>
    BY <1>3 DEF PeerKeepsAlive
  <2>2. WellSent(stream') /\ Longer(stream, stream')
    BY <1>1, <2>1, KeepAliveSent
  <2> QED BY <1>1, <2>1, <2>2, ParserStreamGrows
<1>4. CASE PeerCloses
  <2>1. /\ peerClosed' = TRUE
        /\ UNCHANGED <<input, stream, got, open, delivered, wholeLines>>
    BY <1>4 DEF PeerCloses
  <2>2. WellSent(stream') /\ Longer(stream, stream')
    <3>1. Len(stream) \in Nat
      BY <1>1 DEF WellSent
    <3> QED BY <1>1, <2>1, <3>1 DEF Longer
  <2> QED BY <2>1, <2>2, ParserStreamGrows
<1>5. ASSUME NEW n \in 1..Capacity, Read(n)
      PROVE  ParserInv'
  <2> DEFINE s == Extended(input, stream, got, n)
             I == Parsed(stream, got + n, delivered)
  <2>1. /\ s \in I /\ delivered \in Seq(Entries) /\ got' = got + n /\ ProcessStream(s)
    BY <1>5, ReadStarts
  <2>2. I \in SUBSET InputStream /\ \A r \in I : \A t : Turns(r, t) => t \in I
    BY <1>1, <2>1, ParsedCloses DEF Parsed
  <2> HIDE DEF s, I
  <2>3. PICK p \in I : /\ Rests(p) /\ Alike(p, input')
                       /\ delivered' = delivered \o p.ready
                       /\ input' \in InputStream /\ input'.ready = <<>>
                       /\ input'.eos = p.eos
    BY <2>1, <2>2, Processed
  <2>4. /\ ~p.eos /\ Room(p) \in Nat
        /\ Aligned(stream, p, got') /\ Given(stream, p, got', delivered')
    BY <2>1, <2>3 DEF I, Parsed
  <2>5. /\ stream' = stream /\ peerClosed' = peerClosed /\ open' = open
        /\ wholeLines' = wholeLines \cup LinesIn(SubSeq(stream, got + 1, got + n))
    BY <1>5 DEF Read
  <2>6. wholeLines' \subseteq Messages
    BY <1>1, <2>5 DEF LinesIn
  <2>7. Room(input') = Room(p) /\ Rests(input')
        /\ Aligned(stream, input', got') /\ Given(stream, input', got', delivered')
    BY <2>3, <2>4, AlikeKeeps
  <2>8. Room(input)' = Room(input') /\ (Rests(input)' <=> Rests(input'))
    BY DEF Room, Rests, MayHoldLine
  <2> QED BY <1>1, <2>3, <2>4, <2>5, <2>6, <2>7, <2>8 DEF ParserInv
<1>6. CASE ReadNothing
  <2>1. /\ input' \in InputStream /\ Alike(input, input') /\ input'.ready = <<>>
        /\ delivered' = delivered /\ open' = FALSE
        /\ UNCHANGED <<stream, got, peerClosed, wholeLines>>
    BY <1>6, ReadNothingIs
  <2>2. Room(input) \in Nat /\ Rests(input)
    BY DEF ParserInv
  <2>3. Room(input') = Room(input) /\ Rests(input')
        /\ Aligned(stream, input', got) /\ Given(stream, input', got, delivered)
    BY <1>1, <2>1, <2>2, AlikeKeeps
  <2>4. Room(input)' = Room(input') /\ (Rests(input)' <=> Rests(input'))
    BY DEF Room, Rests, MayHoldLine
  <2> QED BY <1>1, <2>1, <2>2, <2>3, <2>4 DEF ParserInv
<1>7. CASE UNCHANGED vars
  <2>1. Len(stream) \in Nat
    BY <1>1 DEF WellSent
  <2> QED BY <1>1, <1>7, <2>1, ParserStreamGrows DEF vars, Longer
<1> QED BY <1>2, <1>3, <1>4, <1>5, <1>6, <1>7 DEF Next

LEMMA StartIs ==
    ASSUME WellSent(stream), NEW m \in Messages, NEW p, Begins(stream, m, p)
    PROVE  StartOf(m) = p /\ EndOf(m) = p + Length(m) - 1 /\ Sent(m)
<1>1. DOMAIN stream = 1..Len(stream) /\ p \in 1..Len(stream) /\ stream[p] = <<m, "start">>
  BY DEF WellSent, Begins
<1>2. \A q \in DOMAIN stream : stream[q] = <<m, "start">> => q = p
  BY <1>1 DEF WellSent, Once, Begins
<1>3. StartOf(m) = p
  BY <1>1, <1>2 DEF StartOf
<1>4. Len(PiecesOf(m)) = Length(m)
  BY PiecesFacts
<1> QED BY <1>1, <1>3, <1>4 DEF EndOf, Sent

LEMMA SentBegins ==
    ASSUME WellSent(stream), NEW m \in Messages, Sent(m)
    PROVE  \E p \in 1..Len(stream) : Begins(stream, m, p)
BY DEF Sent, WellSent, Begins

LEMMA ParserInvariant == Spec => []ParserInv
BY ParserInit, ParserNext, PTL DEF Spec

LEMMA ParserTypeOK == ParserInv => TypeOK
<1> SUFFICES ASSUME ParserInv
             PROVE  TypeOK
  OBVIOUS
<1>1. /\ input \in InputStream /\ input.ready = <<>> /\ Room(input) \in Nat
      /\ WellSent(stream) /\ Aligned(stream, input, got)
      /\ Given(stream, input, got, delivered)
      /\ peerClosed \in BOOLEAN /\ open \in BOOLEAN /\ wholeLines \subseteq Messages
  BY DEF ParserInv
<1>2. (input.msg # NoMessage) = (input.state = "BODY_AQUISITION")
  <2>1. NoMessage \notin WithBody
    BY ChannelInputAssumption
  <2> QED BY <1>1, <2>1 DEF Aligned
<1>3. got \in 0..Len(stream)
  BY <1>1, AlignedFacts
<1>4. delivered \in Seq(Messages \X Seq(Pieces))
  <2>1. delivered \in Seq((Messages \ Malformed) \X Seq(Pieces))
    BY <1>1 DEF Given
  <2>2. (Messages \ Malformed) \X Seq(Pieces) \subseteq Messages \X Seq(Pieces)
    OBVIOUS
  <2> QED BY <2>1, <2>2
<1>5. stream \in Seq(Pieces)
  BY <1>1 DEF WellSent
<1> QED BY <1>1, <1>2, <1>3, <1>4, <1>5 DEF TypeOK

\* The input stream keeps its types, its write_ptr stays in buff and it holds
\* a message only to acquire its body, however the stream is cut into reads
\* (belle_sip_channel_input_stream_t, belle_sip_channel_parse_stream).
THEOREM InputTypeCorrect == Spec => []TypeOK
BY ParserInvariant, ParserTypeOK, PTL

LEMMA ParserDelivers == ParserInv => DeliveredAsSent
<1> SUFFICES ASSUME ParserInv
             PROVE  DeliveredAsSent
  OBVIOUS
<1>1. /\ WellSent(stream) /\ input \in InputStream /\ Aligned(stream, input, got)
      /\ Given(stream, input, got, delivered)
  BY DEF ParserInv
<1>2. DOMAIN delivered = 1..Len(delivered) /\ Len(delivered) \in Nat
  BY <1>1 DEF Given
<1>3. \A i \in 1..Len(delivered) : delivered[i][1] \in Messages \ Malformed
  BY <1>1 DEF Given
<1>4. Settled(input, got) \in Int /\ Settled(input, got) <= got /\ got \in Nat
  BY <1>1, AlignedFacts
<1>5. ASSUME NEW i \in DOMAIN delivered
      PROVE  /\ delivered[i][1] \notin Malformed
             /\ delivered[i][2] = BodyOf(delivered[i][1])
             /\ Arrived(delivered[i][1])
             /\ Begins(stream, delivered[i][1], StartOf(delivered[i][1]))
             /\ StartOf(delivered[i][1]) \in 1..Len(stream)
  <2> DEFINE m == delivered[i][1]
  <2>1. i \in 1..Len(delivered) /\ m \in Messages /\ m \notin Malformed
    BY <1>2, <1>3
  <2>2. PICK p \in 1..Len(stream) :
           Begins(stream, m, p) /\ p + Length(m) - 1 <= Settled(input, got)
    BY <1>1, <2>1 DEF Given
  <2>3. delivered[i][2] = BodyOf(m)
    BY <1>1, <2>1 DEF Given
  <2> HIDE DEF m
  <2>4. StartOf(m) = p /\ EndOf(m) = p + Length(m) - 1 /\ Sent(m)
    BY <1>1, <2>1, <2>2, StartIs
  <2>5. EndOf(m) <= got
    <3>1. Length(m) \in Nat /\ p \in Nat
      BY <2>1, LengthFacts
    <3> QED BY <1>4, <2>2, <2>4, <3>1
  <2> QED BY <2>1, <2>2, <2>3, <2>4, <2>5 DEF Arrived, m
<1>6. ASSUME NEW i \in DOMAIN delivered, NEW j \in DOMAIN delivered, i < j
      PROVE  StartOf(delivered[i][1]) < StartOf(delivered[j][1])
  <2>1. i \in 1..Len(delivered) /\ j \in 1..Len(delivered)
    BY <1>2
  <2> QED BY <1>1, <1>5, <1>6, <2>1 DEF Given
<1> QED BY <1>5, <1>6 DEF DeliveredAsSent

\* However the stream is cut into reads, and whatever of it is trashed, the
\* listeners are given messages that were sent, each once, in the order they
\* were sent, each with its own whole body
\* (belle_sip_channel_parse_stream, acquire_body_simple,
\* belle_sip_channel_notify_incoming_messages).
THEOREM InputDeliveredAsSent == Spec => []DeliveredAsSent
BY ParserInvariant, ParserDelivers, PTL

-----------------------------------------------------------------------------
(***************************************************************************)
(* What is not given was cut in its first line.                            *)
(***************************************************************************)
LEMMA Within ==
    ASSUME NEW st, WellSent(st), NEW m \in Messages, NEW p, Begins(st, m, p),
           NEW k \in Messages, NEW q, Begins(st, k, q), q >= p, q <= p + Length(m) - 1
    PROVE  q = p /\ k = m
<1>1. p \in Nat /\ q \in Nat /\ Length(m) \in Nat
  BY PieceFacts, LengthFacts DEF Begins
<1>2. CASE p < q
  <2>1. p + Length(m) - 1 < q
    BY <1>2, Apart
  <2> QED BY <1>1, <2>1
<1>3. CASE p = q
  BY <1>3, BeginsOnce
<1> QED BY <1>1, <1>2, <1>3

LEMMA StartsAre ==
    ASSUME NEW st, WellSent(st), NEW s \in InputStream, NEW g, Aligned(st, s, g),
           NEW m \in Messages, NEW p, Begins(st, m, p), Consumed(s, g) < p, p < g
    PROVE  Starts(s) # {}
<1> DEFINE c == Consumed(s, g)
           i == p - c
<1>1. c \in Nat /\ g \in Nat /\ Len(s.bytes) \in Nat /\ g = c + Len(s.bytes)
  BY AlignedFacts
<1>2. \A j \in 1..Len(s.bytes) : s.bytes[j] = st[c + j]
  BY AlignedFacts
<1>3. p \in Nat /\ p \in 1..Len(st) /\ st[p] = <<m, "start">>
  BY PieceFacts DEF Begins
<1>4. st[p + 1] = <<m, "line">>
  BY <1>3 DEF WellSent, Whole
<1> HIDE DEF c
<1>5. /\ i \in 1..Len(s.bytes) - 1 /\ i \in 1..Len(s.bytes) /\ i + 1 \in 1..Len(s.bytes)
      /\ c + i = p /\ c + (i + 1) = p + 1
  <2>1. c < p /\ p < g
    BY DEF c
  <2> QED BY <1>1, <1>3, <2>1
<1> HIDE DEF i
<1>6. s.bytes[i] = <<m, "start">> /\ s.bytes[i + 1] = <<m, "line">>
  BY <1>2, <1>3, <1>4, <1>5
<1> QED BY <1>5, <1>6 DEF Starts

\* Bytes are trashed behind a keep alive or a refused message only.
LEMMA TrashIsBad ==
    ASSUME NEW st, WellSent(st), NEW s \in InputStream, NEW g, Aligned(st, s, g),
           NEW t, Trashes(s, t), Clean(st, s, g), Capacity > 1
    PROVE  Bad(st, g)
<1> DEFINE c == Consumed(s, g)
<1>1. /\ c \in Nat /\ g \in Nat /\ Len(s.bytes) \in Nat /\ g = c + Len(s.bytes)
      /\ g <= Len(st) /\ Len(st) \in Nat
  BY AlignedFacts
<1>2. \A j \in 1..Len(s.bytes) : c + j \in 1..Len(st) /\ s.bytes[j] = st[c + j]
  BY AlignedFacts
<1>3. /\ s.state = "WAITING_MESSAGE_START" /\ MayHoldLine(s) /\ Starts(s) = {}
      /\ s.bytes # <<>> /\ DOMAIN s.bytes = 1..Len(s.bytes) /\ s.bytes \in Seq(Pieces)
  BY StreamFields DEF Trashes
<1> SUFFICES ASSUME ~Bad(st, g)
             PROVE  FALSE
  OBVIOUS
<1> HIDE DEF c
<1>4. \A i \in 1..g : st[i] # KeepAlive
  BY DEF Bad, KeepAlive
<1>5. ~Bad(st, c)
  BY <1>1 DEF Bad
<1>6. s.offset = 0 /\ Outside(st, c)
  BY <1>3, <1>5 DEF Clean, c
<1>7. ASSUME NEW i \in 1..Len(s.bytes), s.bytes[i][2] # "start"
      PROVE  FALSE
  <2>1. c + i \in 1..g /\ c + i \in 1..Len(st) /\ c + i > c /\ i \in Nat
    BY <1>1
  <2>2. st[c + i] # KeepAlive /\ st[c + i][2] # "start"
    BY <1>2, <1>4, <1>7, <2>1
  <2>3. PICK m \in Messages, p \in 1..Len(st) :
           Begins(st, m, p) /\ p < c + i /\ c + i <= p + Length(m) - 1
    BY <2>1, <2>2, Belongs
  <2>4. Length(m) \in Nat /\ p \in Nat
    BY LengthFacts
  <2>5. CASE p <= c
    <3>1. p + Length(m) - 1 <= c
      BY <1>6, <2>3, <2>5 DEF Outside
    <3> QED BY <1>1, <2>1, <2>3, <2>4, <3>1
  <2>6. CASE c < p
    <3>1. p < g
      BY <1>1, <2>1, <2>3, <2>4
    <3> QED BY <1>3, <2>3, <2>6, <3>1, StartsAre DEF c
  <2> QED BY <1>1, <2>4, <2>5, <2>6
<1>8. Room(s) = 0
  BY <1>3, <1>7 DEF MayHoldLine
<1>9. Len(s.bytes) > 1
  <2>1. Capacity - 0 - Len(s.bytes) = 0
    BY <1>6, <1>8 DEF Room
  <2> QED BY <1>1, <2>1, ChannelInputAssumption
<1>10. 1 \in 1..Len(s.bytes) /\ c + 1 < g /\ c < c + 1
  BY <1>1, <1>9
<1>11. st[c + 1][2] = "start" /\ c + 1 \in 1..Len(st)
  BY <1>2, <1>7, <1>10
<1>12. PICK m \in Messages : st[c + 1] = <<m, "start">>
  BY <1>11, PieceFacts DEF KeepAlive
<1>13. Begins(st, m, c + 1)
  BY <1>11, <1>12 DEF Begins
<1> QED BY <1>3, <1>10, <1>13, StartsAre DEF c

LEMMA TrashKeeps ==
    ASSUME NEW st, WellSent(st), NEW s \in InputStream, NEW g, Aligned(st, s, g),
           NEW t, Trashes(s, t), NEW E, NEW W, Kept(st, s, g, E, W), LinesRead(st, g, W),
           Clean(st, s, g), Capacity > 1
    PROVE  Kept(st, t, g, E, W) /\ Clean(st, t, g) /\ Stretch(st, t, g)
<1>1. /\ Consumed(t, g) = g /\ Settled(t, g) = g
      /\ t.state = "WAITING_MESSAGE_START" /\ t.offset = 0
  BY TrashMoves
<1>2. Bad(st, g)
  BY TrashIsBad
<1>3. s.state = "WAITING_MESSAGE_START" /\ Starts(s) = {}
  BY DEF Trashes
<1>4. /\ Consumed(s, g) \in Nat /\ g \in Nat /\ Settled(s, g) = Consumed(s, g)
      /\ Len(st) \in Nat
  BY <1>3, AlignedFacts
<1>5. ASSUME NEW m \in Messages \ Malformed, NEW p \in 1..Len(st), Begins(st, m, p),
             p <= g, Consumed(s, g) < p
      PROVE  m \notin W /\ Bad(st, p)
  <2>1. p = g
    BY <1>3, <1>4, <1>5, StartsAre
  <2>2. \A q : Begins(st, m, q) => q = p
    BY <1>5, BeginsOnce
  <2>3. m \notin W
    BY <1>4, <2>1, <2>2 DEF LinesRead
  <2> QED BY <1>2, <2>1, <2>3
<1>6. Kept(st, t, g, E, W)
  <2> SUFFICES ASSUME NEW m \in Messages \ Malformed, NEW p \in 1..Len(st),
                      Begins(st, m, p), p <= g
               PROVE  \/ \E i \in 1..Len(E) : E[i][1] = m
                      \/ m \notin W /\ Bad(st, p)
    BY <1>1 DEF Kept
  <2>1. p <= Settled(s, g) \/ Consumed(s, g) < p
    BY <1>4
  <2> QED BY <1>5, <2>1 DEF Kept
<1>7. Clean(st, t, g)
  BY <1>1, <1>2 DEF Clean
<1>8. Stretch(st, t, g)
  <2>1. g - 0 = g /\ \A p \in 1..Len(st) : ~ (g < p /\ p <= g)
    BY <1>4
  <2>2. t.state # "BODY_AQUISITION"
    BY <1>1
  <2> QED BY <1>1, <1>2, <2>1, <2>2 DEF Stretch
<1> QED BY <1>6, <1>7, <1>8

LEMMA FindKeeps ==
    ASSUME NEW st, WellSent(st), NEW s \in InputStream, NEW g, Aligned(st, s, g),
           NEW t, NEW n \in 0..Len(s.bytes) - 2, Finds(s, t, n), NEW E, NEW W,
           Kept(st, s, g, E, W), Stretch(st, s, g)
    PROVE  Kept(st, t, g, E, W) /\ Clean(st, t, g) /\ Stretch(st, t, g)
<1> DEFINE c == Consumed(s, g)
           d == Consumed(t, g)
<1>1. /\ d = c + n /\ Settled(t, g) = d
      /\ \A m \in Messages : \A p : Begins(st, m, p) => p <= c \/ p > d
      /\ s.state = "WAITING_MESSAGE_START" /\ t.state = "MESSAGE_AQUISITION"
      /\ t.offset = s.offset + n
  BY FindMoves
<1>2. c \in Nat /\ Settled(s, g) = c /\ s.offset \in Nat /\ Len(st) \in Nat /\ Len(s.bytes) \in Nat
  BY <1>1, AlignedFacts
<1>3. n \in Nat
  BY <1>2
<1>4. \A r \in 1..Len(st) : r \in Nat
  BY <1>2
<1>5. d - t.offset = c - s.offset
  BY <1>1, <1>2, <1>3
<1>6. \A m \in Messages \ Malformed, p \in 1..Len(st) : Begins(st, m, p) /\ p <= d => p <= c
  BY <1>1, <1>2, <1>3, <1>4
<1>7. Kept(st, t, g, E, W)
  BY <1>1, <1>2, <1>6 DEF Kept
<1>8. Clean(st, t, g)
  BY <1>1 DEF Clean
<1>9. Stretch(st, t, g)
  <2>1. /\ \A m \in Messages \ Malformed, p \in 1..Len(st) :
              ~ (Begins(st, m, p) /\ c - s.offset < p /\ p <= c)
        /\ Outside(st, c - s.offset) \/ Bad(st, c - s.offset)
    BY <1>1 DEF Stretch
  <2> HIDE DEF c, d
  <2>2. t.state # "BODY_AQUISITION"
    BY <1>1
  <2> QED BY <1>5, <1>6, <2>1, <2>2 DEF Stretch, d
<1> QED BY <1>7, <1>8, <1>9

LEMMA RefuseKeeps ==
    ASSUME NEW st, WellSent(st), NEW s \in InputStream, NEW g, Aligned(st, s, g),
           NEW t, NEW k \in Messages, NEW n \in 1..Len(s.bytes), Refuses(s, t, k, n),
           NEW E, NEW W, Kept(st, s, g, E, W), Stretch(st, s, g)
    PROVE  Kept(st, t, g, E, W) /\ Clean(st, t, g) /\ Stretch(st, t, g)
<1> DEFINE c == Consumed(s, g)
           d == Consumed(t, g)
<1>1. /\ d = c + 3 /\ Settled(t, g) = d
      /\ k \in Malformed /\ Begins(st, k, c + 1)
      /\ s.state = "MESSAGE_AQUISITION" /\ t.state = "WAITING_MESSAGE_START"
      /\ t.offset = s.offset + 3
  BY RefuseMoves
<1>2. c \in Nat /\ Settled(s, g) = c /\ s.offset \in Nat /\ Len(st) \in Nat
  BY <1>1, AlignedFacts
<1>3. Length(k) \in Nat /\ Length(k) >= 3
  BY LengthFacts
<1>4. d - t.offset = c - s.offset
  BY <1>1, <1>2
<1>5. ASSUME NEW m \in Messages \ Malformed, NEW p \in 1..Len(st), Begins(st, m, p), p <= d
      PROVE  p <= c
  <2> SUFFICES ASSUME ~ (p <= c)
               PROVE  FALSE
    OBVIOUS
  <2>1. p >= c + 1 /\ p <= c + 1 + Length(k) - 1
    BY <1>1, <1>2, <1>3, <1>5
  <2>2. m = k
    BY <1>1, <1>5, <2>1, Within
  <2> QED BY <1>1, <2>2
<1>6. Kept(st, t, g, E, W)
  BY <1>1, <1>2, <1>5 DEF Kept
<1>7. Bad(st, d)
  <2>1. st[c + 1] = <<k, "start">>
    BY <1>1 DEF Begins
  <2>2. c + 1 \in 1..d
    BY <1>1, <1>2
  <2> QED BY <1>1, <2>1, <2>2 DEF Bad
<1>8. Clean(st, t, g)
  BY <1>7 DEF Clean
<1>9. Stretch(st, t, g)
  <2>1. /\ \A m \in Messages \ Malformed, p \in 1..Len(st) :
              ~ (Begins(st, m, p) /\ c - s.offset < p /\ p <= c)
        /\ Outside(st, c - s.offset) \/ Bad(st, c - s.offset)
    BY <1>1 DEF Stretch
  <2> HIDE DEF c, d
  <2>2. t.state # "BODY_AQUISITION"
    BY <1>1
  <2> QED BY <1>4, <1>5, <2>1, <2>2 DEF Stretch, d
<1> QED BY <1>6, <1>8, <1>9

LEMMA TakeKeeps ==
    ASSUME NEW st, WellSent(st), NEW s \in InputStream, NEW g, Aligned(st, s, g),
           NEW t, NEW k \in Messages, NEW n \in 1..Len(s.bytes), Takes(s, t, k, n),
           NEW E, NEW W, Kept(st, s, g, E, W), Stretch(st, s, g)
    PROVE  Kept(st, t, g, E, W) /\ Clean(st, t, g) /\ Stretch(st, t, g)
<1> DEFINE c == Consumed(s, g)
           d == Consumed(t, g)
<1>1. /\ d = c + 3 /\ Settled(t, g) = c
      /\ Begins(st, k, c + 1)
      /\ s.state = "MESSAGE_AQUISITION" /\ t.state = "BODY_AQUISITION"
      /\ t.msg = k /\ t.body = <<>>
      /\ t.offset = s.offset + 3
  BY TakeMoves
<1>2. c \in Nat /\ Settled(s, g) = c /\ s.offset \in Nat /\ Len(st) \in Nat
  BY <1>1, AlignedFacts
<1>3. Length(k) \in Nat /\ Length(k) >= 3
  BY LengthFacts
<1>4. d - t.offset = c - s.offset
  BY <1>1, <1>2
<1>5. ASSUME NEW m \in Messages \ Malformed, NEW p \in 1..Len(st), Begins(st, m, p), p <= d,
             ~ (p <= c)
      PROVE  m = k
  <2>1. p >= c + 1 /\ p <= c + 1 + Length(k) - 1
    BY <1>1, <1>2, <1>3, <1>5
  <2> QED BY <1>1, <1>5, <2>1, Within
<1>6. Kept(st, t, g, E, W)
  BY <1>1, <1>2 DEF Kept
<1>7. Clean(st, t, g)
  BY <1>1 DEF Clean
<1>8. Stretch(st, t, g)
  <2>1. /\ \A m \in Messages \ Malformed, p \in 1..Len(st) :
              ~ (Begins(st, m, p) /\ c - s.offset < p /\ p <= c)
        /\ Outside(st, c - s.offset) \/ Bad(st, c - s.offset)
    BY <1>1 DEF Stretch
  <2> HIDE DEF c, d
  <2> QED BY <1>1, <1>4, <1>5, <2>1 DEF Stretch, d
<1> QED BY <1>6, <1>7, <1>8

LEMMA FeedKeeps ==
    ASSUME NEW st, WellSent(st), NEW s \in InputStream, NEW g, Aligned(st, s, g),
           NEW t \in InputStream, NEW n \in 1..Len(s.bytes), Feeds(s, t, n),
           NEW E, NEW W, Kept(st, s, g, E, W)
    PROVE  Kept(st, t, g, E, W) /\ Clean(st, t, g) /\ Stretch(st, t, g)
<1>1. /\ Aligned(st, t, g) /\ Settled(t, g) = Settled(s, g)
      /\ t.state = "BODY_AQUISITION" /\ t.offset = 0
  BY FeedMoves
<1>2. Consumed(t, g) \in Nat /\ Len(st) \in Nat
  BY <1>1, AlignedFacts
<1>3. Kept(st, t, g, E, W)
  BY <1>1 DEF Kept
<1>4. Clean(st, t, g)
  BY <1>1 DEF Clean
<1>5. Stretch(st, t, g)
  <2>1. /\ Consumed(t, g) - 0 = Consumed(t, g)
        /\ \A p \in 1..Len(st) : ~ (Consumed(t, g) < p /\ p <= Consumed(t, g))
    BY <1>2
  <2> QED BY <1>1, <2>1 DEF Stretch
<1> QED BY <1>3, <1>4, <1>5

LEMMA GiveKeeps ==
    ASSUME NEW st, WellSent(st), NEW s \in InputStream, NEW g, Aligned(st, s, g),
           NEW t, NEW k \in Messages, Gives(st, s, t, g, k), NEW E, E \in Seq(Entries),
           NEW W, Kept(st, s, g, E, W)
    PROVE  /\ Kept(st, t, g, Append(E, <<k, BodyOf(k)>>), W)
           /\ Clean(st, t, g) /\ Stretch(st, t, g)
<1> DEFINE q == Settled(s, g)
           e == Settled(t, g)
           x == <<k, BodyOf(k)>>
           F == Append(E, x)
<1>1. /\ Begins(st, k, q + 1) /\ q \in Nat
      /\ e = q + Length(k) /\ Consumed(t, g) = e
      /\ t.state = "WAITING_MESSAGE_START" /\ t.offset = 0
  BY DEF Gives
<1>2. Length(k) \in Nat /\ Length(k) >= 3
  BY LengthFacts
<1>3. Len(st) \in Nat
  BY AlignedFacts
<1>4. ASSUME NEW m \in Messages, NEW p \in 1..Len(st), Begins(st, m, p), p <= e, ~ (p <= q)
      PROVE  p = q + 1 /\ m = k
  <2>1. p >= q + 1 /\ p <= q + 1 + Length(k) - 1
    BY <1>1, <1>2, <1>3, <1>4
  <2> QED BY <1>1, <1>4, <2>1, Within
<1> HIDE DEF q, e
<1>5. /\ \A i \in 1..Len(E) : i \in 1..Len(F) /\ F[i] = E[i]
      /\ Len(E) + 1 \in 1..Len(F) /\ F[Len(E) + 1] = x
  <2>1. x \in Entries
    BY BodyFacts DEF Entries
  <2> HIDE DEF x
  <2> QED BY <2>1
<1>6. x[1] = k
  OBVIOUS
<1> HIDE DEF x, F
<1>7. Kept(st, t, g, F, W)
  <2> SUFFICES ASSUME NEW m \in Messages \ Malformed, NEW p \in 1..Len(st),
                      Begins(st, m, p), p <= e
               PROVE  \/ \E i \in 1..Len(F) : F[i][1] = m
                      \/ m \notin W /\ Bad(st, p)
    BY DEF Kept, e
  <2>1. CASE p <= q
    <3>1. \/ \E i \in 1..Len(E) : E[i][1] = m
          \/ m \notin W /\ Bad(st, p)
      BY <2>1 DEF Kept, q
    <3> QED BY <1>5, <3>1
  <2>2. CASE ~ (p <= q)
    BY <1>4, <1>5, <1>6, <2>2
  <2> QED BY <2>1, <2>2
<1>8. Outside(st, e)
  <2> SUFFICES ASSUME NEW m \in Messages, NEW p \in 1..Len(st), Begins(st, m, p), p <= e
               PROVE  p + Length(m) - 1 <= e
    BY DEF Outside
  <2>1. Length(m) \in Nat /\ p \in Nat
    BY <1>3, LengthFacts
  <2>2. CASE p <= q
    <3>1. p < q + 1
      BY <1>1, <2>1, <2>2
    <3>2. p + Length(m) - 1 < q + 1
      BY <1>1, <3>1, Apart
    <3> QED BY <1>1, <1>2, <2>1, <3>2
  <2>3. CASE ~ (p <= q)
    <3>1. p = q + 1 /\ m = k
      BY <1>4, <2>3
    <3> QED BY <1>1, <1>2, <3>1
  <2> QED BY <2>2, <2>3
<1>9. Clean(st, t, g)
  BY <1>1, <1>8 DEF Clean
<1>10. Stretch(st, t, g)
  <2>1. e - 0 = e /\ \A p \in 1..Len(st) : ~ (e < p /\ p <= e)
    BY <1>1, <1>2, <1>3
  <2>2. t.state # "BODY_AQUISITION"
    BY <1>1
  <2> QED BY <1>1, <1>8, <2>1, <2>2 DEF Stretch
<1> QED BY <1>7, <1>9, <1>10 DEF F, x

LEMMA TurnKeeps ==
    ASSUME NEW st, WellSent(st), NEW s \in InputStream, NEW g, Aligned(st, s, g), ~s.eos,
           NEW t, Turns(s, t), NEW D \in Seq(Entries), Given(st, s, g, D \o s.ready),
           NEW W, Kept(st, s, g, D \o s.ready, W), LinesRead(st, g, W),
           Clean(st, s, g), Stretch(st, s, g), Capacity > 1
    PROVE  Kept(st, t, g, D \o t.ready, W) /\ Clean(st, t, g) /\ Stretch(st, t, g)
<1> DEFINE E == D \o s.ready
           P == Kept(st, t, g, D \o t.ready, W) /\ Clean(st, t, g) /\ Stretch(st, t, g)
<1>0. Kept(st, s, g, E, W) /\ t \in InputStream
  BY TurnsTypes
<1>1. t.ready = s.ready => D \o t.ready = E
  OBVIOUS
<1>2. E \in Seq(Entries)
  <2>1. s.ready \in Seq(Entries)
    BY StreamFields DEF Entries
  <2> QED BY <2>1
<1>3. ASSUME NEW m \in Messages, Gives(st, s, t, g, m)
      PROVE  P
  <2>1. Out(D, t) = More(Out(D, s), m)
    BY <1>3, GivesLast
  <2>3. D \o t.ready = Append(E, <<m, BodyOf(m)>>)
    BY <2>1 DEF Out, More
  <2> HIDE DEF E
  <2>2. /\ Kept(st, t, g, Append(E, <<m, BodyOf(m)>>), W)
        /\ Clean(st, t, g) /\ Stretch(st, t, g)
    BY <1>0, <1>2, <1>3, GiveKeeps
  <2> QED BY <2>2, <2>3
<1> HIDE DEF E
<1>4. ASSUME Trashes(s, t)
      PROVE  P
  <2>1. t.ready = s.ready
    BY <1>4, TrashMoves
  <2>2. Kept(st, t, g, E, W) /\ Clean(st, t, g) /\ Stretch(st, t, g)
    BY <1>0, <1>4, TrashKeeps
  <2> QED BY <1>1, <2>1, <2>2
<1>5. ASSUME NEW n \in 0..Len(s.bytes) - 2, Finds(s, t, n)
      PROVE  P
  <2>1. t.ready = s.ready
    BY <1>5, FindMoves
  <2>2. Kept(st, t, g, E, W) /\ Clean(st, t, g) /\ Stretch(st, t, g)
    BY <1>0, <1>5, FindKeeps
  <2> QED BY <1>1, <2>1, <2>2
<1>6. ASSUME NEW n \in 1..Len(s.bytes), NEW m \in Messages, Refuses(s, t, m, n)
      PROVE  P
  <2>1. t.ready = s.ready
    BY <1>6, RefuseMoves
  <2>2. Kept(st, t, g, E, W) /\ Clean(st, t, g) /\ Stretch(st, t, g)
    BY <1>0, <1>6, RefuseKeeps
  <2> QED BY <1>1, <2>1, <2>2
<1>7. ASSUME NEW n \in 1..Len(s.bytes), NEW m \in Messages, Takes(s, t, m, n)
      PROVE  P
  <2>1. t.ready = s.ready
    BY <1>7, TakeMoves
  <2>2. Kept(st, t, g, E, W) /\ Clean(st, t, g) /\ Stretch(st, t, g)
    BY <1>0, <1>7, TakeKeeps
  <2> QED BY <1>1, <2>1, <2>2
<1>8. ASSUME NEW n \in 1..Len(s.bytes), NEW m \in Messages, Completes(s, t, m, n)
      PROVE  P
  BY <1>3, <1>8, CompleteMoves
<1>9. ASSUME NEW n \in 1..Len(s.bytes), Feeds(s, t, n)
      PROVE  P
  <2>1. t.ready = s.ready
    BY <1>9, FeedMoves
  <2>2. Kept(st, t, g, E, W) /\ Clean(st, t, g) /\ Stretch(st, t, g)
    BY <1>0, <1>9, FeedKeeps
  <2> QED BY <1>1, <2>1, <2>2
<1>10. ASSUME NEW n \in 1..Len(s.bytes), Finishes(s, t, n)
       PROVE  P
  BY <1>3, <1>10, FinishMoves
<1> HIDE DEF P
<1>11. P
  BY <1>4, <1>5, <1>6, <1>7, <1>8, <1>9, <1>10 DEF Turns
<1> QED BY <1>11 DEF P

-----------------------------------------------------------------------------
(***************************************************************************)
(* The invariant.                                                          *)
(***************************************************************************)
KeptInv ==
    /\ Kept(stream, input, got, delivered, wholeLines)
    /\ LinesRead(stream, got, wholeLines)
    /\ Clean(stream, input, got)
    /\ Stretch(stream, input, got)

\* What the loop goes through then.
Retained(st, g, D, W) ==
    {s \in Parsed(st, g, D) : /\ Kept(st, s, g, D \o s.ready, W)
                              /\ Clean(st, s, g) /\ Stretch(st, s, g)}

LEMMA RetainedCloses ==
    ASSUME NEW st, WellSent(st), NEW g, NEW D \in Seq(Entries), NEW W, LinesRead(st, g, W),
           Capacity > 1
    PROVE  /\ Retained(st, g, D, W) \in SUBSET InputStream
           /\ \A s \in Retained(st, g, D, W) : \A t :
                 Turns(s, t) => t \in Retained(st, g, D, W)
<1>1. Retained(st, g, D, W) \in SUBSET InputStream
  BY DEF Retained, Parsed
<1>2. ASSUME NEW s \in Retained(st, g, D, W), NEW t, Turns(s, t)
      PROVE  t \in Retained(st, g, D, W)
  <2>1. /\ s \in Parsed(st, g, D) /\ s \in InputStream /\ ~s.eos
        /\ Aligned(st, s, g) /\ Given(st, s, g, D \o s.ready)
        /\ Kept(st, s, g, D \o s.ready, W) /\ Clean(st, s, g) /\ Stretch(st, s, g)
    BY DEF Retained, Parsed
  <2>2. t \in Parsed(st, g, D)
    BY <1>2, <2>1, ParsedCloses
  <2>3. Kept(st, t, g, D \o t.ready, W) /\ Clean(st, t, g) /\ Stretch(st, t, g)
    BY <1>2, <2>1, TurnKeeps
  <2> QED BY <2>2, <2>3 DEF Retained
<1> QED BY <1>1, <1>2

LEMMA KeptInit == Init => KeptInv
<1> SUFFICES ASSUME Init
             PROVE  KeptInv
  OBVIOUS
<1>1. ParserInv
  BY ParserInit
<1>2. /\ stream = <<>> /\ got = 0 /\ wholeLines = {} /\ Len(stream) = 0
      /\ input.offset = 0 /\ Len(input.bytes) = 0
  <2>1. input.bytes = <<>> /\ input.offset = 0 /\ stream = <<>> /\ got = 0 /\ wholeLines = {}
    BY DEF Init
  <2> QED BY <2>1
<1>3. Consumed(input, got) = 0
  BY ONLY <1>2 DEF Consumed
<1>4. \A p \in 1..Len(stream) : FALSE
  BY <1>2
<1>5. Outside(stream, 0)
  BY <1>4 DEF Outside
<1>6. Outside(stream, Consumed(input, got) - input.offset)
  BY ONLY <1>2, <1>3, <1>5
<1>7. Clean(stream, input, got)
  BY <1>2, <1>3, <1>5 DEF Clean
<1>8. Stretch(stream, input, got)
  <2>1. input.state # "BODY_AQUISITION"
    BY DEF Init
  <2> QED BY <1>4, <1>6, <2>1 DEF Stretch
<1>9. Kept(stream, input, got, delivered, wholeLines) /\ LinesRead(stream, got, wholeLines)
  BY <1>2, <1>4 DEF Kept, LinesRead
<1> QED BY <1>7, <1>8, <1>9 DEF KeptInv

\* A first line that came in one read begins in it.
LEMMA LinesInRead ==
    ASSUME NEW st, WellSent(st), NEW g \in Nat, NEW n \in Nat, g + n <= Len(st),
           NEW m \in LinesIn(SubSeq(st, g + 1, g + n))
    PROVE  m \in Messages /\ \E p \in 1..Len(st) : Begins(st, m, p) /\ g < p /\ p < g + n
<1> DEFINE pieces == SubSeq(st, g + 1, g + n)
<1>1. st \in Seq(Pieces) /\ Len(st) \in Nat
  BY DEF WellSent
<1>2. DOMAIN pieces = 1..n /\ \A i \in 1..n : pieces[i] = st[g + i] /\ g + i \in 1..Len(st)
  <2>1. pieces \in Seq(Pieces) /\ Len(pieces) = n
    BY <1>1
  <2>2. \A i \in 1..n : pieces[i] = st[g + i] /\ g + i \in 1..Len(st)
    BY <1>1
  <2> HIDE DEF pieces
  <2> QED BY <2>1, <2>2
<1> HIDE DEF pieces
<1>3. /\ m \in Messages
      /\ \E i \in 1..n : pieces[i] = <<m, "start">>
      /\ \E i \in 1..n : pieces[i] = <<m, "line">>
  BY <1>2 DEF LinesIn, pieces
<1>4. PICK i \in 1..n : st[g + i] = <<m, "start">> /\ g + i \in 1..Len(st)
  BY <1>2, <1>3
<1>5. PICK j \in 1..n : st[g + j] = <<m, "line">> /\ g + j \in 1..Len(st)
  BY <1>2, <1>3
<1>6. Begins(st, m, g + i)
  BY <1>4 DEF Begins
<1>7. Begins(st, m, g + j - 1)
  <2>1. \A k \in 1..Len(st) : st[k] = <<m, "line">> => Begins(st, m, k - 1)
    BY <1>3 DEF WellSent, Placed
  <2> QED BY <1>5, <2>1
<1>8. g + i = g + j - 1
  BY <1>3, <1>6, <1>7, BeginsOnce
<1>9. g < g + i /\ g + i < g + n
  BY <1>8
<1> QED BY <1>3, <1>4, <1>6, <1>9

LEMMA ReadRetains ==
    ASSUME ParserInv, KeptInv, NEW n \in 1..Capacity, Read(n)
    PROVE  /\ Extended(input, stream, got, n)
                 \in Retained(stream, got + n, delivered, wholeLines')
           /\ LinesRead(stream, got + n, wholeLines')
<1> DEFINE s == Extended(input, stream, got, n)
<1>1. /\ s \in Parsed(stream, got + n, delivered)
      /\ delivered \in Seq(Entries)
      /\ Consumed(s, got + n) = Consumed(input, got)
      /\ Settled(s, got + n) = Settled(input, got)
      /\ s.state = input.state /\ s.msg = input.msg /\ s.body = input.body
      /\ s.offset = input.offset /\ s.ready = <<>>
      /\ got \in Nat /\ n \in Nat
  BY ReadStarts
<1> HIDE DEF s
<1>2. /\ input \in InputStream /\ WellSent(stream) /\ Aligned(stream, input, got)
  BY DEF ParserInv
<1>3. /\ Kept(stream, input, got, delivered, wholeLines)
      /\ LinesRead(stream, got, wholeLines)
      /\ Clean(stream, input, got) /\ Stretch(stream, input, got)
  BY DEF KeptInv
<1>4. /\ Len(stream) \in Nat /\ Settled(input, got) \in Int
      /\ Settled(input, got) <= Consumed(input, got)
      /\ Consumed(input, got) \in Nat /\ Consumed(input, got) <= got
  BY <1>2, AlignedFacts
<1>5. /\ got + n <= Len(stream)
      /\ wholeLines' = wholeLines \cup LinesIn(SubSeq(stream, got + 1, got + n))
  <2>1. n <= Len(stream) - got
        /\ wholeLines' = wholeLines \cup LinesIn(SubSeq(stream, got + 1, got + n))
    BY DEF Read
  <2> QED BY <1>1, <1>4, <2>1
<1>6. \A m \in LinesIn(SubSeq(stream, got + 1, got + n)) :
         m \in Messages /\ \E p \in 1..Len(stream) : Begins(stream, m, p) /\ got < p /\ p < got + n
  BY <1>1, <1>2, <1>5, LinesInRead
<1>7. LinesRead(stream, got + n, wholeLines')
  <2> SUFFICES ASSUME NEW m \in wholeLines'
               PROVE  m \in Messages /\ \E p \in 1..Len(stream) : Begins(stream, m, p) /\ p < got + n
    BY DEF LinesRead
  <2>1. CASE m \in wholeLines
    <3>1. PICK p \in 1..Len(stream) : Begins(stream, m, p) /\ p < got
      BY <1>3, <2>1 DEF LinesRead
    <3>2. p < got + n
      BY <1>1, <1>4, <3>1
    <3> QED BY <1>3, <2>1, <3>1, <3>2 DEF LinesRead
  <2>2. CASE m \notin wholeLines
    BY <1>5, <1>6, <2>2
  <2> QED BY <2>1, <2>2
<1>8. Kept(stream, s, got + n, delivered, wholeLines')
  <2> SUFFICES ASSUME NEW m \in Messages \ Malformed, NEW p \in 1..Len(stream),
                      Begins(stream, m, p), p <= Settled(input, got)
               PROVE  \/ \E i \in 1..Len(delivered) : delivered[i][1] = m
                      \/ m \notin wholeLines' /\ Bad(stream, p)
    BY <1>1 DEF Kept
  <2>1. \/ \E i \in 1..Len(delivered) : delivered[i][1] = m
        \/ m \notin wholeLines /\ Bad(stream, p)
    BY <1>3 DEF Kept
  <2>2. ASSUME m \in LinesIn(SubSeq(stream, got + 1, got + n))
        PROVE  FALSE
    <3>1. PICK q \in 1..Len(stream) : Begins(stream, m, q) /\ got < q
      BY <1>6, <2>2
    <3>2. p = q
      BY <1>2, <3>1, BeginsOnce
    <3> QED BY <1>1, <1>4, <3>1, <3>2
  <2> QED BY <1>5, <2>1, <2>2
<1>9. Kept(stream, s, got + n, delivered \o s.ready, wholeLines')
  <2>1. delivered \o <<>> = delivered
    BY <1>1
  <2> QED BY <1>1, <1>8, <2>1
<1>10. Clean(stream, s, got + n)
  BY <1>1, <1>3 DEF Clean
<1>11. Stretch(stream, s, got + n)
  BY <1>1, <1>3 DEF Stretch
<1> QED BY <1>1, <1>7, <1>9, <1>10, <1>11 DEF Retained, s

LEMMA KeptStreamGrows ==
    ASSUME ParserInv, KeptInv, WellSent(stream'), Longer(stream, stream'),
           UNCHANGED <<input, got, delivered, wholeLines>>
    PROVE  KeptInv'
<1>1. /\ input \in InputStream /\ WellSent(stream) /\ Aligned(stream, input, got)
  BY DEF ParserInv
<1>2. /\ Kept(stream', input, got, delivered, wholeLines)
      /\ LinesRead(stream', got, wholeLines)
      /\ Clean(stream', input, got) /\ Stretch(stream', input, got)
  BY <1>1, LongerKeeps DEF KeptInv
<1> QED BY <1>2 DEF KeptInv

LEMMA KeptNext ==
    ASSUME Capacity > 1, ParserInv, KeptInv, [Next]_vars
    PROVE  KeptInv'
<1>1. /\ input \in InputStream /\ WellSent(stream) /\ Aligned(stream, input, got)
  BY DEF ParserInv
<1>2. ASSUME NEW m \in Messages, PeerSends(m)
      PROVE  KeptInv'
  <2>1. /\ \A i \in 1..Len(stream) : stream[i][1] # m
        /\ stream' = stream \o PiecesOf(m)
        /\ UNCHANGED <<input, got, delivered, wholeLines>>
    <3>1. DOMAIN stream = 1..Len(stream)
      BY <1>1 DEF WellSent
    <3> QED BY <1>2, <3>1 DEF PeerSends
  <2>2. WellSent(stream') /\ Longer(stream, stream')
    BY <1>1, <2>1, MessageSent
  <2> QED BY <2>1, <2>2, KeptStreamGrows
<1>3. CASE PeerKeepsAlive
  <2>1. /\ stream' = Append(stream, KeepAlive)
        /\ UNCHANGED <<input, got, delivered, wholeLines>>
    BY <1>3 DEF PeerKeepsAlive
  <2>2. WellSent(stream') /\ Longer(stream, stream')
    BY <1>1, <2>1, KeepAliveSent
  <2> QED BY <2>1, <2>2, KeptStreamGrows
<1>4. CASE PeerCloses \/ UNCHANGED vars
  <2>1. UNCHANGED <<input, stream, got, delivered, wholeLines>>
    BY <1>4 DEF PeerCloses, vars
  <2>2. WellSent(stream') /\ Longer(stream, stream')
    <3>1. Len(stream) \in Nat
      BY <1>1 DEF WellSent
    <3> QED BY <1>1, <2>1, <3>1 DEF Longer
  <2> QED BY <2>1, <2>2, KeptStreamGrows
<1>5. ASSUME NEW n \in 1..Capacity, Read(n)
      PROVE  KeptInv'
  <2> DEFINE s == Extended(input, stream, got, n)
             W == wholeLines'
             I == Retained(stream, got + n, delivered, W)
  <2>1. s \in I /\ LinesRead(stream, got + n, W)
    BY <1>5, ReadRetains
  <2>2. /\ delivered \in Seq(Entries) /\ got' = got + n /\ ProcessStream(s)
    BY <1>5, ReadStarts
  <2> HIDE DEF W
  <2>3. I \in SUBSET InputStream /\ \A r \in I : \A t : Turns(r, t) => t \in I
    BY <1>1, <2>1, <2>2, RetainedCloses
  <2> HIDE DEF s, I
  <2>4. PICK p \in I : Alike(p, input') /\ delivered' = delivered \o p.ready
    BY <2>1, <2>2, <2>3, Processed
  <2>5. Kept(stream, p, got', delivered', W) /\ Clean(stream, p, got') /\ Stretch(stream, p, got')
    BY <2>2, <2>4 DEF I, Retained
  <2>6. /\ Kept(stream, input', got', delivered', W)
        /\ Clean(stream, input', got') /\ Stretch(stream, input', got')
    BY <2>4, <2>5, AlikeKeeps
  <2>7. stream' = stream
    BY <1>5 DEF Read
  <2> QED BY <2>1, <2>2, <2>6, <2>7 DEF KeptInv, W
<1>6. CASE ReadNothing
  <2>1. /\ Alike(input, input') /\ delivered' = delivered
        /\ UNCHANGED <<stream, got, wholeLines>>
    BY <1>6, ReadNothingIs
  <2>2. /\ Kept(stream, input', got, delivered, wholeLines)
        /\ Clean(stream, input', got) /\ Stretch(stream, input', got)
    BY <2>1, AlikeKeeps DEF KeptInv
  <2> QED BY <2>1, <2>2 DEF KeptInv
<1> QED BY <1>2, <1>3, <1>4, <1>5, <1>6 DEF Next

LEMMA KeptInvariant == Capacity > 1 => (Spec => [](ParserInv /\ KeptInv))
<1> SUFFICES ASSUME Capacity > 1
             PROVE  Spec => [](ParserInv /\ KeptInv)
  OBVIOUS
<1>1. Init => ParserInv /\ KeptInv
  BY ParserInit, KeptInit
<1>2. ParserInv /\ KeptInv /\ [Next]_vars => ParserInv' /\ KeptInv'
  BY ParserNext, KeptNext
<1> QED BY <1>1, <1>2, PTL DEF Spec

\* What arrived whole is settled, once the parser rests.
LEMMA ArrivedIsSettled ==
    ASSUME ParserInv, NEW m \in Messages, NEW p \in 1..Len(stream), Begins(stream, m, p),
           p + Length(m) - 1 <= got
    PROVE  p <= Settled(input, got)
<1> DEFINE q == Settled(input, got)
           c == Consumed(input, got)
<1>1. /\ input \in InputStream /\ WellSent(stream) /\ Aligned(stream, input, got)
      /\ Rests(input)
  BY DEF ParserInv
<1>2. /\ c \in Nat /\ got \in Nat /\ Len(stream) \in Nat
      /\ Len(input.bytes) \in Nat /\ got = c + Len(input.bytes)
      /\ q \in Int /\ q <= c
      /\ input.state # "BODY_AQUISITION" => q = c
      /\ input.state = "BODY_AQUISITION" => q = c - 3 - Len(input.body)
      /\ \A i \in 1..Len(input.bytes) : input.bytes[i] = stream[c + i]
  BY <1>1, AlignedFacts
<1>3. Length(m) \in Nat /\ Length(m) >= 3
  BY LengthFacts
<1>4. stream[p + 1] = <<m, "line">> /\ stream[p + 2] = <<m, "headers">>
  BY <1>1 DEF WellSent, Whole
<1>5. /\ input.state \in InputStates /\ input.bytes \in Seq(Pieces)
      /\ DOMAIN input.bytes = 1..Len(input.bytes) /\ Len(input.body) \in Nat
      /\ Len(input.body) < BodyLength
      /\ input.bytes = <<>> => Len(input.bytes) = 0
  BY <1>1, StreamFields
<1> SUFFICES ASSUME ~ (p <= q)
             PROVE  FALSE
  OBVIOUS
<1>6. CASE input.state = "BODY_AQUISITION"
  <2> DEFINE k == input.msg
  <2>1. k \in WithBody /\ Begins(stream, k, q + 1) /\ input.bytes = <<>>
    BY <1>1, <1>6 DEF Aligned, Rests
  <2>2. k \in Messages
    BY <2>1, ChannelInputAssumption
  <2> HIDE DEF k, q, c
  <2>3. Length(k) = 3 + BodyLength /\ BodyLength \in Nat
    BY <2>1, <2>2, LengthFacts
  <2> DEFINE b == Len(input.body)
  <2>4. /\ b \in Nat /\ b < BodyLength /\ c \in Nat /\ q \in Int /\ got \in Nat
        /\ got = c /\ q = c - 3 - b /\ p \in Nat
        /\ p + Length(m) - 1 <= got /\ ~ (p <= q)
    <3>1. Len(input.bytes) = 0
      BY <1>5, <2>1
    <3> QED BY <1>2, <1>5, <1>6, <3>1
  <2> HIDE DEF b
  <2>5. p >= q + 1 /\ p <= q + 1 + Length(k) - 1
    BY ONLY <1>3, <2>3, <2>4
  <2>6. p = q + 1 /\ m = k
    BY <1>1, <2>1, <2>2, <2>5, Within
  <2>7. Length(m) = 3 + BodyLength
    BY <2>3, <2>6
  <2> QED BY ONLY <2>3, <2>4, <2>6, <2>7
<1>7. CASE input.state # "BODY_AQUISITION"
  <2>1. q = c
    BY <1>2, <1>7
  <2> HIDE DEF q, c
  <2>2. p + 2 <= got /\ c < p
    BY <1>2, <1>3, <2>1
  <2> DEFINE i == p + 1 - c
             j == p + 2 - c
  <2>3. /\ i \in 1..Len(input.bytes) /\ j \in 1..Len(input.bytes)
        /\ c + i = p + 1 /\ c + j = p + 2
    BY <1>2, <2>2
  <2> HIDE DEF i, j
  <2>4. input.bytes[i] = <<m, "line">> /\ input.bytes[j] = <<m, "headers">>
    BY <1>2, <1>4, <2>3
  <2>5. MayHoldLine(input)
    BY <1>5, <2>3, <2>4 DEF MayHoldLine
  <2>6. input.bytes # <<>>
    BY <1>2, <1>5, <2>3
  <2> QED BY <1>1, <1>7, <2>3, <2>4, <2>5, <2>6 DEF Rests
<1> QED BY <1>6, <1>7

LEMMA KeptDelivers == ParserInv /\ KeptInv => ArrivedIsDelivered
<1> SUFFICES ASSUME ParserInv, KeptInv, NEW m \in Messages \ Malformed, Arrived(m),
                    \/ m \in wholeLines
                    \/ \A i \in 1..StartOf(m) : stream[i][1] \notin Malformed \cup {NoMessage}
             PROVE  Delivered(m)
  BY DEF ArrivedIsDelivered
<1>1. WellSent(stream) /\ Given(stream, input, got, delivered)
  BY DEF ParserInv
<1>2. PICK p \in 1..Len(stream) : Begins(stream, m, p)
  BY <1>1, SentBegins DEF Arrived
<1>3. StartOf(m) = p /\ EndOf(m) = p + Length(m) - 1
  BY <1>1, <1>2, StartIs
<1>4. p + Length(m) - 1 <= got
  BY <1>3 DEF Arrived
<1>5. p <= Settled(input, got)
  BY <1>2, <1>4, ArrivedIsSettled
<1>6. \/ \E i \in 1..Len(delivered) : delivered[i][1] = m
      \/ m \notin wholeLines /\ Bad(stream, p)
  BY <1>2, <1>5 DEF KeptInv, Kept
<1>7. ~ (m \notin wholeLines /\ Bad(stream, p))
  BY <1>3 DEF Bad
<1>8. DOMAIN delivered = 1..Len(delivered)
  BY <1>1 DEF Given
<1> QED BY <1>6, <1>7, <1>8 DEF Delivered

\* A message that arrived whole, its first line in one read or nothing to be
\* trashed before it, was delivered, wherever the reads cut the stream: in a
\* buffer of more than one piece, what is thrown away is never part of it
\* (get_message_start_pos, belle_sip_channel_parse_stream).
THEOREM InputArrivedIsDelivered == Capacity > 1 => (Spec => []ArrivedIsDelivered)
<1> SUFFICES ASSUME Capacity > 1
             PROVE  Spec => []ArrivedIsDelivered
  OBVIOUS
<1>1. Spec => [](ParserInv /\ KeptInv)
  BY KeptInvariant
<1> QED BY <1>1, KeptDelivers, PTL

-----------------------------------------------------------------------------
(***************************************************************************)
(* The buffer does not fill up: what is consumed and keeps its room is     *)
(* keep alives, refused messages, and what is left of one message.         *)
(***************************************************************************)
AtMost(S, n) == IsFiniteSet(S) /\ Cardinality(S) \in Nat /\ Cardinality(S) <= n

LEMMA AtMostTogether ==
    ASSUME NEW S, NEW a \in Nat, AtMost(S, a), NEW T, NEW b \in Nat, AtMost(T, b)
    PROVE  AtMost(S \cup T, a + b)
<1>1. /\ IsFiniteSet(S) /\ Cardinality(S) \in Nat /\ Cardinality(S) <= a
      /\ IsFiniteSet(T) /\ Cardinality(T) \in Nat /\ Cardinality(T) <= b
  BY DEF AtMost
<1>2. /\ IsFiniteSet(S \cup T)
      /\ Cardinality(S \cup T) = Cardinality(S) + Cardinality(T) - Cardinality(S \cap T)
  BY <1>1, FS_Union
<1>3. IsFiniteSet(S \cap T)
  BY <1>1, FS_Subset
<1>4. Cardinality(S \cup T) \in Nat /\ Cardinality(S \cap T) \in Nat
  BY <1>2, <1>3, FS_CardinalityType
<1>5. Cardinality(S \cup T) <= a + b
  BY ONLY <1>1, <1>2, <1>4, a \in Nat, b \in Nat
<1> QED BY <1>2, <1>4, <1>5 DEF AtMost

LEMMA AtMostWithin ==
    ASSUME NEW S, NEW a, AtMost(S, a), NEW T \in SUBSET S
    PROVE  IsFiniteSet(T) /\ Cardinality(T) \in Nat /\ Cardinality(T) <= Cardinality(S)
BY FS_Subset, FS_CardinalityType DEF AtMost

LEMMA AtMostInterval ==
    ASSUME NEW a \in Int, NEW b \in Int, NEW n \in Nat, b - a + 1 <= n, NEW T \in SUBSET (a..b)
    PROVE  AtMost(T, n)
<1>1. /\ IsFiniteSet(a..b)
      /\ Cardinality(a..b) = IF a > b THEN 0 ELSE b - a + 1
  BY FS_Interval
<1>2. /\ IsFiniteSet(T) /\ Cardinality(T) \in Nat /\ Cardinality(T) <= Cardinality(a..b)
  BY <1>1, FS_Subset, FS_CardinalityType
<1>3. Cardinality(a..b) <= n
  BY <1>1
<1>4. Cardinality(a..b) \in Nat
  BY <1>1, FS_CardinalityType
<1>5. Cardinality(T) <= n
  BY ONLY <1>2, <1>3, <1>4, n \in Nat
<1> QED BY <1>2, <1>5 DEF AtMost

\* The pieces of what is refused.
Refused(st) == {i \in 1..Len(st) : st[i][1] \in Malformed}

LEMMA RefusedAtMost ==
    ASSUME NEW st, WellSent(st), IsFiniteSet(Malformed)
    PROVE  AtMost(Refused(st), Cardinality(Malformed) * (3 + BodyLength))
<1> DEFINE First(m) == CHOOSE p \in 1..Len(st) : Begins(st, m, p)
           R == Refused(st)
           T == Malformed \X (0..2 + BodyLength)
           f == [i \in R |-> <<st[i][1], i - First(st[i][1])>>]
<1>1. Len(st) \in Nat /\ BodyLength \in Nat
  BY LengthFacts, ChannelInputAssumption DEF WellSent
<1>2. ASSUME NEW i \in R
      PROVE  /\ i \in Nat /\ st[i][1] \in Malformed
             /\ First(st[i][1]) \in Nat
             /\ i - First(st[i][1]) \in 0..2 + BodyLength
  <2>1. i \in 1..Len(st) /\ st[i][1] \in Malformed
    BY DEF Refused
  <2>2. st[i] # KeepAlive
    BY <2>1, ChannelInputAssumption DEF KeepAlive
  <2>3. PICK m \in Messages, p \in 1..Len(st) :
           Begins(st, m, p) /\ st[i][1] = m /\ p <= i /\ i <= p + Length(m) - 1
    BY <2>1, <2>2, Belongs
  <2>4. First(m) \in 1..Len(st) /\ Begins(st, m, First(m))
    BY <2>3
  <2>5. First(m) = p
    BY <2>3, <2>4, BeginsOnce
  <2> HIDE DEF First
  <2>6. Length(m) \in Nat /\ Length(m) <= 3 + BodyLength
    BY LengthFacts
  <2> QED BY <1>1, <2>1, <2>3, <2>5, <2>6
<1> HIDE DEF First, R
<1>3. f \in [R -> T]
  BY <1>2
<1>4. ASSUME NEW i \in R, NEW j \in R, f[i] = f[j]
      PROVE  i = j
  <2>1. st[i][1] = st[j][1] /\ i - First(st[i][1]) = j - First(st[j][1])
    BY <1>4
  <2> QED BY <1>2, <2>1
<1>5. f \in Injection(R, T)
  <2> HIDE DEF f, T
  <2> QED BY <1>3, <1>4 DEF Injection, IsInjective
<1>6. IsFiniteSet(T) /\ Cardinality(T) = Cardinality(Malformed) * (3 + BodyLength)
  <2>1. /\ IsFiniteSet(0..2 + BodyLength)
        /\ Cardinality(0..2 + BodyLength) = 3 + BodyLength
    <3>1. 0 \in Int /\ 2 + BodyLength \in Int
      BY <1>1
    <3>2. /\ IsFiniteSet(0..2 + BodyLength)
          /\ Cardinality(0..2 + BodyLength) =
                IF 0 > 2 + BodyLength THEN 0 ELSE (2 + BodyLength) - 0 + 1
      BY <3>1, FS_Interval
    <3> QED BY <1>1, <3>2
  <2> QED BY <2>1, FS_Product
<1> HIDE DEF f, T
<1>7. IsFiniteSet(R) /\ Cardinality(R) <= Cardinality(T)
  BY <1>5, <1>6, FS_Injection
<1>8. Cardinality(R) \in Nat
  BY <1>7, FS_CardinalityType
<1> QED BY <1>6, <1>7, <1>8 DEF AtMost, R

\* What is left behind the n-th piece of the message that goes over it.
Rest(st, n) ==
    {i \in 1..Len(st) : n < i /\ \E m \in Messages, p \in 1..Len(st) :
                                    Begins(st, m, p) /\ p <= n /\ i <= p + Length(m) - 1}

LEMMA RestAtMost ==
    ASSUME NEW st, WellSent(st), NEW n \in Nat
    PROVE  /\ AtMost(Rest(st, n), 2 + BodyLength)
           /\ Outside(st, n) => Rest(st, n) = {}
<1>1. Len(st) \in Nat /\ BodyLength \in Nat
  BY ChannelInputAssumption DEF WellSent
<1>2. CASE Rest(st, n) = {}
  <2>1. AtMost({}, 2 + BodyLength)
    BY <1>1, FS_EmptySet DEF AtMost
  <2> QED BY <1>2, <2>1
<1>3. CASE Rest(st, n) # {}
  <2>1. PICK j \in Rest(st, n) : TRUE
    BY <1>3
  <2>2. PICK m \in Messages, p \in 1..Len(st) :
           Begins(st, m, p) /\ p <= n /\ n < j /\ j \in 1..Len(st) /\ j <= p + Length(m) - 1
    BY DEF Rest
  <2>3. Length(m) \in Nat /\ Length(m) <= 3 + BodyLength /\ p \in Nat /\ j \in Nat
    BY <1>1, <2>2, LengthFacts
  <2>4. ~Outside(st, n)
    <3>1. ~ (p + Length(m) - 1 <= n)
      BY <2>2, <2>3
    <3> QED BY <2>2, <3>1 DEF Outside
  <2>5. ASSUME NEW i \in Rest(st, n)
        PROVE  i \in p + 1..p + 2 + BodyLength
    <3>1. PICK k \in Messages, q \in 1..Len(st) :
             Begins(st, k, q) /\ q <= n /\ n < i /\ i \in 1..Len(st) /\ i <= q + Length(k) - 1
      BY DEF Rest
    <3>2. Length(k) \in Nat /\ q \in Nat /\ i \in Nat
      BY <1>1, <3>1, LengthFacts
    <3>3. ~ (p < q)
      <4> SUFFICES ASSUME p < q
                   PROVE  FALSE
        OBVIOUS
      <4>1. p + Length(m) - 1 < q
        BY <2>2, <3>1, Apart
      <4> QED BY <2>2, <2>3, <3>1, <3>2, <4>1
    <3>4. ~ (q < p)
      <4> SUFFICES ASSUME q < p
                   PROVE  FALSE
        OBVIOUS
      <4>1. q + Length(k) - 1 < p
        BY <2>2, <3>1, Apart
      <4> QED BY <2>2, <2>3, <3>1, <3>2, <4>1
    <3>5. q = p
      BY <2>3, <3>2, <3>3, <3>4
    <3>6. k = m
      BY <2>2, <3>1, <3>5, BeginsOnce
    <3> QED BY <1>1, <2>2, <2>3, <3>1, <3>2, <3>5, <3>6
  <2>6. AtMost(Rest(st, n), 2 + BodyLength)
    <3>1. /\ p + 1 \in Int /\ p + 2 + BodyLength \in Int /\ 2 + BodyLength \in Nat
          /\ (p + 2 + BodyLength) - (p + 1) + 1 <= 2 + BodyLength
      BY <1>1, <2>3
    <3>2. Rest(st, n) \in SUBSET (p + 1..p + 2 + BodyLength)
      BY <2>5
    <3> QED BY <3>1, <3>2, AtMostInterval
  <2> QED BY <2>4, <2>6
<1> QED BY <1>2, <1>3

KeepAlivesOf(st) == {i \in 1..Len(st) : st[i] = KeepAlive}

RefusedPieces == Cardinality(Malformed) * (3 + BodyLength)

LEMMA RefusedPiecesNat ==
    ASSUME IsFiniteSet(Malformed)
    PROVE  RefusedPieces \in Nat
<1>1. Cardinality(Malformed) \in Nat /\ 3 + BodyLength \in Nat
  BY FS_CardinalityType, ChannelInputAssumption
<1>2. \A a, b \in Nat : a * b \in Nat
  OBVIOUS
<1> QED BY ONLY <1>1, <1>2 DEF RefusedPieces

\* What is consumed since the buffer was rewound: garbage, the rest of a
\* message begun before, and the headers of the one whose body is acquired.
LEMMA ConsumedIs ==
    ASSUME NEW st, WellSent(st), NEW s \in InputStream, NEW g, Aligned(st, s, g),
           Stretch(st, s, g), s.offset # 0,
           NEW i \in Base(s, g) + 1..Consumed(s, g)
    PROVE  \/ i \in KeepAlivesOf(st) \cup Refused(st) \cup Rest(st, Base(s, g))
           \/ s.state = "BODY_AQUISITION" /\ i \in Consumed(s, g) - 2..Consumed(s, g)
<1> DEFINE c == Consumed(s, g)
           r == Base(s, g)
<1>1. /\ c \in Nat /\ g \in Nat /\ Len(st) \in Nat /\ g <= Len(st)
      /\ s.offset \in Nat /\ s.offset <= c /\ Len(s.bytes) \in Nat /\ g = c + Len(s.bytes)
      /\ s.state = "BODY_AQUISITION" => Settled(s, g) = c - 3 - Len(s.body)
  BY AlignedFacts
<1>2. r = c - s.offset
  BY DEF Base
<1>3. /\ \A m \in Messages \ Malformed, p \in 1..Len(st) :
            Begins(st, m, p) /\ r < p /\ p <= c => s.state = "BODY_AQUISITION" /\ m = s.msg
      /\ s.state = "BODY_AQUISITION" => s.body = <<>>
  BY <1>2 DEF Stretch
<1>4. s.state = "BODY_AQUISITION" => Begins(st, s.msg, Settled(s, g) + 1)
  BY DEF Aligned
<1>5. i \in 1..Len(st) /\ i \in Nat /\ r < i /\ i <= c
  BY <1>1, <1>2
<1>6. CASE st[i] = KeepAlive
  BY <1>5, <1>6 DEF KeepAlivesOf
<1>7. CASE st[i] # KeepAlive
  <2>1. PICK m \in Messages, p \in 1..Len(st) :
           Begins(st, m, p) /\ st[i][1] = m /\ p <= i /\ i <= p + Length(m) - 1
    BY <1>5, <1>7, Belongs
  <2>2. p \in Nat
    BY <1>1
  <2>3. CASE m \in Malformed
    BY <1>5, <2>1, <2>3 DEF Refused
  <2>4. CASE p <= r
    BY <1>5, <2>1, <2>4 DEF Rest
  <2>5. CASE m \notin Malformed /\ ~ (p <= r)
    <3>0. r \in Nat
      BY <1>1, <1>2
    <3> HIDE DEF r, c
    <3>1. r < p /\ p <= c
      BY <1>1, <1>5, <2>1, <2>2, <2>5, <3>0
    <3>2. s.state = "BODY_AQUISITION" /\ m = s.msg /\ s.body = <<>>
      BY <1>3, <2>1, <2>5, <3>1
    <3>3. Len(s.body) = 0
      BY <3>2
    <3>4. Settled(s, g) + 1 = c - 2
      BY <1>1, <3>2, <3>3
    <3>5. p = Settled(s, g) + 1
      BY <1>4, <2>1, <3>2, BeginsOnce
    <3>6. i \in c - 2..c
      BY ONLY <1>1, <1>5, <2>1, <2>2, <3>4, <3>5
    <3> QED BY <3>2, <3>6 DEF c
  <2> QED BY <2>3, <2>4, <2>5
<1> QED BY <1>6, <1>7

LEMMA OffsetAtMost ==
    ASSUME NEW st, WellSent(st), NEW s \in InputStream, NEW g, Aligned(st, s, g),
           Stretch(st, s, g), IsFiniteSet(Malformed),
           AtMost(KeepAlivesOf(st), MaxKeepAlives)
    PROVE  /\ s.offset <= 4 + BodyLength + MaxKeepAlives + RefusedPieces
           /\ s.state # "BODY_AQUISITION" =>
                 s.offset <= 1 + BodyLength + MaxKeepAlives + RefusedPieces
<1> DEFINE c == Consumed(s, g)
           r == Base(s, g)
           S == r + 1..c
           U == KeepAlivesOf(st) \cup Refused(st)
           Z == Rest(st, r)
           T == IF s.state = "BODY_AQUISITION" THEN c - 2..c ELSE {}
           tail == IF s.state = "BODY_AQUISITION" THEN 3 ELSE 0
<1>1. /\ c \in Nat /\ g \in Nat /\ Len(st) \in Nat /\ c <= g /\ g <= Len(st)
      /\ s.offset \in Nat /\ s.offset <= c
  <2>1. /\ c \in Nat /\ g \in Nat /\ Len(st) \in Nat /\ g <= Len(st)
        /\ s.offset \in Nat /\ s.offset <= c
        /\ Len(s.bytes) \in Nat /\ g = c + Len(s.bytes)
    BY AlignedFacts
  <2> HIDE DEF c
  <2> QED BY <2>1
<1>2. r = c - s.offset /\ r \in Nat
  BY <1>1 DEF Base
<1>3. BodyLength \in Nat /\ MaxKeepAlives \in Nat /\ RefusedPieces \in Nat
  BY ChannelInputAssumption, RefusedPiecesNat
<1>4. AtMost(U, MaxKeepAlives + RefusedPieces)
  <2>1. AtMost(Refused(st), RefusedPieces)
    BY RefusedAtMost DEF RefusedPieces
  <2> QED BY <1>3, <2>1, AtMostTogether
<1>5. AtMost(Z, 2 + BodyLength) /\ (Outside(st, r) => Z = {})
  BY <1>2, RestAtMost
<1>6. AtMost(T, tail) /\ tail \in Nat
  <2>1. AtMost({}, 0)
    BY FS_EmptySet DEF AtMost
  <2>2. AtMost(c - 2..c, 3)
    <3>1. c - 2 \in Int /\ c \in Int /\ 3 \in Nat /\ c - (c - 2) + 1 <= 3
      BY <1>1
    <3> HIDE DEF c
    <3> QED BY <3>1, AtMostInterval
  <2> HIDE DEF c
  <2> QED BY <2>1, <2>2
<1>7. IsFiniteSet(S) /\ Cardinality(S) = s.offset
  <2>1. r + 1 \in Int /\ c \in Int
    BY <1>1, <1>2
  <2>2. /\ IsFiniteSet(r + 1..c)
        /\ Cardinality(r + 1..c) = IF r + 1 > c THEN 0 ELSE c - (r + 1) + 1
    BY <2>1, FS_Interval
  <2> HIDE DEF c, r
  <2> QED BY <1>1, <1>2, <2>2
<1>8. s.offset # 0 => \A i \in S : i \in U \cup Z \cup T
  BY ConsumedIs
<1>9. s.offset # 0 /\ Z # {} => \E j \in U : j \notin S
  <2> SUFFICES ASSUME s.offset # 0, Z # {}
               PROVE  \E j \in U : j \notin S
    OBVIOUS
  <2>1. Bad(st, c - s.offset)
    <3>1. ~Outside(st, c - s.offset)
      BY <1>2, <1>5
    <3> QED BY <3>1 DEF Stretch
  <2>2. PICK j \in 1..r : st[j][1] \in Malformed \cup {NoMessage}
    BY <1>2, <2>1 DEF Bad
  <2>3. j \in 1..Len(st) /\ j \notin S
    <3>1. j \in 1..r
      OBVIOUS
    <3> HIDE DEF c, r
    <3>2. j \in Nat /\ 1 <= j /\ j <= r /\ r <= c
      BY <1>1, <1>2, <3>1
    <3>3. j <= Len(st)
      BY ONLY <1>1, <1>2, <3>2
    <3>4. j \notin r + 1..c
      BY ONLY <1>1, <1>2, <3>2
    <3> QED BY <1>1, <3>2, <3>3, <3>4
  <2>4. st[j][1] = NoMessage => st[j] = KeepAlive
    <3>1. \A m \in Messages : m # NoMessage
      BY ChannelInputAssumption
    <3> QED BY <2>3, <3>1, PieceFacts
  <2>5. j \in U
    BY <2>2, <2>3, <2>4 DEF KeepAlivesOf, Refused
  <2> QED BY <2>3, <2>5
<1> HIDE DEF c, r, S, U, Z, T
<1>10. CASE s.offset = 0
  BY <1>3, <1>10
<1>11. CASE s.offset # 0 /\ Z = {}
  <2>1. AtMost(U \cup T, (MaxKeepAlives + RefusedPieces) + tail)
    <3> HIDE DEF tail
    <3>1. MaxKeepAlives + RefusedPieces \in Nat
      BY <1>3
    <3> QED BY <1>4, <1>6, <3>1, AtMostTogether
  <2>2. S \in SUBSET (U \cup T)
    BY <1>8, <1>11
  <2>3. Cardinality(S) <= Cardinality(U \cup T) /\ Cardinality(S) \in Nat
    BY <2>1, <2>2, AtMostWithin
  <2>4. /\ Cardinality(U \cup T) <= (MaxKeepAlives + RefusedPieces) + tail
        /\ Cardinality(U \cup T) \in Nat
    BY <2>1 DEF AtMost
  <2>5. s.offset <= (MaxKeepAlives + RefusedPieces) + tail
    BY ONLY <1>3, <1>6, <1>7, <2>3, <2>4
  <2>6. CASE s.state = "BODY_AQUISITION"
    BY <1>1, <1>3, <2>5, <2>6
  <2>7. CASE s.state # "BODY_AQUISITION"
    BY <1>1, <1>3, <2>5, <2>7
  <2> QED BY <2>6, <2>7
<1>12. CASE s.offset # 0 /\ Z # {}
  <2> DEFINE V == U \cup Z \cup T
             n == ((MaxKeepAlives + RefusedPieces) + (2 + BodyLength)) + tail
  <2>1. AtMost(V, n)
    <3> HIDE DEF tail
    <3>1. MaxKeepAlives + RefusedPieces \in Nat /\ 2 + BodyLength \in Nat
      BY <1>3
    <3>2. AtMost(U \cup Z, (MaxKeepAlives + RefusedPieces) + (2 + BodyLength))
      BY <1>4, <1>5, <3>1, AtMostTogether
    <3>3. (MaxKeepAlives + RefusedPieces) + (2 + BodyLength) \in Nat
      BY <3>1
    <3> QED BY <1>6, <3>2, <3>3, AtMostTogether
  <2>2. PICK j \in U : j \notin S
    BY <1>9, <1>12
  <2>3. S \cup {j} \in SUBSET V
    BY <1>8, <1>12, <2>2
  <2> HIDE DEF V
  <2>4. /\ Cardinality(S \cup {j}) <= Cardinality(V) /\ Cardinality(S \cup {j}) \in Nat
    BY <2>1, <2>3, AtMostWithin
  <2>5. Cardinality(S \cup {j}) = s.offset + 1
    BY <1>7, <2>2, FS_AddElement
  <2>6. Cardinality(V) <= n /\ Cardinality(V) \in Nat
    BY <2>1 DEF AtMost
  <2>7. s.offset + 1 <= n
    BY ONLY <1>1, <1>3, <1>6, <2>4, <2>5, <2>6
  <2>8. CASE s.state = "BODY_AQUISITION"
    BY <1>1, <1>3, <2>7, <2>8
  <2>9. CASE s.state # "BODY_AQUISITION"
    BY <1>1, <1>3, <2>7, <2>9
  <2> QED BY <2>8, <2>9
<1> QED BY <1>10, <1>11, <1>12

\* The buffer holds the rest of a message, the headers of the next one and
\* all that can be trashed, and one piece more.
RoomEnough ==
    /\ IsFiniteSet(Malformed)
    /\ Capacity > 4 + BodyLength + MaxKeepAlives + RefusedPieces

FewKeepAlives == AtMost(KeepAlivesOf(stream), MaxKeepAlives)

LEMMA RoomLeft ==
    ASSUME RoomEnough, ParserInv, KeptInv, FewKeepAlives
    PROVE  Room(input) # 0
<1> DEFINE l == Len(input.bytes)
           c == Consumed(input, got)
<1>1. /\ input \in InputStream /\ WellSent(stream) /\ Aligned(stream, input, got)
      /\ Rests(input) /\ Stretch(stream, input, got)
  BY DEF ParserInv, KeptInv
<1>2. /\ l \in Nat /\ input.offset \in Nat /\ c \in Nat /\ got \in Nat /\ got = c + l
      /\ \A i \in 1..l : input.bytes[i] = stream[c + i]
  BY <1>1, AlignedFacts
<1>3. /\ Capacity \in Nat /\ BodyLength \in Nat /\ MaxKeepAlives \in Nat /\ RefusedPieces \in Nat
      /\ Capacity > 4 + BodyLength + MaxKeepAlives + RefusedPieces
  BY ChannelInputAssumption, RefusedPiecesNat DEF RoomEnough
<1>4. /\ input.offset <= 4 + BodyLength + MaxKeepAlives + RefusedPieces
      /\ input.state # "BODY_AQUISITION" =>
            input.offset <= 1 + BodyLength + MaxKeepAlives + RefusedPieces
  BY <1>1, OffsetAtMost DEF RoomEnough, FewKeepAlives
<1>5. Room(input) = Capacity - input.offset - l
  BY DEF Room
<1>6. CASE input.bytes = <<>>
  <2>1. l = 0
    BY <1>6
  <2> HIDE DEF l
  <2> QED BY <1>2, <1>3, <1>4, <1>5, <2>1
<1>7. CASE input.state = "WAITING_MESSAGE_START" /\ ~MayHoldLine(input)
  BY <1>7 DEF MayHoldLine
<1>8. CASE /\ input.state = "MESSAGE_AQUISITION"
           /\ \A i \in 1..Len(input.bytes) : input.bytes[i][2] # "headers"
  <2>1. PICK m \in Messages : Begins(stream, m, c + 1)
    BY <1>1, <1>8 DEF Aligned
  <2>2. stream[c + 3] = <<m, "headers">>
    <3>1. stream[(c + 1) + 2] = <<m, "headers">>
      BY <1>1, <2>1 DEF WellSent, Whole, Begins
    <3>2. (c + 1) + 2 = c + 3
      BY <1>2
    <3> QED BY <3>1, <3>2
  <2>3. 3 \notin 1..l
    BY <1>2, <1>8, <2>2
  <2>4. input.state # "BODY_AQUISITION"
    BY <1>8
  <2> HIDE DEF l, c
  <2> QED BY <1>2, <1>3, <1>4, <1>5, <2>3, <2>4
<1> QED BY <1>1, <1>6, <1>7, <1>8 DEF Rests

LEMMA FewKeepAlivesNext ==
    ASSUME ParserInv, FewKeepAlives, [Next]_vars
    PROVE  FewKeepAlives'
<1>1. WellSent(stream) /\ stream \in Seq(Pieces) /\ Len(stream) \in Nat
      /\ DOMAIN stream = 1..Len(stream)
  BY DEF ParserInv, WellSent
<1>2. ASSUME NEW m \in Messages, PeerSends(m)
      PROVE  FewKeepAlives'
  <2>1. stream' = stream \o PiecesOf(m)
    BY <1>2 DEF PeerSends
  <2>2. /\ PiecesOf(m) \in Seq(Pieces) /\ Len(PiecesOf(m)) = Length(m) /\ Length(m) \in Nat
        /\ \A i \in 1..Length(m) : PiecesOf(m)[i] # KeepAlive
    <3>1. m # NoMessage
      BY ChannelInputAssumption
    <3>2. \A i \in 1..Length(m) : PiecesOf(m)[i] # KeepAlive
      BY <3>1, PieceOfMessage DEF KeepAlive
    <3> QED BY <3>2, PiecesFacts, LengthFacts
  <2> DEFINE w == PiecesOf(m)
  <2> HIDE DEF w
  <2>3. /\ Len(stream') = Len(stream) + Len(w)
        /\ \A i \in 1..Len(stream) : stream'[i] = stream[i]
        /\ \A i \in 1..Len(w) : stream'[Len(stream) + i] = w[i]
    <3>1. w \in Seq(Pieces) /\ stream' = stream \o w
      BY <2>1, <2>2 DEF w
    <3> QED BY <1>1, <3>1
  <2>4. Len(w) \in Nat /\ \A i \in 1..Len(w) : w[i] # KeepAlive
    BY <2>2 DEF w
  <2>5. ASSUME NEW i \in 1..Len(stream')
        PROVE  (i \in 1..Len(stream) /\ stream'[i] = stream[i]) \/ stream'[i] # KeepAlive
    <3>1. CASE i \in 1..Len(stream)
      BY <2>3, <3>1
    <3>2. CASE i \notin 1..Len(stream)
      <4>1. i - Len(stream) \in 1..Len(w) /\ Len(stream) + (i - Len(stream)) = i
        BY <1>1, <2>3, <2>4, <3>2
      <4>2. stream'[Len(stream) + (i - Len(stream))] # KeepAlive
        BY <2>3, <2>4, <4>1
      <4> QED BY <4>1, <4>2
    <3> QED BY <3>1, <3>2
  <2>6. KeepAlivesOf(stream') \in SUBSET KeepAlivesOf(stream)
    BY <2>5 DEF KeepAlivesOf
  <2>7. AtMost(KeepAlivesOf(stream'), MaxKeepAlives)
    <3>1. /\ IsFiniteSet(KeepAlivesOf(stream')) /\ Cardinality(KeepAlivesOf(stream')) \in Nat
          /\ Cardinality(KeepAlivesOf(stream')) <= Cardinality(KeepAlivesOf(stream))
      BY <2>6, AtMostWithin DEF FewKeepAlives
    <3>2. /\ Cardinality(KeepAlivesOf(stream)) \in Nat /\ MaxKeepAlives \in Nat
          /\ Cardinality(KeepAlivesOf(stream)) <= MaxKeepAlives
      BY ChannelInputAssumption DEF FewKeepAlives, AtMost
    <3>3. Cardinality(KeepAlivesOf(stream')) <= MaxKeepAlives
      BY ONLY <3>1, <3>2
    <3> QED BY <3>1, <3>3 DEF AtMost
  <2> QED BY <2>7 DEF FewKeepAlives
<1>3. CASE PeerKeepsAlive
  <2>1. /\ stream' = Append(stream, KeepAlive) /\ Cardinality(KeepAlives) < MaxKeepAlives
    BY <1>3 DEF PeerKeepsAlive
  <2>2. KeepAlives = KeepAlivesOf(stream)
    BY <1>1 DEF KeepAlives, KeepAlivesOf
  <2>3. KeepAlivesOf(stream') = KeepAlivesOf(stream) \cup {Len(stream) + 1}
    <3>1. /\ Len(stream') = Len(stream) + 1 /\ stream'[Len(stream) + 1] = KeepAlive
          /\ \A i \in 1..Len(stream) : stream'[i] = stream[i]
      <4>1. KeepAlive \in Pieces
        BY DEF Pieces
      <4> QED BY <1>1, <2>1, <4>1
    <3>2. 1..Len(stream) + 1 = (1..Len(stream)) \cup {Len(stream) + 1}
      BY <1>1
    <3> QED BY <3>1, <3>2 DEF KeepAlivesOf
  <2>4. /\ IsFiniteSet(KeepAlivesOf(stream)) /\ Cardinality(KeepAlivesOf(stream)) \in Nat
        /\ Cardinality(KeepAlivesOf(stream)) < MaxKeepAlives /\ MaxKeepAlives \in Nat
    BY <2>1, <2>2, ChannelInputAssumption DEF FewKeepAlives, AtMost
  <2>5. Len(stream) + 1 \notin KeepAlivesOf(stream)
    BY <1>1 DEF KeepAlivesOf
  <2>6. /\ IsFiniteSet(KeepAlivesOf(stream'))
        /\ Cardinality(KeepAlivesOf(stream')) = Cardinality(KeepAlivesOf(stream)) + 1
    BY <2>3, <2>4, <2>5, FS_AddElement
  <2>7. AtMost(KeepAlivesOf(stream'), MaxKeepAlives)
    BY <2>4, <2>6 DEF AtMost
  <2> QED BY <2>7 DEF FewKeepAlives
<1>4. CASE stream' = stream
  BY <1>4 DEF FewKeepAlives
<1>5. CASE PeerCloses \/ (\E n \in 1..Capacity : Read(n)) \/ ReadNothing \/ UNCHANGED vars
  BY <1>4, <1>5 DEF PeerCloses, Read, ReadNothing, vars
<1> QED BY <1>2, <1>3, <1>5 DEF Next

LEMMA ClosedByPeerOnlyNext ==
    ASSUME RoomEnough, ParserInv, KeptInv, FewKeepAlives, ClosedByPeerOnly, [Next]_vars
    PROVE  ClosedByPeerOnly'
<1>1. CASE ReadNothing
  <2>1. Room(input) # 0
    BY RoomLeft
  <2>2. peerClosed /\ peerClosed' = peerClosed
    BY <1>1, <2>1 DEF ReadNothing
  <2> QED BY <2>2 DEF ClosedByPeerOnly
<1>2. CASE PeerCloses
  BY <1>2 DEF PeerCloses, ClosedByPeerOnly
<1>3. CASE UNCHANGED <<open, peerClosed>>
  BY <1>3 DEF ClosedByPeerOnly
<1>4. CASE \/ \E m \in Messages : PeerSends(m)
           \/ PeerKeepsAlive
           \/ \E n \in 1..Capacity : Read(n)
           \/ UNCHANGED vars
  BY <1>3, <1>4 DEF PeerSends, PeerKeepsAlive, Read, vars
<1> QED BY <1>1, <1>2, <1>4 DEF Next

\* As long as the buffer holds the rest of one message, the headers of the
\* next one and all that is trashed between them, the channel is closed by
\* the peer only: recv() is never asked for nothing
\* (belle_sip_channel_process_read_data, belle_sip_channel_input_stream_rewind).
THEOREM InputClosedByPeerOnly == RoomEnough => (Spec => []ClosedByPeerOnly)
<1> SUFFICES ASSUME RoomEnough
             PROVE  Spec => []ClosedByPeerOnly
  OBVIOUS
<1> DEFINE IInv == ParserInv /\ KeptInv /\ FewKeepAlives /\ ClosedByPeerOnly
<1>1. Capacity > 1
  <2>1. /\ Capacity \in Nat /\ BodyLength \in Nat /\ MaxKeepAlives \in Nat /\ RefusedPieces \in Nat
        /\ Capacity > 4 + BodyLength + MaxKeepAlives + RefusedPieces
    BY ChannelInputAssumption, RefusedPiecesNat DEF RoomEnough
  <2> QED BY ONLY <2>1
<1>2. Init => IInv
  <2>1. Init => FewKeepAlives
    <3> SUFFICES ASSUME Init
                 PROVE  FewKeepAlives
      OBVIOUS
    <3>1. Len(stream) = 0
      <4>1. stream = <<>>
        BY DEF Init
      <4> QED BY <4>1
    <3>2. KeepAlivesOf(stream) = {}
      BY <3>1 DEF KeepAlivesOf
    <3> QED BY <3>2, FS_EmptySet, ChannelInputAssumption DEF FewKeepAlives, AtMost
  <2>2. Init => ClosedByPeerOnly
    BY DEF Init, ClosedByPeerOnly
  <2> QED BY <2>1, <2>2, ParserInit, KeptInit
<1>3. IInv /\ [Next]_vars => IInv'
  <2> SUFFICES ASSUME IInv, [Next]_vars
               PROVE  IInv'
    OBVIOUS
  <2>1. ParserInv'
    BY ParserNext
  <2>2. KeptInv'
    BY <1>1, KeptNext
  <2>3. FewKeepAlives' /\ ClosedByPeerOnly'
    BY FewKeepAlivesNext, ClosedByPeerOnlyNext
  <2> QED BY <2>1, <2>2, <2>3
<1>4. IInv => ClosedByPeerOnly
  OBVIOUS
<1> HIDE DEF IInv
<1> QED BY <1>2, <1>3, <1>4, PTL DEF Spec
=============================================================================
