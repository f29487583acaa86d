------------------------------ MODULE Wire_proofs ------------------------------
(***************************************************************************)
(* Whose bytes a query returns, and what becomes of the frames of a        *)
(* stream: proofs for replies of any length, any number of transactions    *)
(* and frames, any buffer and every overflow policy.                       *)
(***************************************************************************)
EXTENDS Wire, SequenceTheorems, WellFoundedInduction, TLAPS

-----------------------------------------------------------------------------
(* The places of a sequence.                                              *)

\* What a Tail does to places.
LEMMA TailPlaces ==
    ASSUME NEW S, NEW q \in Seq(S), q # << >>
    PROVE  /\ Len(q) \in Nat /\ Len(q) > 0 /\ q[1] = Head(q)
           /\ DOMAIN Tail(q) = 1..(Len(q) - 1)
           /\ \A i \in 1..(Len(q) - 1) : Tail(q)[i] = q[i + 1]
<1>1. Len(q) \in Nat /\ Len(q) > 0
  BY EmptySeq
<1>2. Tail(q) \in Seq(S) /\ Len(Tail(q)) = Len(q) - 1
  BY HeadTailProperties
<1> QED
  BY <1>1, <1>2, HeadTailProperties, LenProperties

\* What an Append does to places.
LEMMA AppendPlaces ==
    ASSUME NEW S, NEW q \in Seq(S), NEW e \in S
    PROVE  /\ Len(q) \in Nat /\ DOMAIN q = 1..Len(q)
           /\ DOMAIN Append(q, e) = 1..(Len(q) + 1)
           /\ \A i \in 1..(Len(q) + 1) : Append(q, e)[i] = IF i <= Len(q) THEN q[i] ELSE e
<1>1. Append(q, e) \in Seq(S) /\ Len(Append(q, e)) = Len(q) + 1
  BY AppendProperties
<1>2. Len(q) \in Nat /\ DOMAIN q = 1..Len(q) /\ DOMAIN Append(q, e) = 1..(Len(q) + 1)
  BY <1>1, LenProperties
<1>3. ASSUME NEW i \in 1..(Len(q) + 1)
      PROVE  Append(q, e)[i] = IF i <= Len(q) THEN q[i] ELSE e
  <2>1. CASE i <= Len(q)
    BY <2>1, <1>2, AppendProperties
  <2>2. CASE i = Len(q) + 1
    BY <2>2, <1>2, AppendProperties
  <2> QED
    BY <2>1, <2>2, <1>2
<1> QED
  BY <1>2, <1>3

\* Where the elements of a concatenation come from.
LEMMA ConcatPlaces ==
    ASSUME NEW S, NEW a \in Seq(S), NEW b \in Seq(S)
    PROVE  /\ a \o b \in Seq(S) /\ Len(a) \in Nat /\ Len(b) \in Nat
           /\ Len(a \o b) = Len(a) + Len(b)
           /\ \A i \in 1..Len(a) : (a \o b)[i] = a[i]
           /\ \A i \in 1..Len(b) : (a \o b)[Len(a) + i] = b[i]
<1>1. /\ a \o b \in Seq(S) /\ Len(a \o b) = Len(a) + Len(b)
      /\ Len(a) \in Nat /\ Len(b) \in Nat
      /\ \A i \in 1..(Len(a) + Len(b)) :
            (a \o b)[i] = IF i <= Len(a) THEN a[i] ELSE b[i - Len(a)]
  BY ConcatProperties, LenProperties
<1>2. ASSUME NEW i \in 1..Len(a) PROVE (a \o b)[i] = a[i]
  <2>1. i \in 1..(Len(a) + Len(b)) /\ i <= Len(a)
    BY <1>1
  <2> QED
    BY <2>1, <1>1
<1>3. ASSUME NEW i \in 1..Len(b) PROVE (a \o b)[Len(a) + i] = b[i]
  <2>1. Len(a) + i \in 1..(Len(a) + Len(b)) /\ ~(Len(a) + i <= Len(a)) /\ Len(a) + i - Len(a) = i
    BY <1>1
  <2> QED
    BY <2>1, <1>1
<1> QED
  BY <1>1, <1>2, <1>3

\* An element that moves from the head of one to the end of another keeps its place.
LEMMA MoveOne ==
    ASSUME NEW S, NEW a \in Seq(S), NEW b \in Seq(S), b # <<>>
    PROVE  /\ Append(a, Head(b)) \in Seq(S) /\ Tail(b) \in Seq(S)
           /\ Append(a, Head(b)) \o Tail(b) = a \o b
<1>1. /\ Head(b) \in S /\ Tail(b) \in Seq(S) /\ b = <<Head(b)>> \o Tail(b)
  BY HeadTailProperties, ConcatProperties, EmptySeq, ConcatSimplifications
<1>2. Append(a, Head(b)) = a \o <<Head(b)>> /\ <<Head(b)>> \in Seq(S)
  BY <1>1, AppendIsConcat
<1> QED
  BY <1>1, <1>2, ConcatAssociative, AppendProperties

LEMMA AppendToSecond ==
    ASSUME NEW S, NEW a \in Seq(S), NEW b \in Seq(S), NEW e \in S
    PROVE  a \o Append(b, e) = Append(a \o b, e)
<1>1. a \o b \in Seq(S)
  BY ConcatProperties
<1>2. Append(b, e) = b \o <<e>> /\ Append(a \o b, e) = (a \o b) \o <<e>>
  BY <1>1, AppendIsConcat
<1>3. <<e>> \in Seq(S)
  OBVIOUS
<1> QED
  BY <1>2, <1>3, ConcatAssociative

\* A set of numbers that is not empty has a least one.
LEMMA NatMin ==
    ASSUME NEW T, T \subseteq Nat, T # {}
    PROVE  \E x \in T : \A y \in T : x <= y
<1> DEFINE R == OpToRel(<, Nat)
<1>1. IsWellFoundedOn(R, Nat)
  BY NatLessThanWellFounded
<1> HIDE DEF R
<1>2. PICK x \in T : \A y \in T : ~(<<y, x>> \in R)
  BY <1>1, WFMin
<1>3. \A y \in T : y < x => <<y, x>> \in R
  BY DEF R, OpToRel
<1>4. \A y \in T : ~(y < x)
  BY <1>2, <1>3
<1>5. \A y \in T : x <= y
  <2> TAKE y \in T
  <2>1. ~(y < x)
    BY <1>4
  <2> QED
    BY <2>1
<1> QED
  BY <1>5

-----------------------------------------------------------------------------
(* The inductive invariant.                                                *)

Pieces == [of : {"reply", "reject", "frame"}, n : Nat, k : Nat, eol : BOOLEAN]

\* What is under way, from the next piece a read returns to the last the device sends.
Way == buf \o (rx \o owed)

Typed ==
    /\ cfg.policy \in {"block", "drop_oldest", "drop_newest"}
    /\ step \in {"idle", "write", "read", "settle", "stream", "failed", "drain"}
    /\ cmd.n \in Nat /\ cmd.reply.lines \in Nat \ {0}
    /\ owed \in Seq(Pieces) /\ rx \in Seq(Pieces) /\ push \in Seq(Pieces) /\ buf \in Seq(Pieces)
    /\ lines \in Seq(Seq(Pieces))
    /\ left \in BOOLEAN /\ clean \in BOOLEAN
    /\ frames \in [sent : Nat, made : Seq(Nat), dropped : Nat]
    /\ queue \in Seq(Nat) /\ taken \in Seq(Nat)

\* Where pieces may be, and when none are.
Places ==
    /\ step \in {"idle", "write", "settle", "drain"} => buf = <<>>
    /\ step \in {"read", "stream", "failed"} => push = <<>>
    /\ step = "idle" /\ ~left => owed = <<>> /\ rx = <<>> /\ push = <<>>
    /\ step \in {"write", "read", "settle"} => clean \/ left

\* The piece number i of the reply to command n.
Piece(n, i) == Line("reply", n, (i + 1) \div 2)[2 - (i % 2)]

\* The lines a query has are the first ones of its reply, the rest is under way.
Answering ==
    /\ \A k \in 1..Len(lines) : lines[k] = Line("reply", cmd.n, k)
    /\ Len(lines) <= cmd.reply.lines
    /\ Len(Way) = 2 * (cmd.reply.lines - Len(lines))
    /\ \A i \in 1..Len(Way) : Way[i] = Piece(cmd.n, 2 * Len(lines) + i)

Asked ==
    clean =>
        /\ step = "write" => owed = <<>> /\ rx = <<>> /\ push = <<>> /\ lines = <<>>
        /\ step = "read" =>
            \/ lines = <<>> /\ (Way = <<>> \/ Way = Rejection(cmd.n))
            \/ Answering

\* Frames that are under way come after all that were taken from the wire, in order.
IsFrame(p) == p.of = "frame"
Numbered(s, m) == \A i \in 1..Len(s) : IsFrame(s[i]) => s[i].n \in 1..m
Increasing(s) == \A i, j \in 1..Len(s) :
    i < j /\ IsFrame(s[i]) /\ IsFrame(s[j]) /\ s[i].eol /\ s[j].eol => s[i].n < s[j].n
Newer(s, m) == \A i \in 1..Len(s) : IsFrame(s[i]) /\ s[i].eol => m < s[i].n

AtMost(s, m) == \A i \in 1..Len(s) : s[i] <= m

\* The device's own frames among those the producer made.
Ordered(made) == \A i, j \in 1..Len(made) : i < j /\ made[i] # 0 /\ made[j] # 0 => made[i] < made[j]

InOrder ==
    /\ Numbered(owed, frames.sent) /\ Numbered(rx, frames.sent)
    /\ Numbered(push, frames.sent) /\ Numbered(buf, frames.sent)
    /\ AtMost(frames.made, frames.sent) /\ Ordered(frames.made)
    /\ step = "stream" =>
        Increasing(Way) /\ \A p \in 1..Len(frames.made) : Newer(Way, frames.made[p])

\* The piece number i of what the device pushes from the start of a stream.
FramePiece(i) == Line("frame", (i + 1) \div 2, 1)[2 - (i % 2)]

\* A stream that began clean: the frames made are the device's first ones, the others it
\* sent are under way.
Unmixed ==
    clean =>
        /\ step = "stream" =>
            /\ Len(frames.made) <= frames.sent
            /\ Len(Way) = 2 * (frames.sent - Len(frames.made))
            /\ \A i \in 1..Len(Way) : Way[i] = FramePiece(2 * Len(frames.made) + i)
        /\ step \in {"stream", "failed"} =>
            \A p \in 1..Len(frames.made) : frames.made[p] = p

\* What the consumer has and can have.
Got == taken \o queue
Ascending(s) == \A i, j \in 1..Len(s) : i < j => s[i] < s[j]

Consumed ==
    /\ Ascending(Got) /\ AtMost(Got, Len(frames.made))
    /\ Len(Got) + frames.dropped <= Len(frames.made)
    /\ cfg.policy = "block" => frames.dropped = 0
    /\ step = "stream" =>
        /\ Len(Got) + frames.dropped = Len(frames.made)
        /\ cfg.policy = "drop_oldest" /\ Len(frames.made) > 0 =>
            Len(Got) > 0 /\ Got[Len(Got)] = Len(frames.made)
        /\ Len(queue) <= Capacity + (IF cfg.policy = "block" THEN 1 ELSE 0)

WireInv ==
    Typed /\ Places /\ Asked /\ AnswersMatch /\ InOrder /\ Unmixed /\ Consumed

-----------------------------------------------------------------------------
(* Lines.                                                                  *)

\* The end of the first line is the first piece that ends one.
LEMMA EndOfLine ==
    ASSUME NEW s \in Seq(Pieces), HasLine(s)
    PROVE  /\ EndOf(s) \in 1..Len(s) /\ s[EndOf(s)].eol
           /\ \A k \in 1..(EndOf(s) - 1) : ~s[k].eol
<1>1. DOMAIN s = 1..Len(s) /\ Len(s) \in Nat
  BY LenProperties
<1> DEFINE T == {i \in DOMAIN s : s[i].eol}
<1>2. T \subseteq Nat /\ T # {}
  BY <1>1 DEF HasLine
<1>3. PICK x \in T : \A y \in T : x <= y
  BY <1>2, NatMin
<1>4. x \in DOMAIN s /\ s[x].eol /\ \A k \in 1..(x - 1) : ~s[k].eol
  <2>1. x \in DOMAIN s /\ s[x].eol /\ x \in 1..Len(s)
    BY <1>1
  <2>2. ASSUME NEW k \in 1..(x - 1), s[k].eol PROVE FALSE
    <3>1. k \in DOMAIN s /\ k < x
      BY <1>1, <2>1
    <3>2. k \in T
      BY <3>1, <2>2
    <3>3. x <= k
      BY <3>2, <1>3
    <3> QED
      BY <3>1, <3>3, <2>1
  <2> QED
    BY <2>1, <2>2
<1>5. /\ EndOf(s) \in DOMAIN s /\ s[EndOf(s)].eol
      /\ \A k \in 1..(EndOf(s) - 1) : ~s[k].eol
  BY <1>4 DEF EndOf
<1> QED
  BY <1>5, <1>1

\* The first line and the rest.
LEMMA CutLine ==
    ASSUME NEW s \in Seq(Pieces), HasLine(s)
    PROVE  /\ FirstLine(s) \in Seq(Pieces) /\ Len(FirstLine(s)) = EndOf(s)
           /\ \A i \in 1..EndOf(s) : FirstLine(s)[i] = s[i]
           /\ Last(FirstLine(s)) = s[EndOf(s)]
           /\ Leftover(s) \in Seq(Pieces) /\ Len(Leftover(s)) = Len(s) - EndOf(s)
           /\ \A i \in 1..(Len(s) - EndOf(s)) : Leftover(s)[i] = s[EndOf(s) + i]
<1> DEFINE e == EndOf(s)
<1>1. e \in 1..Len(s) /\ Len(s) \in Nat /\ \A i \in 1..Len(s) : s[i] \in Pieces
  BY EndOfLine, LenProperties, ElementOfSeq
<1> HIDE DEF e
<1>2. /\ SubSeq(s, 1, e) \in Seq(Pieces) /\ Len(SubSeq(s, 1, e)) = e
      /\ \A i \in 1..e : SubSeq(s, 1, e)[i] = s[i]
  <2>1. \A i \in 1..e : s[i] \in Pieces
    BY <1>1
  <2>2. e \in Int /\ 1 \in Int /\ 1 <= e + 1
    BY <1>1
  <2>3. /\ SubSeq(s, 1, e) \in Seq(Pieces) /\ Len(SubSeq(s, 1, e)) = e - 1 + 1
        /\ \A i \in 1..(e - 1 + 1) : SubSeq(s, 1, e)[i] = s[1 + i - 1]
    BY <2>1, <2>2, <1>1, SubSeqProperties
  <2> QED
    BY <2>3, <1>1
<1>3. /\ SubSeq(s, e + 1, Len(s)) \in Seq(Pieces) /\ Len(SubSeq(s, e + 1, Len(s))) = Len(s) - e
      /\ \A i \in 1..(Len(s) - e) : SubSeq(s, e + 1, Len(s))[i] = s[e + i]
  <2>1. \A i \in (e + 1)..Len(s) : s[i] \in Pieces
    BY <1>1
  <2>2. e + 1 \in Int /\ Len(s) \in Int /\ e + 1 <= Len(s) + 1
    BY <1>1
  <2>3. /\ SubSeq(s, e + 1, Len(s)) \in Seq(Pieces)
        /\ Len(SubSeq(s, e + 1, Len(s))) = Len(s) - (e + 1) + 1
        /\ \A i \in 1..(Len(s) - (e + 1) + 1) : SubSeq(s, e + 1, Len(s))[i] = s[(e + 1) + i - 1]
    BY <2>1, <2>2, <1>1, SubSeqProperties
  <2> QED
    BY <2>3, <1>1
<1>4. Last(SubSeq(s, 1, e)) = s[e]
  BY <1>1, <1>2 DEF Last
<1> QED
  BY <1>2, <1>3, <1>4 DEF FirstLine, Leftover, e

\* Taking the first line of what is under way leaves the rest of it.
LEMMA CutWay ==
    ASSUME NEW s \in Seq(Pieces), NEW r \in Seq(Pieces), HasLine(s)
    PROVE  /\ Len(Leftover(s) \o r) = Len(s \o r) - EndOf(s)
           /\ \A i \in 1..(Len(s \o r) - EndOf(s)) :
                 (Leftover(s) \o r)[i] = (s \o r)[EndOf(s) + i]
<1> DEFINE e == EndOf(s)
           l == Leftover(s)
<1>1. /\ e \in 1..Len(s) /\ l \in Seq(Pieces) /\ Len(l) = Len(s) - e
      /\ \A i \in 1..(Len(s) - e) : l[i] = s[e + i]
  BY EndOfLine, CutLine
<1> HIDE DEF e, l
<1>2. /\ Len(s) \in Nat /\ Len(r) \in Nat /\ Len(s \o r) = Len(s) + Len(r)
      /\ \A i \in 1..(Len(s) + Len(r)) : (s \o r)[i] = IF i <= Len(s) THEN s[i] ELSE r[i - Len(s)]
  BY ConcatProperties, LenProperties
<1>3. /\ Len(l \o r) = Len(l) + Len(r)
      /\ \A i \in 1..(Len(l) + Len(r)) : (l \o r)[i] = IF i <= Len(l) THEN l[i] ELSE r[i - Len(l)]
  BY <1>1, ConcatProperties
<1>4. ASSUME NEW i \in 1..(Len(s \o r) - e) PROVE (l \o r)[i] = (s \o r)[e + i]
  <2>1. i \in 1..(Len(l) + Len(r)) /\ e + i \in 1..(Len(s) + Len(r))
    BY <1>1, <1>2
  <2>2. CASE i <= Len(l)
    <3>1. i \in 1..(Len(s) - e) /\ e + i <= Len(s)
      BY <2>2, <2>1, <1>1, <1>2
    <3> QED
      BY <3>1, <2>1, <2>2, <1>1, <1>2, <1>3
  <2>3. CASE ~(i <= Len(l))
    <3>1. ~(e + i <= Len(s)) /\ i - Len(l) = e + i - Len(s)
      BY <2>3, <2>1, <1>1, <1>2
    <3>2. (l \o r)[i] = r[i - Len(l)]
      BY <2>1, <2>3, <1>3
    <3>3. \A j \in 1..(Len(s) + Len(r)) : ~(j <= Len(s)) => (s \o r)[j] = r[j - Len(s)]
      BY <1>2
    <3>4. (s \o r)[e + i] = r[e + i - Len(s)]
      BY <3>1, <3>3, <2>1, <1>1, <1>2
    <3> QED
      BY <3>1, <3>2, <3>4
  <2> QED
    BY <2>2, <2>3
<1>5. Len(l \o r) = Len(s \o r) - e
  BY <1>1, <1>2, <1>3
<1> QED
  BY <1>4, <1>5 DEF e, l

-----------------------------------------------------------------------------
(* What a device says.                                                     *)

LEMMA LineIs ==
    ASSUME NEW of \in {"reply", "reject", "frame"}, NEW n \in Nat, NEW k \in Nat
    PROVE  /\ Line(of, n, k) \in Seq(Pieces) /\ Len(Line(of, n, k)) = 2
           /\ Line(of, n, k)[1] = [of |-> of, n |-> n, k |-> k, eol |-> FALSE]
           /\ Line(of, n, k)[2] = [of |-> of, n |-> n, k |-> k, eol |-> TRUE]
<1> DEFINE p == [of |-> of, n |-> n, k |-> k, eol |-> FALSE]
           q == [of |-> of, n |-> n, k |-> k, eol |-> TRUE]
<1>1. p \in Pieces /\ q \in Pieces
  BY DEF Pieces
<1> HIDE DEF p, q
<1>2. <<p, q>> \in Seq(Pieces) /\ Len(<<p, q>>) = 2 /\ <<p, q>>[1] = p /\ <<p, q>>[2] = q
  BY <1>1
<1> QED
  BY <1>2 DEF Line, p, q

LEMMA PieceIs ==
    ASSUME NEW n \in Nat, NEW m \in Nat
    PROVE  /\ Piece(n, 2 * m + 1) = [of |-> "reply", n |-> n, k |-> m + 1, eol |-> FALSE]
           /\ Piece(n, 2 * m + 2) = [of |-> "reply", n |-> n, k |-> m + 1, eol |-> TRUE]
<1>1. ((2 * m + 1) + 1) \div 2 = m + 1 /\ 2 - ((2 * m + 1) % 2) = 1
  OBVIOUS
<1>2. ((2 * m + 2) + 1) \div 2 = m + 1 /\ 2 - ((2 * m + 2) % 2) = 2
  OBVIOUS
<1>3. m + 1 \in Nat
  OBVIOUS
<1>4. Piece(n, 2 * m + 1) = Line("reply", n, m + 1)[1]
  BY <1>1 DEF Piece
<1>5. Piece(n, 2 * m + 2) = Line("reply", n, m + 1)[2]
  BY <1>2 DEF Piece
<1> QED
  BY <1>3, <1>4, <1>5, LineIs

LEMMA PieceTyped ==
    ASSUME NEW n \in Nat, NEW i \in Nat \ {0}
    PROVE  Piece(n, i) \in Pieces /\ Piece(n, i).of = "reply"
<1> DEFINE k == (i + 1) \div 2
           x == 2 - (i % 2)
<1>1. k \in Nat /\ (x = 1 \/ x = 2)
  OBVIOUS
<1>2. Piece(n, i) = Line("reply", n, k)[x]
  BY DEF Piece
<1> HIDE DEF k, x
<1>3. /\ Line("reply", n, k)[1] = [of |-> "reply", n |-> n, k |-> k, eol |-> FALSE]
      /\ Line("reply", n, k)[2] = [of |-> "reply", n |-> n, k |-> k, eol |-> TRUE]
  BY <1>1, LineIs
<1>4. CASE x = 1
  <2>1. Piece(n, i) = [of |-> "reply", n |-> n, k |-> k, eol |-> FALSE]
    BY <1>2, <1>3, <1>4
  <2> QED
    BY <2>1, <1>1 DEF Pieces
<1>5. CASE x = 2
  <2>1. Piece(n, i) = [of |-> "reply", n |-> n, k |-> k, eol |-> TRUE]
    BY <1>2, <1>3, <1>5
  <2> QED
    BY <2>1, <1>1 DEF Pieces
<1> QED
  BY <1>1, <1>4, <1>5

LEMMA ReplyIs ==
    ASSUME NEW n \in Nat, NEW r, r.lines \in Nat \ {0}
    PROVE  /\ Reply(n, r) \in Seq(Pieces) /\ Len(Reply(n, r)) = 2 * r.lines
           /\ \A i \in 1..(2 * r.lines) : Reply(n, r)[i] = Piece(n, i)
<1>1. 2 * r.lines \in Nat
  OBVIOUS
<1>2. \A i \in 1..(2 * r.lines) : Piece(n, i) \in Pieces
  BY <1>1, PieceTyped
<1>3. Reply(n, r) = [i \in 1..(2 * r.lines) |-> Piece(n, i)]
  BY DEF Reply, Piece
<1>4. [i \in 1..(2 * r.lines) |-> Piece(n, i)] \in Seq(Pieces)
  BY <1>1, <1>2
<1> QED
  BY <1>1, <1>3, <1>4, LenProperties

\* Nothing a device says to a command is a frame.
LEMMA SaidIs ==
    ASSUME NEW n \in Nat, NEW r, r.lines \in Nat \ {0}, NEW said \in Says(n, r)
    PROVE  said \in Seq(Pieces) /\ \A i \in 1..Len(said) : ~IsFrame(said[i])
<1>1. CASE said = Reply(n, r)
  <2>1. said \in Seq(Pieces) /\ Len(said) = 2 * r.lines
        /\ \A i \in 1..Len(said) : said[i] = Piece(n, i)
    BY <1>1, ReplyIs
  <2>2. ASSUME NEW i \in 1..Len(said) PROVE ~IsFrame(said[i])
    <3>1. i \in Nat \ {0}
      BY <2>1
    <3> QED
      BY <3>1, <2>1, PieceTyped DEF IsFrame
  <2> QED
    BY <2>1, <2>2
<1>2. CASE said = Rejection(n)
  <2>1. /\ said \in Seq(Pieces) /\ Len(said) = 2
        /\ said[1].of = "reject" /\ said[2].of = "reject"
    <3>1. "reject" \in {"reply", "reject", "frame"} /\ 1 \in Nat
      OBVIOUS
    <3>2. /\ Line("reject", n, 1) \in Seq(Pieces) /\ Len(Line("reject", n, 1)) = 2
          /\ Line("reject", n, 1)[1] = [of |-> "reject", n |-> n, k |-> 1, eol |-> FALSE]
          /\ Line("reject", n, 1)[2] = [of |-> "reject", n |-> n, k |-> 1, eol |-> TRUE]
      BY <3>1, LineIs
    <3>3. said = Line("reject", n, 1)
      BY <1>2 DEF Rejection
    <3> QED
      BY <3>2, <3>3
  <2> QED
    BY <2>1 DEF IsFrame
<1>3. CASE said = <<>>
  BY <1>3
<1> QED
  BY <1>1, <1>2, <1>3 DEF Says

-----------------------------------------------------------------------------
(* Types.                                                                  *)

\* The number of a frame of the device, or 0.
LEMMA FrameInIs ==
    ASSUME Typed, HasLine(buf)
    PROVE  /\ FrameIn(FirstLine(buf)) \in Nat
           /\ FrameIn(FirstLine(buf)) # 0 =>
                /\ IsFrame(buf[EndOf(buf)]) /\ FrameIn(FirstLine(buf)) = buf[EndOf(buf)].n
<1>1. buf \in Seq(Pieces) /\ EndOf(buf) \in 1..Len(buf) /\ Last(FirstLine(buf)) = buf[EndOf(buf)]
  BY EndOfLine, CutLine DEF Typed
<1>2. buf[EndOf(buf)] \in Pieces
  BY <1>1, ElementOfSeq
<1>3. buf[EndOf(buf)].n \in Nat
  BY <1>2 DEF Pieces
<1> QED
  BY <1>1, <1>3 DEF FrameIn, IsFrame

\* What a frame that is dispatched changes.
LEMMA DispatchIs ==
    ASSUME Typed, NEW f \in Nat, Dispatch(f)
    PROVE  LET made == Append(frames.made, f)
               g == Len(frames.made) + 1
           IN  /\ made \in Seq(Nat) /\ g \in Nat /\ Len(made) = g
               /\ frames' \in [sent : Nat, made : Seq(Nat), dropped : Nat]
               /\ frames'.sent = frames.sent /\ frames'.made = made
               /\ queue' \in Seq(Nat)
               /\ Fits => queue' = Append(queue, g) /\ frames'.dropped = frames.dropped
               /\ ~Fits => queue' = Overflows(queue, g) /\ frames'.dropped = frames.dropped + 1
<1> DEFINE made == Append(frames.made, f)
           g == Len(frames.made) + 1
<1>1. /\ frames \in [sent : Nat, made : Seq(Nat), dropped : Nat] /\ queue \in Seq(Nat)
      /\ cfg.policy \in {"block", "drop_oldest", "drop_newest"}
  BY DEF Typed
<1>2. frames.made \in Seq(Nat) /\ frames.dropped \in Nat
  BY <1>1
<1>3. made \in Seq(Nat) /\ Len(made) = g /\ g \in Nat
  BY <1>2, AppendProperties, LenProperties
<1>4. /\ queue' = IF Fits THEN Append(queue, Len(made)) ELSE Overflows(queue, Len(made))
      /\ frames' = [frames EXCEPT !.made = made, !.dropped = IF Fits THEN @ ELSE @ + 1]
  BY DEF Dispatch
<1> HIDE DEF made, g
<1>5. /\ frames' \in [sent : Nat, made : Seq(Nat), dropped : Nat]
      /\ frames'.sent = frames.sent /\ frames'.made = made
      /\ Fits => frames'.dropped = frames.dropped
      /\ ~Fits => frames'.dropped = frames.dropped + 1
  <2>1. CASE Fits
    <3>1. frames' = [frames EXCEPT !.made = made, !.dropped = frames.dropped]
      BY <1>4, <2>1
    <3> QED
      BY <1>1, <1>3, <2>1, <3>1
  <2>2. CASE ~Fits
    <3>1. frames' = [frames EXCEPT !.made = made, !.dropped = frames.dropped + 1]
      BY <1>4, <2>2
    <3>2. frames.dropped + 1 \in Nat
      BY <1>2
    <3> QED
      BY <1>1, <1>3, <2>2, <3>1, <3>2
  <2> QED
    BY <2>1, <2>2
<1>6. /\ Fits => queue' = Append(queue, g)
      /\ ~Fits => queue' = Overflows(queue, g)
  BY <1>3, <1>4
<1>7. queue' \in Seq(Nat)
  <2>1. CASE Fits
    <3>1. queue \in Seq(Nat) /\ g \in Nat /\ queue' = Append(queue, g)
      BY <1>1, <1>3, <1>6, <2>1
    <3> QED
      BY <3>1, AppendProperties
  <2>2. CASE ~Fits
    <3>1. queue # <<>>
      BY <2>2, WireAssumption, EmptySeq DEF Fits
    <3>2. Append(Tail(queue), g) \in Seq(Nat)
      BY <1>1, <1>3, <3>1, HeadTailProperties, AppendProperties
    <3>3. CASE cfg.policy = "drop_oldest"
      <4>1. Overflows(queue, g) = Append(Tail(queue), g)
        BY <3>3 DEF Overflows
      <4> QED
        BY <1>6, <2>2, <3>2, <4>1
    <3>4. CASE cfg.policy = "drop_newest"
      <4>1. Overflows(queue, g) = queue
        BY <3>4 DEF Overflows
      <4> QED
        BY <1>1, <1>6, <2>2, <4>1
    <3>5. cfg.policy # "block"
      BY <2>2 DEF Fits
    <3> QED
      BY <1>1, <3>3, <3>4, <3>5
  <2> QED
    BY <2>1, <2>2
<1> QED
  BY <1>3, <1>5, <1>6, <1>7 DEF made, g

LEMMA TypedInit == ASSUME Init PROVE Typed
<1>1. cfg.policy \in {"block", "drop_oldest", "drop_newest"}
  BY WireAssumption DEF Init
<1>2. cmd.n \in Nat /\ cmd.reply.lines \in Nat \ {0}
  BY DEF Init, Nobody
<1>3. frames \in [sent : Nat, made : Seq(Nat), dropped : Nat]
  BY DEF Init, NoFrames
<1> QED
  BY <1>1, <1>2, <1>3, EmptySeq DEF Init, Typed, NoFrames

LEMMA TypedStep == ASSUME Typed, [Next]_vars PROVE Typed'
<1> USE DEF Typed
<1>1. CASE Arrives
  <2>1. owed # <<>> /\ owed' = Tail(owed) /\ rx' = Append(rx, Head(owed))
    BY <1>1 DEF Arrives
  <2>2. owed' \in Seq(Pieces) /\ rx' \in Seq(Pieces)
    BY <2>1, MoveOne
  <2> QED
    BY <1>1, <2>2 DEF Arrives, query, stream
<1>2. CASE Receive
  <2>1. buf' \in Seq(Pieces) /\ rx' \in Seq(Pieces)
    BY <1>2, ConcatProperties, EmptySeq DEF Receive
  <2> QED
    BY <1>2, <2>1 DEF Receive, query, stream
<1>3. CASE Begin
  <2>1. cmd'.n \in Nat /\ cmd'.reply.lines \in Nat \ {0}
    <3>1. PICK r \in Replies : cmd' = [n |-> cmd.n + 1, reply |-> r]
      BY <1>3 DEF Begin
    <3>2. r.lines \in Nat \ {0}
      BY WireAssumption
    <3> QED
      BY <3>1, <3>2
  <2>2. clean' \in BOOLEAN
    BY <1>3 DEF Begin, Quiet
  <2>3. rx' \in Seq(Pieces) /\ push' \in Seq(Pieces) /\ lines' \in Seq(Seq(Pieces))
    BY <1>3, EmptySeq DEF Begin
  <2>4. step' = "write" /\ left' \in BOOLEAN /\ UNCHANGED <<cfg, owed, buf, frames, queue, taken>>
    BY <1>3 DEF Begin, stream
  <2> QED
    BY <2>1, <2>2, <2>3, <2>4
<1>4. CASE Write
  <2>1. PICK said \in Says(cmd.n, cmd.reply) : owed' = owed \o said
    BY <1>4 DEF Write
  <2>2. said \in Seq(Pieces)
    BY SaidIs
  <2>3. owed' \in Seq(Pieces)
    BY <2>1, <2>2, ConcatProperties
  <2> QED
    BY <1>4, <2>3 DEF Write, query, stream
<1>5. CASE WriteFails
  <2>1. PICK said \in {<<>>, Reply(cmd.n, cmd.reply)} : owed' = owed \o said
    BY <1>5 DEF WriteFails
  <2>2. said \in Seq(Pieces)
    <3>1. said \in Says(cmd.n, cmd.reply)
      BY DEF Says
    <3> QED
      BY <3>1, SaidIs
  <2>3. owed' \in Seq(Pieces)
    BY <2>1, <2>2, ConcatProperties
  <2> QED
    BY <1>5, <2>3 DEF WriteFails, Raises, stream
<1>6. CASE TakeLine
  <2>1. FirstLine(buf) \in Seq(Pieces) /\ Leftover(buf) \in Seq(Pieces)
    BY <1>6, CutLine DEF TakeLine
  <2>2. Append(lines, FirstLine(buf)) \in Seq(Seq(Pieces))
    BY <2>1, AppendProperties
  <2>3. push' \in Seq(Pieces) /\ buf' \in Seq(Pieces)
    BY <1>6, <2>1, EmptySeq DEF TakeLine
  <2>4. lines' \in Seq(Seq(Pieces))
    BY <1>6, <2>2 DEF TakeLine
  <2>5. /\ step' \in {"settle", "idle", "read"} /\ left' \in BOOLEAN
        /\ UNCHANGED <<cfg, owed, rx, cmd, clean, frames, queue, taken>>
    BY <1>6 DEF TakeLine, Answers, stream
  <2> QED
    BY <2>3, <2>4, <2>5
<1>7. CASE Settled
  BY <1>7 DEF Settled, stream
<1>8. CASE TimesOut
  BY <1>8 DEF TimesOut, Raises, Answers, stream
<1>9. CASE ReadAborted
  BY <1>9 DEF ReadAborted, Raises, stream
<1>10. CASE StartStream
  BY <1>10 DEF StartStream, stream
<1>11. CASE Pushes
  <2>1. frames.sent + 1 \in Nat /\ frames' = [frames EXCEPT !.sent = @ + 1]
    BY <1>11 DEF Pushes
  <2>2. owed' \in Seq(Pieces)
    BY <1>11, <2>1, LineIs DEF Pushes
  <2>3. frames' \in [sent : Nat, made : Seq(Nat), dropped : Nat]
    BY <2>1
  <2> QED
    BY <1>11, <2>2, <2>3 DEF Pushes, query
<1>12. CASE TakeFrame
  <2>1. /\ Leftover(buf) \in Seq(Pieces) /\ buf' = Leftover(buf) /\ step' \in {"stream", "failed"}
        /\ UNCHANGED <<cfg, owed, rx, push, query, taken>>
    BY <1>12, CutLine DEF TakeFrame
  <2>2. (Dispatch(FrameIn(FirstLine(buf))) /\ FrameIn(FirstLine(buf)) \in Nat)
        \/ UNCHANGED <<frames, queue>>
    <3>1. FrameIn(FirstLine(buf)) \in Nat
      BY <1>12, FrameInIs DEF TakeFrame
    <3> QED
      BY <1>12, <3>1 DEF TakeFrame
  <2>3. frames' \in [sent : Nat, made : Seq(Nat), dropped : Nat] /\ queue' \in Seq(Nat)
    <3>1. ASSUME NEW f \in Nat, Dispatch(f) PROVE frames' \in [sent : Nat, made : Seq(Nat), dropped : Nat] /\ queue' \in Seq(Nat)
      BY <3>1, DispatchIs DEF Typed
    <3> QED
      BY <2>2, <3>1
  <2> QED
    BY <2>1, <2>3 DEF query
<1>13. CASE Consume
  <2>1. queue' \in Seq(Nat) /\ taken' \in Seq(Nat)
    BY <1>13, MoveOne DEF Consume
  <2> QED
    BY <1>13, <2>1 DEF Consume, wire, query
<1>14. CASE StopStream
  BY <1>14 DEF StopStream, query
<1>15. CASE Drained
  BY <1>15 DEF Drained, stream
<1>16. CASE ProducerFails
  BY <1>16, EmptySeq DEF ProducerFails, query, stream
<1>17. CASE UNCHANGED vars
  BY <1>17 DEF vars, wire, query, stream
<1> QED
  BY <1>1, <1>2, <1>3, <1>4, <1>5, <1>6, <1>7, <1>8, <1>9, <1>10, <1>11, <1>12, <1>13, <1>14,
     <1>15, <1>16, <1>17 DEF Next, Query, Stream

-----------------------------------------------------------------------------
(* Answers.                                                                *)

\* What arrives or is received stays under way, in its place.
LEMMA WayKeeps ==
    ASSUME Typed, Arrives \/ Receive
    PROVE  Way' = Way
<1>1. buf \in Seq(Pieces) /\ rx \in Seq(Pieces) /\ owed \in Seq(Pieces)
  BY DEF Typed
<1>2. CASE Arrives
  <2>1. rx' \o owed' = rx \o owed
    BY <1>1, <1>2, MoveOne DEF Arrives
  <2> QED
    BY <2>1, <1>2 DEF Arrives, Way
<1>3. CASE Receive
  <2>1. <<>> \o owed = owed /\ (buf \o rx) \o owed = buf \o (rx \o owed)
    BY <1>1, ConcatEmptySeq, ConcatAssociative
  <2> QED
    BY <2>1, <1>3 DEF Receive, Way
<1> QED
  BY <1>2, <1>3

LEMMA WayIs ==
    ASSUME Typed
    PROVE  /\ Way \in Seq(Pieces) /\ rx \o owed \in Seq(Pieces)
           /\ Len(buf) \in Nat /\ Len(rx) \in Nat /\ Len(owed) \in Nat
           /\ Len(Way) = Len(buf) + (Len(rx) + Len(owed))
           /\ \A i \in 1..Len(buf) : Way[i] = buf[i]
<1>1. buf \in Seq(Pieces) /\ rx \in Seq(Pieces) /\ owed \in Seq(Pieces)
  BY DEF Typed
<1>2. /\ rx \o owed \in Seq(Pieces) /\ Len(rx \o owed) = Len(rx) + Len(owed)
      /\ Len(rx) \in Nat /\ Len(owed) \in Nat
  BY <1>1, ConcatPlaces
<1>3. /\ buf \o (rx \o owed) \in Seq(Pieces) /\ Len(buf) \in Nat
      /\ Len(buf \o (rx \o owed)) = Len(buf) + Len(rx \o owed)
      /\ \A i \in 1..Len(buf) : (buf \o (rx \o owed))[i] = buf[i]
  BY <1>1, <1>2, ConcatPlaces
<1> QED
  BY <1>2, <1>3 DEF Way

\* The first line under way is the next of the reply.
LEMMA NextOfReply ==
    ASSUME Typed, Answering, HasLine(buf)
    PROVE  /\ EndOf(buf) = 2 /\ Len(lines) < cmd.reply.lines
           /\ FirstLine(buf) = Line("reply", cmd.n, Len(lines) + 1)
<1> DEFINE e == EndOf(buf)
           m == Len(lines)
           L == cmd.reply.lines
           n == cmd.n
           line == Line("reply", n, m + 1)
<1>1. /\ buf \in Seq(Pieces) /\ n \in Nat /\ L \in Nat /\ m \in Nat
  BY LenProperties DEF Typed
<1>2. e \in 1..Len(buf) /\ buf[e].eol /\ \A k \in 1..(e - 1) : ~buf[k].eol
  BY <1>1, EndOfLine
<1>3. /\ Len(Way) = 2 * (L - m) /\ m <= L
      /\ \A i \in 1..Len(Way) : Way[i] = Piece(n, 2 * m + i)
  BY DEF Answering
<1>4. /\ m + 1 \in Nat /\ line \in Seq(Pieces) /\ Len(line) = 2
      /\ line[1] = [of |-> "reply", n |-> n, k |-> m + 1, eol |-> FALSE]
      /\ line[2] = [of |-> "reply", n |-> n, k |-> m + 1, eol |-> TRUE]
  BY <1>1, LineIs
<1>5. Piece(n, 2 * m + 1) = line[1] /\ Piece(n, 2 * m + 2) = line[2]
  BY <1>1, <1>4, PieceIs
<1> HIDE DEF e, m, L, n, line
<1>6. /\ Len(buf) \in Nat /\ Len(buf) <= Len(Way)
      /\ \A i \in 1..Len(buf) : Way[i] = buf[i]
  BY WayIs
<1>7. Len(Way) >= 2 /\ m < L
  BY <1>1, <1>2, <1>3, <1>6
<1>8. Way[1] = line[1] /\ Way[2] = line[2]
  BY <1>3, <1>5, <1>7, <1>1
<1>9. buf[1] = line[1]
  BY <1>2, <1>6, <1>8
<1>10. e # 1
  BY <1>2, <1>4, <1>9
<1>11. 2 \in 1..Len(buf) /\ buf[2] = line[2]
  BY <1>2, <1>6, <1>8, <1>10
<1>12. buf[2].eol
  BY <1>4, <1>11
<1>13. e = 2
  BY <1>2, <1>10, <1>12
<1>14. /\ FirstLine(buf) \in Seq(Pieces) /\ Len(FirstLine(buf)) = 2
       /\ FirstLine(buf)[1] = buf[1] /\ FirstLine(buf)[2] = buf[2]
  <2>1. EndOf(buf) = 2
    BY <1>13 DEF e
  <2>2. /\ FirstLine(buf) \in Seq(Pieces) /\ Len(FirstLine(buf)) = EndOf(buf)
        /\ \A i \in 1..EndOf(buf) : FirstLine(buf)[i] = buf[i]
    BY <1>1, CutLine
  <2>3. \A i \in 1..2 : FirstLine(buf)[i] = buf[i]
    BY <2>1, <2>2
  <2> QED
    BY <2>1, <2>2, <2>3
<1>15. \A i \in 1..2 : FirstLine(buf)[i] = line[i]
  BY <1>9, <1>11, <1>14
<1>16. FirstLine(buf) = line
  BY <1>4, <1>14, <1>15, SeqEqual
<1> QED
  BY <1>7, <1>13, <1>16 DEF e, m, L, n, line

\* A line of a query that began clean, unless it is a refusal, is the next of its reply.
LEMMA ReadsOwn ==
    ASSUME Typed, Asked, clean, step = "read", HasLine(buf),
           ~(lines = <<>> /\ Last(FirstLine(buf)).of = "reject")
    PROVE  /\ Answering /\ EndOf(buf) = 2 /\ Len(lines) < cmd.reply.lines
           /\ FirstLine(buf) = Line("reply", cmd.n, Len(lines) + 1)
<1>1. buf \in Seq(Pieces) /\ cmd.n \in Nat
  BY DEF Typed
<1>2. EndOf(buf) \in 1..Len(buf) /\ Last(FirstLine(buf)) = buf[EndOf(buf)]
  BY <1>1, EndOfLine, CutLine
<1>3. /\ Len(buf) \in Nat /\ Len(buf) <= Len(Way)
      /\ \A i \in 1..Len(buf) : Way[i] = buf[i]
  BY WayIs
<1>4. Way # <<>>
  <2>1. Len(Way) # 0
    BY <1>2, <1>3
  <2> QED
    BY <2>1
<1>5. ASSUME lines = <<>>, Way = Rejection(cmd.n) PROVE FALSE
  <2>1. "reject" \in {"reply", "reject", "frame"} /\ 1 \in Nat
    OBVIOUS
  <2>2. /\ Len(Line("reject", cmd.n, 1)) = 2
        /\ Line("reject", cmd.n, 1)[1].of = "reject"
        /\ Line("reject", cmd.n, 1)[2].of = "reject"
    <3>1. /\ Len(Line("reject", cmd.n, 1)) = 2
          /\ Line("reject", cmd.n, 1)[1] = [of |-> "reject", n |-> cmd.n, k |-> 1, eol |-> FALSE]
          /\ Line("reject", cmd.n, 1)[2] = [of |-> "reject", n |-> cmd.n, k |-> 1, eol |-> TRUE]
      BY <1>1, <2>1, LineIs
    <3> QED
      BY <3>1
  <2>3. Len(Way) = 2 /\ Way[1].of = "reject" /\ Way[2].of = "reject"
    BY <1>5, <2>2 DEF Rejection
  <2>4. EndOf(buf) = 1 \/ EndOf(buf) = 2
    BY <1>2, <1>3, <2>3
  <2>5. buf[EndOf(buf)].of = "reject"
    BY <1>2, <1>3, <2>3, <2>4
  <2> QED
    BY <1>2, <1>5, <2>5
<1>6. Answering
  BY <1>4, <1>5 DEF Asked
<1> QED
  BY <1>6, NextOfReply

\* The lines of a query and the next one are the first ones of the reply.
LEMMA OneMore ==
    ASSUME Typed, Answering, NEW all, all = Append(lines, Line("reply", cmd.n, Len(lines) + 1))
    PROVE  /\ Len(all) = Len(lines) + 1 /\ DOMAIN all = 1..(Len(lines) + 1)
           /\ all # <<>>
           /\ \A k \in 1..Len(all) : all[k] = Line("reply", cmd.n, k)
<1> DEFINE line == Line("reply", cmd.n, Len(lines) + 1)
<1>1. lines \in Seq(Seq(Pieces)) /\ Len(lines) \in Nat /\ cmd.n \in Nat
  BY LenProperties DEF Typed
<1>2. line \in Seq(Pieces)
  <2>1. Len(lines) + 1 \in Nat
    BY <1>1
  <2> QED
    BY <1>1, <2>1, LineIs
<1>3. /\ Append(lines, line) \in Seq(Seq(Pieces)) /\ DOMAIN Append(lines, line) = 1..(Len(lines) + 1)
      /\ \A i \in 1..(Len(lines) + 1) :
            Append(lines, line)[i] = IF i <= Len(lines) THEN lines[i] ELSE line
  BY <1>1, <1>2, AppendPlaces, AppendProperties
<1>4. Len(Append(lines, line)) = Len(lines) + 1
  BY <1>1, <1>2, AppendProperties
<1>5. \A k \in 1..Len(lines) : lines[k] = Line("reply", cmd.n, k)
  BY DEF Answering
<1> HIDE DEF line
<1>6. ASSUME NEW k \in 1..(Len(lines) + 1) PROVE Append(lines, line)[k] = Line("reply", cmd.n, k)
  <2>1. CASE k <= Len(lines)
    BY <2>1, <1>1, <1>3, <1>5
  <2>2. CASE k = Len(lines) + 1
    <3>1. ~(k <= Len(lines)) /\ Append(lines, line)[k] = line
      BY <2>2, <1>1, <1>3
    <3> QED
      BY <3>1, <2>2 DEF line
  <2> QED
    BY <2>1, <2>2, <1>1
<1>7. all = Append(lines, line)
  BY DEF line
<1>8. all # <<>>
  BY <1>1, <1>4, <1>7
<1> QED
  BY <1>3, <1>4, <1>6, <1>7, <1>8

\* Reading on leaves a query where it was in its reply, one line further.
LEMMA ReadsOn ==
    ASSUME Typed, Answering, HasLine(buf), EndOf(buf) = 2, Len(lines) < cmd.reply.lines,
           lines' = Append(lines, Line("reply", cmd.n, Len(lines) + 1)),
           buf' = Leftover(buf), UNCHANGED <<rx, owed, cmd>>
    PROVE  Answering'
<1> DEFINE m == Len(lines)
           L == cmd.reply.lines
           w == Leftover(buf) \o (rx \o owed)
<1>1. m \in Nat /\ L \in Nat /\ buf \in Seq(Pieces) /\ m < L
  BY LenProperties DEF Typed
<1>2. /\ Len(lines') = m + 1
      /\ \A k \in 1..Len(lines') : lines'[k] = Line("reply", cmd.n, k)
  BY OneMore
<1>3. /\ rx \o owed \in Seq(Pieces) /\ Len(Way) \in Nat
  BY WayIs, LenProperties
<1>4. Len(w) = Len(Way) - 2 /\ \A i \in 1..(Len(Way) - 2) : w[i] = Way[2 + i]
  <2>1. /\ Len(w) = Len(Way) - EndOf(buf)
        /\ \A i \in 1..(Len(Way) - EndOf(buf)) : w[i] = Way[EndOf(buf) + i]
    BY <1>1, <1>3, CutWay DEF Way
  <2> HIDE DEF w
  <2> QED
    BY <2>1
<1>5. Way' = w /\ cmd' = cmd
  BY DEF Way
<1>6. /\ Len(Way) = 2 * (L - m)
      /\ \A i \in 1..Len(Way) : Way[i] = Piece(cmd.n, 2 * m + i)
  BY DEF Answering
<1> HIDE DEF m, L, w
<1>7. Len(w) = 2 * (L - (m + 1))
  BY <1>1, <1>4, <1>6
<1>8. ASSUME NEW i \in 1..Len(w) PROVE w[i] = Piece(cmd.n, 2 * (m + 1) + i)
  <2>1. i \in 1..(Len(Way) - 2) /\ 2 + i \in 1..Len(Way) /\ 2 * m + (2 + i) = 2 * (m + 1) + i
    BY <1>1, <1>3, <1>4
  <2>2. w[i] = Way[2 + i]
    BY <2>1, <1>4
  <2>3. Way[2 + i] = Piece(cmd.n, 2 * m + (2 + i))
    BY <2>1, <1>6
  <2> QED
    BY <2>1, <2>2, <2>3
<1>9. Len(lines') <= L /\ cmd'.reply.lines = L /\ cmd'.n = cmd.n
  BY <1>1, <1>2, <1>5 DEF L
<1>10. Len(Way') = 2 * (L - Len(lines')) /\ \A i \in 1..Len(Way') : Way'[i] = Piece(cmd.n, 2 * Len(lines') + i)
  BY <1>2, <1>5, <1>7, <1>8
<1> QED
  BY <1>2, <1>9, <1>10 DEF Answering

\* With the last line of the reply nothing is left under way.
LEMMA ReadsLast ==
    ASSUME Typed, Answering, HasLine(buf), EndOf(buf) = 2, Len(lines) + 1 = cmd.reply.lines
    PROVE  owed = <<>> /\ rx = <<>> /\ Leftover(buf) = <<>>
<1>1. Len(Way) = 2
  <2>1. Len(lines) \in Nat /\ cmd.reply.lines \in Nat
    BY LenProperties DEF Typed
  <2>2. Len(Way) = 2 * (cmd.reply.lines - Len(lines))
    BY DEF Answering
  <2>3. cmd.reply.lines - Len(lines) = 1
    BY <2>1
  <2> QED
    BY <2>2, <2>3
<1>2. buf \in Seq(Pieces) /\ rx \in Seq(Pieces) /\ owed \in Seq(Pieces)
  BY DEF Typed
<1>3. EndOf(buf) \in 1..Len(buf) /\ Leftover(buf) \in Seq(Pieces) /\ Len(Leftover(buf)) = Len(buf) - EndOf(buf)
  BY <1>2, EndOfLine, CutLine
<1>4. /\ Len(buf) \in Nat /\ Len(rx) \in Nat /\ Len(owed) \in Nat
      /\ Len(Way) = Len(buf) + (Len(rx) + Len(owed))
  BY WayIs
<1>5. Len(owed) = 0 /\ Len(rx) = 0 /\ Len(Leftover(buf)) = 0
  <2>1. Len(buf) >= 2 /\ Len(Leftover(buf)) = Len(buf) - 2
    BY <1>3, <1>4
  <2>2. Len(buf) + (Len(rx) + Len(owed)) = 2
    BY <1>1, <1>4
  <2>3. Len(buf) = 2 /\ Len(rx) = 0 /\ Len(owed) = 0
    BY <1>4, <2>1, <2>2
  <2> QED
    BY <2>1, <2>3
<1> QED
  BY <1>2, <1>3, <1>5, EmptySeq


\* The lines of an answer that was begun clean.
LEMMA Answered ==
    ASSUME Typed, Answering, NEW all, all = Append(lines, Line("reply", cmd.n, Len(lines) + 1)),
           answer' = [n |-> cmd.n, lines |-> all, cut |-> FALSE, clean |-> clean]
    PROVE  AnswersMatch'
<1>1. /\ DOMAIN all = 1..(Len(lines) + 1) /\ all # <<>> /\ Len(all) = Len(lines) + 1
      /\ \A k \in 1..Len(all) : all[k] = Line("reply", cmd.n, k)
  BY OneMore
<1>2. answer'.lines = all /\ answer'.n = cmd.n
  OBVIOUS
<1> QED
  BY <1>1, <1>2 DEF AnswersMatch

LEMMA AnswerTakeLine ==
    ASSUME Typed, Places, Asked, AnswersMatch, TakeLine
    PROVE  Places' /\ Asked' /\ AnswersMatch'
<1> DEFINE line == FirstLine(buf)
           all == Append(lines, line)
<1>1. /\ step = "read" /\ HasLine(buf) /\ push = <<>> /\ (clean \/ left)
      /\ UNCHANGED <<cfg, owed, rx, cmd, clean>>
  BY DEF TakeLine, Places
<1>2. CASE /\ lines = <<>> /\ (Last(line).of = "reject" \/ ~Whole(line))
           /\ step' = "settle" /\ push' = Leftover(buf) /\ buf' = <<>>
           /\ UNCHANGED <<lines, answer, left>>
  BY <1>1, <1>2 DEF Places, Asked, AnswersMatch
<1>3. CASE /\ ~(lines = <<>> /\ Last(line).of = "reject")
           /\ lines' = all
           /\ Complete(all)
           /\ Answers(all, FALSE) /\ push' = Leftover(buf) /\ buf' = <<>>
  <2>1. /\ step' = "idle" /\ left' = (left \/ FALSE \/ Len(all) # cmd.reply.lines)
        /\ answer' = [n |-> cmd.n, lines |-> all, cut |-> FALSE, clean |-> clean]
    BY <1>3 DEF Answers
  <2>2. CASE ~clean
    <3>1. left' /\ ~answer'.clean
      BY <1>1, <2>1, <2>2
    <3> QED
      BY <1>1, <1>3, <2>1, <2>2, <3>1 DEF Places, Asked, AnswersMatch
  <2>3. CASE clean
    <3>1. /\ Answering /\ EndOf(buf) = 2 /\ Len(lines) < cmd.reply.lines
          /\ line = Line("reply", cmd.n, Len(lines) + 1)
      BY <1>1, <1>3, <2>3, ReadsOwn
    <3>2. AnswersMatch'
      BY <2>1, <3>1, Answered
    <3>3. Len(all) = Len(lines) + 1
      BY <3>1, OneMore
    <3>4. ~left' => owed = <<>> /\ rx = <<>> /\ Leftover(buf) = <<>>
      BY <1>1, <2>1, <3>1, <3>3, ReadsLast
    <3>5. Places'
      BY <1>1, <1>3, <2>1, <3>4 DEF Places
    <3>6. Asked'
      BY <2>1 DEF Asked
    <3> QED
      BY <3>2, <3>5, <3>6
  <2> QED
    BY <2>2, <2>3
<1>4. CASE /\ ~(lines = <<>> /\ Last(line).of = "reject")
           /\ lines' = all
           /\ buf' = Leftover(buf) /\ UNCHANGED <<step, push, answer, left>>
  <2>1. Places' /\ AnswersMatch'
    BY <1>1, <1>4 DEF Places, AnswersMatch
  <2>2. ASSUME clean PROVE Answering'
    <3>1. /\ Answering /\ EndOf(buf) = 2 /\ Len(lines) < cmd.reply.lines
          /\ line = Line("reply", cmd.n, Len(lines) + 1)
      BY <1>1, <1>4, <2>2, ReadsOwn
    <3> QED
      BY <1>1, <1>4, <3>1, ReadsOn
  <2>3. Asked'
    BY <1>1, <1>4, <2>2 DEF Asked
  <2> QED
    BY <2>1, <2>3
<1> QED
  BY <1>2, <1>3, <1>4 DEF TakeLine

LEMMA AnswerWrite ==
    ASSUME Typed, Places, Asked, AnswersMatch, Write
    PROVE  Places' /\ Asked' /\ AnswersMatch'
<1>1. PICK said \in Says(cmd.n, cmd.reply) : owed' = owed \o said
  BY DEF Write
<1>2. /\ step = "write" /\ step' = "read" /\ buf' = push /\ push' = <<>>
      /\ UNCHANGED <<cfg, rx, cmd, lines, answer, left, clean>>
  BY DEF Write, query
<1>3. Places' /\ AnswersMatch'
  BY <1>2 DEF Places, AnswersMatch
<1>4. cmd.n \in Nat /\ cmd.reply.lines \in Nat \ {0} /\ said \in Seq(Pieces)
  BY SaidIs DEF Typed
<1>5. ASSUME clean PROVE Way' = said /\ lines' = <<>>
  <2>1. owed = <<>> /\ rx' = <<>> /\ buf' = <<>> /\ lines' = <<>>
    BY <1>2, <1>5 DEF Asked
  <2>2. <<>> \o said = said /\ <<>> \o (<<>> \o said) = said
    BY <1>4, ConcatEmptySeq
  <2> QED
    BY <1>1, <2>1, <2>2 DEF Way
<1>6. ASSUME clean, said = Reply(cmd.n, cmd.reply) PROVE Answering'
  <2>1. /\ Len(said) = 2 * cmd.reply.lines
        /\ \A i \in 1..(2 * cmd.reply.lines) : said[i] = Piece(cmd.n, i)
    BY <1>4, <1>6, ReplyIs
  <2>2. Len(lines') = 0 /\ Way' = said /\ cmd' = cmd
    BY <1>2, <1>5, <1>6
  <2>3. Len(said) = 2 * (cmd.reply.lines - 0)
    BY <1>4, <2>1
  <2>4. ASSUME NEW i \in 1..Len(said) PROVE said[i] = Piece(cmd.n, 2 * 0 + i)
    <3>1. 2 * 0 + i = i /\ i \in 1..(2 * cmd.reply.lines)
      BY <2>1
    <3> QED
      BY <3>1, <2>1
  <2>5. 0 <= cmd.reply.lines /\ 1..0 = {}
    BY <1>4
  <2> QED
    BY <2>2, <2>3, <2>4, <2>5 DEF Answering
<1>7. Asked'
  BY <1>2, <1>5, <1>6 DEF Asked, Says
<1> QED
  BY <1>3, <1>7

LEMMA AnswerBegin ==
    ASSUME Typed, Places, Asked, AnswersMatch, Begin
    PROVE  Places' /\ Asked' /\ AnswersMatch'
<1>1. /\ step = "idle" /\ step' = "write" /\ lines' = <<>> /\ clean' = Quiet
      /\ UNCHANGED <<cfg, owed, buf, answer>>
  BY DEF Begin
<1>2. cfg.drains => rx' = <<>> /\ push' = <<>> /\ left' = (owed # <<>>)
  BY DEF Begin
<1>3. ~cfg.drains => rx' = rx /\ push' = push /\ left' = left
  BY DEF Begin
<1>4. left' \/ Quiet
  BY <1>1, <1>2, <1>3 DEF Places, Quiet
<1>5. Quiet => owed = <<>> /\ rx' = <<>> /\ push' = <<>>
  BY <1>1, <1>2, <1>3 DEF Places, Quiet
<1>6. Places'
  BY <1>1, <1>4 DEF Places
<1>7. Asked'
  BY <1>1, <1>5 DEF Asked
<1> QED
  BY <1>1, <1>6, <1>7 DEF AnswersMatch

LEMMA AnswerTimesOut ==
    ASSUME Typed, Places, Asked, AnswersMatch, TimesOut
    PROVE  Places' /\ Asked' /\ AnswersMatch'
<1>1. /\ step = "read" /\ step' = "idle" /\ left' = TRUE /\ buf' = <<>>
  BY DEF TimesOut, Raises, Answers, Typed
<1>2. Places' /\ Asked'
  BY <1>1 DEF Places, Asked
<1>3. CASE lines = <<>>
  BY <1>2, <1>3 DEF TimesOut, Raises, AnswersMatch
<1>4. CASE lines # <<>>
  <2>1. answer' = [n |-> cmd.n, lines |-> lines, cut |-> TRUE, clean |-> clean]
    BY <1>4 DEF TimesOut, Answers
  <2>2. clean => \A k \in 1..Len(lines) : lines[k] = Line("reply", cmd.n, k)
    BY <1>1, <1>4 DEF Asked, Answering
  <2>3. DOMAIN lines = 1..Len(lines)
    BY LenProperties DEF Typed
  <2> QED
    BY <1>2, <1>4, <2>1, <2>2, <2>3 DEF AnswersMatch
<1> QED
  BY <1>2, <1>3, <1>4

LEMMA AnswerStep ==
    ASSUME Typed, Places, Asked, AnswersMatch, [Next]_vars
    PROVE  Places' /\ Asked' /\ AnswersMatch'
<1>1. CASE Arrives \/ Receive
  <2>1. Way' = Way
    BY <1>1, WayKeeps
  <2>2. UNCHANGED <<cfg, step, push, query, stream>>
    BY <1>1 DEF Arrives, Receive
  <2>3. Places'
    BY <1>1, <2>2 DEF Places, Arrives, Receive, query
  <2>4. Answering => Answering'
    BY <2>1, <2>2 DEF Answering, query
  <2>5. Asked'
    BY <1>1, <2>1, <2>2, <2>4 DEF Asked, Arrives, Receive, query
  <2> QED
    BY <2>2, <2>3, <2>5 DEF AnswersMatch, query
<1>2. CASE Settled
  BY <1>2 DEF Settled, Places, Asked, AnswersMatch
<1>3. CASE WriteFails
  BY <1>3 DEF WriteFails, Raises, Places, Asked, AnswersMatch
<1>4. CASE ReadAborted
  BY <1>4 DEF ReadAborted, Raises, Places, Asked, AnswersMatch
<1>5. CASE StartStream
  BY <1>5 DEF StartStream, Places, Asked, AnswersMatch
<1>6. CASE Pushes
  BY <1>6 DEF Pushes, Places, Asked, AnswersMatch, query
<1>7. CASE TakeFrame
  <2>1. step = "stream" /\ step' \in {"stream", "failed"} /\ UNCHANGED <<push, answer>>
    BY <1>7 DEF TakeFrame, query
  <2> QED
    BY <2>1 DEF Places, Asked, AnswersMatch
<1>12. CASE ProducerFails
  <2>1. step = "stream" /\ step' = "failed" /\ UNCHANGED <<push, answer>>
    BY <1>12 DEF ProducerFails, query
  <2> QED
    BY <2>1 DEF Places, Asked, AnswersMatch
<1>8. CASE Consume
  <2>1. step \in {"stream", "failed"} /\ UNCHANGED <<step, push, answer>>
    BY <1>8 DEF Consume, query, wire
  <2> QED
    BY <2>1 DEF Places, Asked, AnswersMatch
<1>9. CASE StopStream
  BY <1>9 DEF StopStream, Places, Asked, AnswersMatch, query
<1>10. CASE Drained
  BY <1>10 DEF Drained, Places, Asked, AnswersMatch
<1>11. CASE UNCHANGED vars
  <2>1. Way' = Way
    BY <1>11 DEF vars, wire, Way
  <2>2. Answering => Answering'
    BY <1>11, <2>1 DEF vars, query, Answering
  <2> QED
    BY <1>11, <2>1, <2>2 DEF vars, wire, query, stream, Places, Asked, AnswersMatch
<1> QED
  BY <1>1, <1>2, <1>3, <1>4, <1>5, <1>6, <1>7, <1>8, <1>9, <1>10, <1>11, <1>12, AnswerTakeLine,
     AnswerWrite, AnswerBegin, AnswerTimesOut DEF Next, Query, Stream

-----------------------------------------------------------------------------
(* The order of the frames under way.                                      *)

LEMMA NumberedMore ==
    ASSUME NEW s, NEW m \in Nat, Numbered(s, m)
    PROVE  Numbered(s, m + 1)
<1>1. 1..m \subseteq 1..(m + 1)
  OBVIOUS
<1> QED
  BY <1>1 DEF Numbered

LEMMA NumberedConcat ==
    ASSUME NEW a \in Seq(Pieces), NEW b \in Seq(Pieces), NEW m, Numbered(a, m), Numbered(b, m)
    PROVE  Numbered(a \o b, m)
<1>1. /\ Len(a) \in Nat /\ Len(b) \in Nat /\ Len(a \o b) = Len(a) + Len(b)
      /\ \A i \in 1..(Len(a) + Len(b)) : (a \o b)[i] = IF i <= Len(a) THEN a[i] ELSE b[i - Len(a)]
  BY ConcatProperties, LenProperties
<1>2. ASSUME NEW i \in 1..Len(a \o b), IsFrame((a \o b)[i]) PROVE (a \o b)[i].n \in 1..m
  <2>1. CASE i <= Len(a)
    <3>1. i \in 1..Len(a) /\ (a \o b)[i] = a[i]
      BY <1>1, <2>1
    <3> QED
      BY <3>1, <1>2 DEF Numbered
  <2>2. CASE ~(i <= Len(a))
    <3>1. i - Len(a) \in 1..Len(b) /\ (a \o b)[i] = b[i - Len(a)]
      BY <1>1, <2>2
    <3> QED
      BY <3>1, <1>2 DEF Numbered
  <2> QED
    BY <2>1, <2>2
<1> QED
  BY <1>2 DEF Numbered

LEMMA NumberedCut ==
    ASSUME NEW s \in Seq(Pieces), HasLine(s), NEW m, Numbered(s, m)
    PROVE  Numbered(Leftover(s), m)
<1>1. /\ EndOf(s) \in 1..Len(s) /\ Len(s) \in Nat
      /\ Len(Leftover(s)) = Len(s) - EndOf(s)
      /\ \A i \in 1..(Len(s) - EndOf(s)) : Leftover(s)[i] = s[EndOf(s) + i]
  BY EndOfLine, CutLine, LenProperties
<1>2. ASSUME NEW i \in 1..Len(Leftover(s)), IsFrame(Leftover(s)[i]) PROVE Leftover(s)[i].n \in 1..m
  <2>1. EndOf(s) + i \in 1..Len(s) /\ Leftover(s)[i] = s[EndOf(s) + i]
    BY <1>1
  <2> QED
    BY <2>1, <1>2 DEF Numbered
<1> QED
  BY <1>2 DEF Numbered

LEMMA NumberedMove ==
    ASSUME NEW a \in Seq(Pieces), NEW b \in Seq(Pieces), b # <<>>, NEW m,
           Numbered(a, m), Numbered(b, m)
    PROVE  Numbered(Append(a, Head(b)), m) /\ Numbered(Tail(b), m)
<1>1. /\ Len(b) \in Nat /\ Len(b) > 0 /\ b[1] = Head(b) /\ Len(Tail(b)) = Len(b) - 1
      /\ \A i \in 1..(Len(b) - 1) : Tail(b)[i] = b[i + 1]
      /\ Head(b) \in Pieces
  BY TailPlaces, HeadTailProperties
<1>2. /\ Len(a) \in Nat /\ Len(Append(a, Head(b))) = Len(a) + 1
      /\ \A i \in 1..(Len(a) + 1) : Append(a, Head(b))[i] = IF i <= Len(a) THEN a[i] ELSE Head(b)
  BY <1>1, AppendPlaces, AppendProperties
<1>3. ASSUME NEW i \in 1..Len(Tail(b)), IsFrame(Tail(b)[i]) PROVE Tail(b)[i].n \in 1..m
  <2>1. i + 1 \in 1..Len(b) /\ Tail(b)[i] = b[i + 1]
    BY <1>1
  <2> QED
    BY <2>1, <1>3 DEF Numbered
<1>4. ASSUME NEW i \in 1..Len(Append(a, Head(b))), IsFrame(Append(a, Head(b))[i])
      PROVE  Append(a, Head(b))[i].n \in 1..m
  <2>1. CASE i <= Len(a)
    <3>1. i \in 1..Len(a) /\ Append(a, Head(b))[i] = a[i]
      BY <1>2, <2>1
    <3> QED
      BY <3>1, <1>4 DEF Numbered
  <2>2. CASE ~(i <= Len(a))
    <3>1. Append(a, Head(b))[i] = b[1] /\ 1 \in 1..Len(b)
      BY <1>1, <1>2, <2>2
    <3> QED
      BY <3>1, <1>4 DEF Numbered
  <2> QED
    BY <2>1, <2>2
<1> QED
  BY <1>3, <1>4 DEF Numbered

\* No frame, no order to keep.
LEMMA NoFrameYet ==
    ASSUME NEW s, Numbered(s, 0), NEW m
    PROVE  Increasing(s) /\ Newer(s, m)
<1>1. \A i \in 1..Len(s) : ~IsFrame(s[i])
  <2> SUFFICES ASSUME NEW i \in 1..Len(s), IsFrame(s[i]) PROVE FALSE
    OBVIOUS
  <2>1. s[i].n \in 1..0
    BY DEF Numbered
  <2> QED
    BY <2>1
<1> QED
  BY <1>1 DEF Increasing, Newer

\* The numbers of frames begin with 1.
LEMMA NewerThanNone ==
    ASSUME NEW s, NEW m \in Nat, Numbered(s, m)
    PROVE  Newer(s, 0)
BY DEF Numbered, Newer

\* A frame that is pushed comes after all others.
LEMMA PushedLast ==
    ASSUME NEW s \in Seq(Pieces), NEW n \in Nat, NEW m \in Nat, m <= n,
           Numbered(s, n), Increasing(s), Newer(s, m)
    PROVE  /\ Increasing(s \o Line("frame", n + 1, 1))
           /\ Newer(s \o Line("frame", n + 1, 1), m)
<1> DEFINE f == Line("frame", n + 1, 1)
           t == s \o f
<1>1. /\ f \in Seq(Pieces) /\ Len(f) = 2
      /\ f[1] = [of |-> "frame", n |-> n + 1, k |-> 1, eol |-> FALSE]
      /\ f[2] = [of |-> "frame", n |-> n + 1, k |-> 1, eol |-> TRUE]
  <2>1. n + 1 \in Nat /\ 1 \in Nat
    OBVIOUS
  <2> QED
    BY <2>1, LineIs
<1> HIDE DEF f
<1>2. /\ Len(s) \in Nat /\ Len(t) = Len(s) + 2
      /\ \A i \in 1..(Len(s) + 2) : t[i] = IF i <= Len(s) THEN s[i] ELSE f[i - Len(s)]
  <2>1. /\ Len(s) \in Nat /\ Len(t) = Len(s) + Len(f)
        /\ \A i \in 1..(Len(s) + Len(f)) : t[i] = IF i <= Len(s) THEN s[i] ELSE f[i - Len(s)]
    BY <1>1, ConcatProperties, LenProperties
  <2> HIDE DEF t
  <2>2. Len(f) = 2
    BY <1>1
  <2> QED
    BY <2>1, <2>2
<1> HIDE DEF t
<1>3. \A i \in 1..(Len(s) + 2) :
        \/ i <= Len(s) /\ t[i] = s[i]
        \/ i = Len(s) + 1 /\ t[i] = f[1]
        \/ i = Len(s) + 2 /\ t[i] = f[2]
  <2> TAKE i \in 1..(Len(s) + 2)
  <2>1. CASE i <= Len(s)
    BY <2>1, <1>2
  <2>2. CASE i = Len(s) + 1
    <3>1. ~(i <= Len(s)) /\ i - Len(s) = 1
      BY <2>2, <1>2
    <3> QED
      BY <3>1, <2>2, <1>2
  <2>3. CASE i = Len(s) + 2
    <3>1. ~(i <= Len(s)) /\ i - Len(s) = 2
      BY <2>3, <1>2
    <3> QED
      BY <3>1, <2>3, <1>2
  <2> QED
    BY <2>1, <2>2, <2>3, <1>2
<1>4. ~f[1].eol /\ f[2].n = n + 1
  BY <1>1
<1>5. ASSUME NEW i \in 1..Len(t), NEW j \in 1..Len(t), i < j, IsFrame(t[i]), IsFrame(t[j]),
             t[i].eol, t[j].eol
      PROVE  t[i].n < t[j].n
  <2>1. i \in 1..(Len(s) + 2) /\ j \in 1..(Len(s) + 2)
    BY <1>2
  <2>2. (i <= Len(s) /\ t[i] = s[i]) \/ (i = Len(s) + 2 /\ t[i] = f[2])
    BY <1>3, <1>4, <1>5, <2>1
  <2>3. (j <= Len(s) /\ t[j] = s[j]) \/ (j = Len(s) + 2 /\ t[j] = f[2])
    BY <1>3, <1>4, <1>5, <2>1
  <2>4. i \in 1..Len(s) /\ t[i] = s[i]
    BY <1>2, <1>5, <2>1, <2>2
  <2>5. CASE j <= Len(s) /\ t[j] = s[j]
    <3>1. j \in 1..Len(s)
      BY <2>5, <2>1, <1>2
    <3> QED
      BY <3>1, <2>4, <2>5, <1>5 DEF Increasing
  <2>6. CASE t[j] = f[2]
    <3>1. s[i].n \in 1..n
      BY <2>4, <1>5 DEF Numbered
    <3>2. t[i].n \in 1..n /\ t[j].n = n + 1
      BY <3>1, <2>4, <2>6, <1>4
    <3> QED
      BY <3>2
  <2> QED
    BY <2>3, <2>5, <2>6
<1>6. ASSUME NEW i \in 1..Len(t), IsFrame(t[i]), t[i].eol PROVE m < t[i].n
  <2>1. (i <= Len(s) /\ t[i] = s[i]) \/ t[i] = f[2]
    BY <1>2, <1>3, <1>4, <1>6
  <2>2. CASE i <= Len(s) /\ t[i] = s[i]
    <3>1. i \in 1..Len(s)
      BY <2>2, <1>2
    <3> QED
      BY <3>1, <2>2, <1>6 DEF Newer
  <2>3. CASE t[i] = f[2]
    BY <2>3, <1>4
  <2> QED
    BY <2>1, <2>2, <2>3
<1>7. Increasing(t)
  BY <1>5 DEF Increasing
<1>8. Newer(t, m)
  BY <1>6 DEF Newer
<1> QED
  BY <1>7, <1>8 DEF t, f

\* Taking a line leaves the order of the rest.
LEMMA CutOrder ==
    ASSUME NEW s \in Seq(Pieces), NEW r \in Seq(Pieces), HasLine(s), NEW m,
           Increasing(s \o r), Newer(s \o r, m)
    PROVE  /\ Increasing(Leftover(s) \o r) /\ Newer(Leftover(s) \o r, m)
           /\ IsFrame(s[EndOf(s)]) =>
                /\ m < s[EndOf(s)].n
                /\ Newer(Leftover(s) \o r, s[EndOf(s)].n)
<1> DEFINE e == EndOf(s)
           t == s \o r
           w == Leftover(s) \o r
<1>1. /\ e \in 1..Len(s) /\ s[e].eol
      /\ Len(w) = Len(t) - e
      /\ \A i \in 1..(Len(t) - e) : w[i] = t[e + i]
  BY EndOfLine, CutWay
<1>2. /\ Len(s) \in Nat /\ Len(t) \in Nat /\ Len(s) <= Len(t)
      /\ \A i \in 1..Len(s) : t[i] = s[i]
  BY ConcatPlaces
<1>3. Increasing(t) /\ Newer(t, m)
  OBVIOUS
<1> HIDE DEF e, t, w
<1>4. \A i \in 1..Len(w) : e + i \in 1..Len(t) /\ w[i] = t[e + i] /\ e < e + i
  BY <1>1, <1>2
<1>5. ASSUME NEW i \in 1..Len(w), NEW j \in 1..Len(w), i < j, IsFrame(w[i]), IsFrame(w[j]),
             w[i].eol, w[j].eol
      PROVE  w[i].n < w[j].n
  <2>1. /\ e + i \in 1..Len(t) /\ w[i] = t[e + i]
        /\ e + j \in 1..Len(t) /\ w[j] = t[e + j]
    BY <1>4
  <2>2. e + i < e + j
    BY <1>1, <1>2, <1>5
  <2> QED
    BY <2>1, <2>2, <1>3, <1>5 DEF Increasing
<1>6. ASSUME NEW i \in 1..Len(w), IsFrame(w[i]), w[i].eol PROVE m < w[i].n
  BY <1>3, <1>4, <1>6 DEF Newer
<1>7. ASSUME IsFrame(s[e]) PROVE m < s[e].n /\ Newer(w, s[e].n)
  <2>1. e \in 1..Len(t) /\ t[e] = s[e]
    BY <1>1, <1>2
  <2>2. m < s[e].n
    BY <2>1, <1>1, <1>3, <1>7 DEF Newer
  <2>3. ASSUME NEW i \in 1..Len(w), IsFrame(w[i]), w[i].eol PROVE s[e].n < w[i].n
    <3>1. e + i \in 1..Len(t) /\ w[i] = t[e + i] /\ e < e + i
      BY <1>4
    <3> QED
      BY <3>1, <2>1, <2>3, <1>1, <1>3, <1>7 DEF Increasing
  <2> QED
    BY <2>2, <2>3 DEF Newer
<1>8. Increasing(w) /\ Newer(w, m)
  BY <1>5, <1>6 DEF Increasing, Newer
<1> QED
  BY <1>7, <1>8 DEF e, t, w


LEMMA OrderQuiet ==
    ASSUME Typed, InOrder, step' # "stream", UNCHANGED frames,
           Numbered(owed', frames.sent), Numbered(rx', frames.sent),
           Numbered(push', frames.sent), Numbered(buf', frames.sent)
    PROVE  InOrder'
BY DEF InOrder

LEMMA OrderArrives ==
    ASSUME Typed, InOrder, Arrives \/ Receive
    PROVE  InOrder'
<1>1. /\ buf \in Seq(Pieces) /\ rx \in Seq(Pieces) /\ owed \in Seq(Pieces)
      /\ UNCHANGED <<step, push, frames>>
  BY DEF Typed, Arrives, Receive, stream
<1>2. Way' = Way
  BY WayKeeps
<1>3. CASE Arrives
  <2>1. Numbered(owed', frames.sent) /\ Numbered(rx', frames.sent) /\ buf' = buf
    BY <1>1, <1>3, NumberedMove DEF InOrder, Arrives
  <2> QED
    BY <1>1, <1>2, <2>1 DEF InOrder
<1>4. CASE Receive
  <2>1. Numbered(buf', frames.sent) /\ rx' = <<>> /\ owed' = owed
    BY <1>1, <1>4, NumberedConcat DEF InOrder, Receive
  <2>2. Numbered(<<>>, frames.sent)
    BY DEF Numbered
  <2> QED
    BY <1>1, <1>2, <2>1, <2>2 DEF InOrder
<1> QED
  BY <1>3, <1>4

LEMMA OrderTakeFrame ==
    ASSUME Typed, InOrder, TakeFrame
    PROVE  InOrder'
<1> DEFINE e == EndOf(buf)
           r == rx \o owed
           made == frames.made
           f == FrameIn(FirstLine(buf))
<1>1. /\ step = "stream" /\ HasLine(buf) /\ buf' = Leftover(buf)
      /\ UNCHANGED <<owed, rx, push>>
      /\ Dispatch(f) \/ UNCHANGED frames
  BY DEF TakeFrame
<1>2. /\ buf \in Seq(Pieces) /\ r \in Seq(Pieces) /\ rx \in Seq(Pieces) /\ owed \in Seq(Pieces)
      /\ made \in Seq(Nat) /\ Len(made) \in Nat /\ frames.sent \in Nat
  BY WayIs, LenProperties DEF Typed
<1>3. Increasing(buf \o r) /\ \A p \in 1..Len(made) : Newer(buf \o r, made[p])
  BY <1>1 DEF InOrder, Way
<1>4. Way' = Leftover(buf) \o r
  BY <1>1 DEF Way
<1>5. /\ f \in Nat /\ e \in 1..Len(buf)
      /\ f # 0 => IsFrame(buf[e]) /\ f = buf[e].n
  BY <1>1, <1>2, FrameInIs, EndOfLine
<1>6. /\ Numbered(buf, frames.sent) /\ Numbered(rx, frames.sent) /\ Numbered(owed, frames.sent)
      /\ Numbered(push, frames.sent) /\ AtMost(made, frames.sent) /\ Ordered(made)
  BY DEF InOrder
<1>7. /\ Leftover(buf) \in Seq(Pieces) /\ Numbered(Leftover(buf), frames.sent)
      /\ Numbered(buf \o r, frames.sent) /\ Numbered(Leftover(buf) \o r, frames.sent)
  <2>1. Leftover(buf) \in Seq(Pieces) /\ Numbered(Leftover(buf), frames.sent)
    BY <1>1, <1>2, <1>6, NumberedCut, CutLine
  <2>2. Numbered(r, frames.sent)
    BY <1>2, <1>6, NumberedConcat
  <2> QED
    BY <1>2, <1>6, <2>1, <2>2, NumberedConcat
<1> HIDE DEF r, f, e, made
<1>8. Newer(buf \o r, 0) /\ Newer(Leftover(buf) \o r, 0)
  BY <1>2, <1>7, NewerThanNone
<1>9. /\ Increasing(Leftover(buf) \o r)
      /\ IsFrame(buf[e]) => Newer(Leftover(buf) \o r, buf[e].n)
  BY <1>1, <1>2, <1>3, <1>8, CutOrder DEF e
<1>10. ASSUME NEW p \in 1..Len(made)
       PROVE  /\ Newer(Leftover(buf) \o r, made[p])
              /\ IsFrame(buf[e]) => made[p] < buf[e].n
  <2>1. Newer(buf \o r, made[p])
    BY <1>3
  <2> QED
    BY <1>1, <1>2, <1>3, <2>1, CutOrder DEF e
<1>11. CASE UNCHANGED frames
  BY <1>1, <1>4, <1>6, <1>7, <1>9, <1>10, <1>11 DEF InOrder, made
<1>12. CASE Dispatch(f)
  <2> DEFINE more == Append(made, f)
  <2>1. frames'.sent = frames.sent /\ frames'.made = more
    BY <1>5, <1>12, DispatchIs DEF made
  <2>2. /\ Len(more) = Len(made) + 1
        /\ \A i \in 1..(Len(made) + 1) : more[i] = IF i <= Len(made) THEN made[i] ELSE f
    BY <1>2, <1>5, AppendPlaces, AppendProperties
  <2>3. ASSUME NEW i \in 1..Len(more)
        PROVE  (i \in 1..Len(made) /\ more[i] = made[i]) \/ (i = Len(made) + 1 /\ more[i] = f)
    BY <1>2, <2>2
  <2> HIDE DEF more
  <2>4. AtMost(more, frames.sent)
    <3>1. f <= frames.sent
      <4>1. CASE f = 0
        BY <1>2, <4>1
      <4>2. CASE f # 0
        <5>1. buf[e].n \in 1..frames.sent
          BY <1>5, <1>6, <4>2 DEF Numbered
        <5> QED
          BY <1>2, <1>5, <4>2, <5>1
      <4> QED
        BY <4>1, <4>2
    <3> QED
      BY <1>6, <2>3, <3>1 DEF AtMost
  <2>5. Ordered(more)
    <3>1. ASSUME NEW i \in 1..Len(more), NEW j \in 1..Len(more), i < j, more[i] # 0, more[j] # 0
          PROVE  more[i] < more[j]
      <4>1. i \in 1..Len(made) /\ more[i] = made[i]
        BY <1>2, <2>2, <2>3, <3>1
      <4>2. CASE j \in 1..Len(made) /\ more[j] = made[j]
        BY <1>6, <3>1, <4>1, <4>2 DEF Ordered
      <4>3. CASE more[j] = f
        BY <1>5, <1>10, <3>1, <4>1, <4>3
      <4> QED
        BY <2>3, <4>2, <4>3
    <3> QED
      BY <3>1 DEF Ordered
  <2>6. ASSUME NEW p \in 1..Len(more) PROVE Newer(Leftover(buf) \o r, more[p])
    <3>1. CASE p \in 1..Len(made) /\ more[p] = made[p]
      BY <1>10, <3>1
    <3>2. CASE more[p] = f
      BY <1>5, <1>8, <1>9, <3>2
    <3> QED
      BY <2>3, <3>1, <3>2
  <2> QED
    BY <1>1, <1>4, <1>6, <1>7, <1>9, <2>1, <2>4, <2>5, <2>6 DEF InOrder
<1> QED
  BY <1>1, <1>11, <1>12

LEMMA OrderPushes ==
    ASSUME Typed, InOrder, Pushes
    PROVE  InOrder'
<1> DEFINE f == Line("frame", frames.sent + 1, 1)
<1>1. /\ owed = <<>> /\ owed' = f
      /\ frames' = [frames EXCEPT !.sent = @ + 1]
      /\ UNCHANGED <<step, rx, push, buf>>
  BY DEF Pushes
<1>2. /\ frames.sent \in Nat /\ frames.made \in Seq(Nat)
      /\ frames'.sent = frames.sent + 1 /\ frames'.made = frames.made
  BY <1>1 DEF Typed
<1>3. /\ buf \in Seq(Pieces) /\ rx \in Seq(Pieces) /\ owed \in Seq(Pieces)
  BY DEF Typed
<1>4. /\ f \in Seq(Pieces) /\ Len(f) = 2
      /\ f[1] = [of |-> "frame", n |-> frames.sent + 1, k |-> 1, eol |-> FALSE]
      /\ f[2] = [of |-> "frame", n |-> frames.sent + 1, k |-> 1, eol |-> TRUE]
  <2>1. frames.sent + 1 \in Nat /\ 1 \in Nat
    BY <1>2
  <2> QED
    BY <2>1, LineIs
<1>5. Numbered(f, frames.sent + 1)
  <2>1. frames.sent + 1 \in 1..(frames.sent + 1)
    BY <1>2
  <2>2. f[1].n = frames.sent + 1 /\ f[2].n = frames.sent + 1
    BY <1>4
  <2> HIDE DEF f
  <2>3. Len(f) = 2 /\ \A i \in 1..2 : i = 1 \/ i = 2
    BY <1>4
  <2> QED
    BY <2>1, <2>2, <2>3 DEF Numbered
<1>6. Numbered(buf \o rx, frames.sent) /\ buf \o rx \in Seq(Pieces)
  BY <1>3, NumberedConcat, ConcatProperties DEF InOrder
<1>7. Way = buf \o rx
  BY <1>1, <1>3, ConcatEmptySeq DEF Way
<1>8. Way' = (buf \o rx) \o f
  <2>1. Way' = buf \o (rx \o f)
    BY <1>1 DEF Way
  <2> HIDE DEF f
  <2>2. buf \o (rx \o f) = (buf \o rx) \o f
    <3>1. buf \in Seq(Pieces) /\ rx \in Seq(Pieces) /\ f \in Seq(Pieces)
      BY <1>3, <1>4
    <3> QED
      BY <3>1, ConcatAssociative
  <2> QED
    BY <2>1, <2>2
<1>9. AtMost(frames.made, frames.sent) /\ \A p \in 1..Len(frames.made) : frames.made[p] \in Nat
  BY <1>2, ElementOfSeq DEF InOrder
<1>10. step = "stream" =>
        /\ Increasing((buf \o rx) \o f)
        /\ \A p \in 1..Len(frames.made) : Newer((buf \o rx) \o f, frames.made[p])
  <2> SUFFICES ASSUME step = "stream"
               PROVE  /\ Increasing((buf \o rx) \o f)
                      /\ \A p \in 1..Len(frames.made) : Newer((buf \o rx) \o f, frames.made[p])
    OBVIOUS
  <2>1. Increasing(buf \o rx) /\ \A p \in 1..Len(frames.made) : Newer(buf \o rx, frames.made[p])
    BY <1>7 DEF InOrder
  <2>2. Newer(buf \o rx, 0) /\ 0 <= frames.sent
    BY <1>2, <1>6, NewerThanNone
  <2>3. Increasing((buf \o rx) \o f)
    BY <1>2, <1>6, <2>1, <2>2, PushedLast
  <2>4. ASSUME NEW p \in 1..Len(frames.made) PROVE Newer((buf \o rx) \o f, frames.made[p])
    <3>1. frames.made[p] <= frames.sent /\ frames.made[p] \in Nat /\ Newer(buf \o rx, frames.made[p])
      BY <1>9, <2>1 DEF AtMost
    <3> QED
      BY <1>2, <1>6, <2>1, <3>1, PushedLast
  <2> QED
    BY <2>3, <2>4
<1>11. Numbered(rx, frames.sent + 1) /\ Numbered(push, frames.sent + 1) /\ Numbered(buf, frames.sent + 1)
  BY <1>2, NumberedMore DEF InOrder
<1> HIDE DEF f
<1>12. AtMost(frames'.made, frames'.sent)
  <2>1. ASSUME NEW p \in 1..Len(frames.made) PROVE frames.made[p] <= frames.sent + 1
    BY <1>2, <1>9 DEF AtMost
  <2> QED
    BY <1>2, <2>1 DEF AtMost
<1>13. /\ Numbered(owed', frames'.sent) /\ Numbered(rx', frames'.sent)
       /\ Numbered(push', frames'.sent) /\ Numbered(buf', frames'.sent)
       /\ Ordered(frames'.made)
  BY <1>1, <1>2, <1>5, <1>11 DEF InOrder
<1>14. step' = "stream" =>
        Increasing(Way') /\ \A p \in 1..Len(frames'.made) : Newer(Way', frames'.made[p])
  BY <1>1, <1>2, <1>8, <1>10
<1> QED
  BY <1>12, <1>13, <1>14 DEF InOrder

\* A stream starts when none has been.
LEMMA OrderStart ==
    ASSUME Typed, InOrder, StartStream
    PROVE  InOrder'
<1>1. /\ buf' = push /\ push' = <<>> /\ UNCHANGED <<owed, rx, frames>> /\ frames = NoFrames
  BY DEF StartStream, stream
<1>2. frames.sent = 0 /\ Len(frames.made) = 0
  BY <1>1, EmptySeq DEF NoFrames
<1>3. Numbered(<<>>, 0)
  BY DEF Numbered
<1>4. push \in Seq(Pieces) /\ rx \in Seq(Pieces) /\ owed \in Seq(Pieces) /\ rx \o owed \in Seq(Pieces)
  BY WayIs DEF Typed
<1>5. Numbered(rx, 0) /\ Numbered(owed, 0) /\ Numbered(push, 0)
  BY <1>2 DEF InOrder
<1>6. Numbered(push \o (rx \o owed), 0)
  BY <1>4, <1>5, NumberedConcat
<1>7. Way' = push \o (rx \o owed)
  BY <1>1 DEF Way
<1>8. Increasing(Way')
  BY <1>6, <1>7, NoFrameYet
<1>9. \A p \in 1..Len(frames.made) : FALSE
  BY <1>2
<1> QED
  BY <1>1, <1>2, <1>3, <1>5, <1>8, <1>9 DEF InOrder, AtMost, Ordered

LEMMA OrderStep ==
    ASSUME Typed, InOrder, [Next]_vars
    PROVE  InOrder'
<1>0. /\ Numbered(owed, frames.sent) /\ Numbered(rx, frames.sent) /\ Numbered(push, frames.sent)
      /\ Numbered(buf, frames.sent) /\ Numbered(<<>>, frames.sent)
  BY DEF InOrder, Numbered
<1>1. CASE Begin
  <2>1. step' # "stream" /\ UNCHANGED <<owed, buf, frames>> /\ (rx' = rx \/ rx' = <<>>) /\ (push' = push \/ push' = <<>>)
    BY <1>1 DEF Begin, stream
  <2> QED
    BY <1>0, <2>1, OrderQuiet
<1>2. CASE Write \/ WriteFails
  <2>1. PICK said \in Says(cmd.n, cmd.reply) : owed' = owed \o said
    BY <1>2 DEF Write, WriteFails, Says
  <2>2. owed \in Seq(Pieces) /\ said \in Seq(Pieces) /\ \A i \in 1..Len(said) : ~IsFrame(said[i])
    BY SaidIs DEF Typed
  <2>3. Numbered(owed', frames.sent)
    <3>1. Numbered(said, frames.sent)
      BY <2>2 DEF Numbered
    <3> QED
      BY <1>0, <2>1, <2>2, <3>1, NumberedConcat
  <2>4. step' # "stream" /\ UNCHANGED <<rx, frames>>
    BY <1>2 DEF Write, WriteFails, Raises, stream
  <2>5. (buf' = buf /\ push' = push) \/ (buf' = push /\ push' = <<>>)
    BY <1>2 DEF Write, WriteFails
  <2> QED
    BY <1>0, <2>3, <2>4, <2>5, OrderQuiet
<1>3. CASE TakeLine
  <2>1. Numbered(Leftover(buf), frames.sent)
    BY <1>0, <1>3, NumberedCut DEF TakeLine, Typed
  <2>2. step' # "stream" /\ UNCHANGED <<owed, rx, frames>>
    BY <1>3 DEF TakeLine, Answers, stream
  <2>3. push' \in {push, Leftover(buf)} /\ buf' \in {<<>>, Leftover(buf)}
    BY <1>3 DEF TakeLine
  <2> QED
    BY <1>0, <2>1, <2>2, <2>3, OrderQuiet
<1>4. CASE Settled \/ Drained
  <2>1. step' # "stream" /\ UNCHANGED <<owed, buf, frames>> /\ rx' = <<>> /\ push' = <<>>
    BY <1>4 DEF Settled, Drained, stream
  <2> QED
    BY <1>0, <2>1, OrderQuiet
<1>5. CASE TimesOut
  <2>1. step' # "stream" /\ UNCHANGED <<owed, rx, frames>> /\ push' = buf /\ buf' = <<>>
    BY <1>5 DEF TimesOut, Raises, Answers, stream
  <2> QED
    BY <1>0, <2>1, OrderQuiet
<1>6. CASE ReadAborted \/ StopStream \/ ProducerFails
  <2>1. step' # "stream" /\ UNCHANGED <<owed, rx, push, frames>> /\ buf' = <<>>
    BY <1>6 DEF ReadAborted, StopStream, ProducerFails, Raises, stream
  <2> QED
    BY <1>0, <2>1, OrderQuiet
<1>7. CASE Consume \/ UNCHANGED vars
  <2>1. UNCHANGED <<step, owed, rx, push, buf, frames>>
    BY <1>7 DEF Consume, wire, vars, stream
  <2> QED
    BY <2>1 DEF InOrder, Way
<1> QED
  BY <1>1, <1>2, <1>3, <1>4, <1>5, <1>6, <1>7, OrderArrives, OrderTakeFrame, OrderPushes, OrderStart
     DEF Next, Query, Stream


-----------------------------------------------------------------------------
(* A stream that began with nothing under way.                             *)

LEMMA FramePieceIs ==
    ASSUME NEW m \in Nat
    PROVE  /\ FramePiece(2 * m + 1) = [of |-> "frame", n |-> m + 1, k |-> 1, eol |-> FALSE]
           /\ FramePiece(2 * m + 2) = [of |-> "frame", n |-> m + 1, k |-> 1, eol |-> TRUE]
<1>1. ((2 * m + 1) + 1) \div 2 = m + 1 /\ 2 - ((2 * m + 1) % 2) = 1
  OBVIOUS
<1>2. ((2 * m + 2) + 1) \div 2 = m + 1 /\ 2 - ((2 * m + 2) % 2) = 2
  OBVIOUS
<1>3. m + 1 \in Nat /\ 1 \in Nat
  OBVIOUS
<1>4. FramePiece(2 * m + 1) = Line("frame", m + 1, 1)[1]
  BY <1>1 DEF FramePiece
<1>5. FramePiece(2 * m + 2) = Line("frame", m + 1, 1)[2]
  BY <1>2 DEF FramePiece
<1> QED
  BY <1>3, <1>4, <1>5, LineIs

LEMMA UnmixedStart ==
    ASSUME Typed, Places, StartStream
    PROVE  Unmixed'
<1>1. /\ step = "idle" /\ buf' = push /\ clean' = (owed = <<>> /\ ~left)
      /\ frames = NoFrames /\ UNCHANGED <<owed, rx, frames>>
  BY DEF StartStream, stream
<1>2. frames'.sent = 0 /\ Len(frames'.made) = 0
  BY <1>1, EmptySeq DEF NoFrames
<1>3. ASSUME clean' PROVE Len(Way') = 0
  <2>1. buf' = <<>> /\ rx' = <<>> /\ owed' = <<>>
    BY <1>1, <1>3 DEF Places
  <2> QED
    BY <2>1, ConcatEmptySeq, EmptySeq DEF Way
<1> QED
  BY <1>2, <1>3 DEF Unmixed

LEMMA UnmixedPushes ==
    ASSUME Typed, Unmixed, Pushes
    PROVE  Unmixed'
<1> DEFINE f == Line("frame", frames.sent + 1, 1)
           m == Len(frames.made)
           n == frames.sent
<1>1. /\ owed = <<>> /\ owed' = f /\ frames' = [frames EXCEPT !.sent = @ + 1]
      /\ UNCHANGED <<step, rx, push, buf, clean>>
  BY DEF Pushes, query
<1>2. /\ n \in Nat /\ m \in Nat /\ frames'.sent = n + 1 /\ frames'.made = frames.made
  BY <1>1, LenProperties DEF Typed
<1>3. buf \in Seq(Pieces) /\ rx \in Seq(Pieces)
  BY DEF Typed
<1>4. /\ f \in Seq(Pieces) /\ Len(f) = 2 /\ f[1] = FramePiece(2 * n + 1) /\ f[2] = FramePiece(2 * n + 2)
  <2>1. n + 1 \in Nat /\ 1 \in Nat
    BY <1>2
  <2> QED
    BY <1>2, <2>1, LineIs, FramePieceIs
<1>5. Way' = Way \o f /\ Way \in Seq(Pieces)
  <2>1. Way' = buf \o (rx \o f)
    BY <1>1 DEF Way
  <2>2. Way = buf \o rx /\ Way \in Seq(Pieces)
    BY <1>1, <1>3, ConcatEmptySeq, ConcatProperties DEF Way
  <2> HIDE DEF f
  <2>3. buf \o (rx \o f) = (buf \o rx) \o f
    <3>1. buf \in Seq(Pieces) /\ rx \in Seq(Pieces) /\ f \in Seq(Pieces)
      BY <1>3, <1>4
    <3> QED
      BY <3>1, ConcatAssociative
  <2> QED
    BY <2>1, <2>2, <2>3
<1> HIDE DEF f
<1>6. /\ Len(Way) \in Nat /\ Len(Way') = Len(Way) + 2
      /\ \A i \in 1..Len(Way) : Way'[i] = Way[i]
      /\ \A i \in 1..2 : Way'[Len(Way) + i] = f[i]
  <2>1. /\ Len(Way) \in Nat /\ Len(Way \o f) = Len(Way) + Len(f)
        /\ \A i \in 1..Len(Way) : (Way \o f)[i] = Way[i]
        /\ \A i \in 1..Len(f) : (Way \o f)[Len(Way) + i] = f[i]
    <3>1. Way \in Seq(Pieces) /\ f \in Seq(Pieces)
      BY <1>4, <1>5
    <3> HIDE DEF Way
    <3> QED
      BY <3>1, ConcatPlaces
  <2>2. Way' = Way \o f /\ Len(f) = 2
    BY <1>4, <1>5
  <2> QED
    BY <2>1, <2>2
<1>7. ASSUME clean, step = "stream"
      PROVE  /\ m <= n + 1 /\ Len(Way') = 2 * (n + 1 - m)
             /\ \A i \in 1..Len(Way') : Way'[i] = FramePiece(2 * m + i)
  <2>1. /\ m <= n /\ Len(Way) = 2 * (n - m)
        /\ \A i \in 1..Len(Way) : Way[i] = FramePiece(2 * m + i)
    BY <1>7 DEF Unmixed
  <2> HIDE DEF m, n
  <2>2. Len(Way') = 2 * (n + 1 - m) /\ m <= n + 1
    BY <1>2, <1>6, <2>1
  <2>3. ASSUME NEW i \in 1..Len(Way') PROVE Way'[i] = FramePiece(2 * m + i)
    <3>1. CASE i <= Len(Way)
      <4>1. i \in 1..Len(Way)
        BY <1>6, <3>1
      <4> QED
        BY <1>6, <2>1, <4>1
    <3>2. CASE i = Len(Way) + 1
      <4>1. 2 * m + i = 2 * n + 1
        BY <1>2, <2>1, <3>2
      <4>2. Way'[i] = f[1]
        BY <1>6, <3>2
      <4> QED
        BY <1>4, <4>1, <4>2
    <3>3. CASE i = Len(Way) + 2
      <4>1. 2 * m + i = 2 * n + 2
        BY <1>2, <2>1, <3>3
      <4>2. Way'[i] = f[2]
        BY <1>6, <3>3
      <4> QED
        BY <1>4, <4>1, <4>2
    <3> QED
      BY <1>6, <3>1, <3>2, <3>3
  <2> QED
    BY <2>2, <2>3
<1>8. /\ clean' = clean /\ step' = step
      /\ clean /\ step \in {"stream", "failed"} => \A p \in 1..m : frames.made[p] = p
  BY <1>1 DEF Unmixed
<1>9. frames'.sent = n + 1 /\ Len(frames'.made) = m /\ frames'.made = frames.made
  BY <1>2
<1>10. clean' /\ step' = "stream" =>
        /\ Len(frames'.made) <= frames'.sent
        /\ Len(Way') = 2 * (frames'.sent - Len(frames'.made))
        /\ \A i \in 1..Len(Way') : Way'[i] = FramePiece(2 * Len(frames'.made) + i)
  <2> SUFFICES ASSUME clean', step' = "stream"
               PROVE  /\ Len(frames'.made) <= frames'.sent
                      /\ Len(Way') = 2 * (frames'.sent - Len(frames'.made))
                      /\ \A i \in 1..Len(Way') : Way'[i] = FramePiece(2 * Len(frames'.made) + i)
    OBVIOUS
  <2>1. clean /\ step = "stream"
    BY <1>8
  <2>2. /\ m <= n + 1 /\ Len(Way') = 2 * (n + 1 - m)
        /\ \A i \in 1..Len(Way') : Way'[i] = FramePiece(2 * m + i)
    BY <1>7, <2>1
  <2> DEFINE newM == Len(frames'.made)
             newN == frames'.sent
  <2>3. newM = m /\ newN = n + 1 /\ m \in Nat /\ n \in Nat
    BY <1>2, <1>9
  <2> SUFFICES /\ newM <= newN /\ Len(Way') = 2 * (newN - newM)
               /\ \A i \in 1..Len(Way') : Way'[i] = FramePiece(2 * newM + i)
    OBVIOUS
  <2> HIDE DEF m, n, newM, newN
  <2> QED
    BY <2>2, <2>3
<1>11. clean' /\ step' \in {"stream", "failed"} => \A p \in 1..Len(frames'.made) : frames'.made[p] = p
  <2> HIDE DEF m, n
  <2> QED
    BY <1>8, <1>9
<1> QED
  BY <1>10, <1>11 DEF Unmixed

\* The first line under way is the next frame.
LEMMA NextFrame ==
    ASSUME Typed, Unmixed, clean, step = "stream", HasLine(buf)
    PROVE  LET m == Len(frames.made) IN
           /\ EndOf(buf) = 2 /\ m < frames.sent /\ Len(Way) >= 2
           /\ Len(FirstLine(buf)) = 2
           /\ Last(FirstLine(buf)) = [of |-> "frame", n |-> m + 1, k |-> 1, eol |-> TRUE]
<1> DEFINE e == EndOf(buf)
           m == Len(frames.made)
<1>1. /\ buf \in Seq(Pieces) /\ m \in Nat /\ frames.sent \in Nat
  BY LenProperties DEF Typed
<1>2. e \in 1..Len(buf) /\ buf[e].eol /\ \A k \in 1..(e - 1) : ~buf[k].eol
  BY <1>1, EndOfLine
<1>3. /\ Len(Way) = 2 * (frames.sent - m) /\ m <= frames.sent
      /\ \A i \in 1..Len(Way) : Way[i] = FramePiece(2 * m + i)
  BY DEF Unmixed
<1>4. /\ Len(FirstLine(buf)) = e /\ Last(FirstLine(buf)) = buf[e]
  BY <1>1, CutLine
<1>5. /\ FramePiece(2 * m + 1) = [of |-> "frame", n |-> m + 1, k |-> 1, eol |-> FALSE]
      /\ FramePiece(2 * m + 2) = [of |-> "frame", n |-> m + 1, k |-> 1, eol |-> TRUE]
  BY <1>1, FramePieceIs
<1> HIDE DEF e, m
<1>6. /\ Len(buf) \in Nat /\ Len(buf) <= Len(Way)
      /\ \A i \in 1..Len(buf) : Way[i] = buf[i]
  BY WayIs
<1>7. Len(Way) >= 2 /\ m < frames.sent
  BY <1>1, <1>2, <1>3, <1>6
<1>8. Way[1] = FramePiece(2 * m + 1) /\ Way[2] = FramePiece(2 * m + 2)
  BY <1>3, <1>7, <1>1
<1>9. buf[1] = FramePiece(2 * m + 1)
  BY <1>2, <1>6, <1>8
<1>10. e # 1
  BY <1>2, <1>5, <1>9
<1>11. 2 \in 1..Len(buf) /\ buf[2] = FramePiece(2 * m + 2)
  BY <1>2, <1>6, <1>8, <1>10
<1>12. buf[2].eol
  BY <1>5, <1>11
<1>13. e = 2
  BY <1>2, <1>10, <1>12
<1> QED
  BY <1>4, <1>5, <1>7, <1>11, <1>13 DEF e, m

LEMMA UnmixedTakeFrame ==
    ASSUME Typed, Unmixed, TakeFrame
    PROVE  Unmixed'
<1> DEFINE m == Len(frames.made)
           n == frames.sent
           line == FirstLine(buf)
<1> SUFFICES ASSUME clean PROVE Unmixed'
  BY DEF Unmixed, TakeFrame, query
<1>1. /\ step = "stream" /\ HasLine(buf) /\ buf' = Leftover(buf)
      /\ UNCHANGED <<owed, rx, clean>>
  BY DEF TakeFrame, query
<1>2. /\ m \in Nat /\ n \in Nat /\ buf \in Seq(Pieces) /\ rx \o owed \in Seq(Pieces)
      /\ frames.made \in Seq(Nat) /\ Len(Way) \in Nat
  BY WayIs, LenProperties DEF Typed
<1>3. /\ EndOf(buf) = 2 /\ m < n /\ Len(Way) >= 2 /\ Len(line) = 2
      /\ Last(line) = [of |-> "frame", n |-> m + 1, k |-> 1, eol |-> TRUE]
  BY <1>1, NextFrame
<1>4. Whole(line) /\ Last(line).of = "frame" /\ Last(line).n = m + 1
  BY <1>3 DEF Whole
<1>5. Verdicts(line) = {"frame"} /\ FrameIn(line) = m + 1
  <2> HIDE DEF line
  <2>1. Verdicts(line) = {"frame"}
    BY <1>3, <1>4 DEF Verdicts
  <2>2. FrameIn(line) = m + 1
    BY <1>4 DEF FrameIn
  <2> QED
    BY <2>1, <2>2
<1>6. Dispatch(m + 1) /\ step' = "stream"
  BY <1>1, <1>5 DEF TakeFrame
<1>7. /\ frames'.sent = n /\ frames'.made = Append(frames.made, m + 1) /\ m + 1 \in Nat
  BY <1>2, <1>6, DispatchIs
<1>8. /\ Len(Append(frames.made, m + 1)) = m + 1
      /\ \A i \in 1..(m + 1) :
            Append(frames.made, m + 1)[i] = IF i <= m THEN frames.made[i] ELSE m + 1
  BY <1>2, <1>7, AppendPlaces, AppendProperties
<1>9. /\ Len(Way) = 2 * (n - m)
      /\ \A i \in 1..Len(Way) : Way[i] = FramePiece(2 * m + i)
      /\ \A p \in 1..m : frames.made[p] = p
  BY <1>1 DEF Unmixed
<1>10. /\ Len(Way') = Len(Way) - 2
       /\ \A i \in 1..(Len(Way) - 2) : Way'[i] = Way[2 + i]
  <2> DEFINE r == rx \o owed
  <2>1. Way = buf \o r /\ Way' = Leftover(buf) \o r
    BY <1>1 DEF Way
  <2>2. buf \in Seq(Pieces) /\ r \in Seq(Pieces)
    BY <1>2
  <2> HIDE DEF r
  <2>3. /\ Len(Leftover(buf) \o r) = Len(buf \o r) - EndOf(buf)
        /\ \A i \in 1..(Len(buf \o r) - EndOf(buf)) : (Leftover(buf) \o r)[i] = (buf \o r)[EndOf(buf) + i]
    BY <1>1, <2>2, CutWay
  <2>4. EndOf(buf) = 2
    BY <1>3
  <2> QED
    BY <2>1, <2>3, <2>4
<1> HIDE DEF m, n
<1>11. Len(Way') = 2 * (n - (m + 1)) /\ m + 1 <= n
  BY <1>2, <1>3, <1>9, <1>10
<1>12. ASSUME NEW i \in 1..Len(Way') PROVE Way'[i] = FramePiece(2 * (m + 1) + i)
  <2>1. 2 + i \in 1..Len(Way) /\ i \in 1..(Len(Way) - 2) /\ 2 * m + (2 + i) = 2 * (m + 1) + i
    BY <1>2, <1>10
  <2>2. Way'[i] = Way[2 + i]
    BY <1>10, <2>1
  <2>3. Way[2 + i] = FramePiece(2 * m + (2 + i))
    BY <1>9, <2>1
  <2> QED
    BY <2>1, <2>2, <2>3
<1>13. ASSUME NEW p \in 1..(m + 1) PROVE Append(frames.made, m + 1)[p] = p
  BY <1>2, <1>8, <1>9
<1> QED
  BY <1>7, <1>8, <1>11, <1>12, <1>13 DEF Unmixed

LEMMA UnmixedStep ==
    ASSUME Typed, Places, Unmixed, [Next]_vars
    PROVE  Unmixed'
<1>1. CASE Arrives \/ Receive
  <2>1. Way' = Way
    BY <1>1, WayKeeps
  <2>2. UNCHANGED <<step, clean, frames>>
    BY <1>1 DEF Arrives, Receive, query, stream
  <2> QED
    BY <2>1, <2>2 DEF Unmixed
<1>2. CASE Query \/ StopStream \/ Drained
  <2>1. step' \notin {"stream", "failed"}
    BY <1>2 DEF Query, Begin, Write, WriteFails, TakeLine, Settled, TimesOut, ReadAborted,
                StopStream, Drained, Raises, Answers
  <2> QED
    BY <2>1 DEF Unmixed
<1>3. CASE ProducerFails
  <2>1. step = "stream" /\ step' = "failed" /\ UNCHANGED <<clean, frames>>
    BY <1>3 DEF ProducerFails, query, stream
  <2> QED
    BY <2>1 DEF Unmixed
<1>4. CASE Consume \/ UNCHANGED vars
  <2>1. UNCHANGED <<step, clean, frames, owed, rx, buf>>
    BY <1>4 DEF Consume, vars, wire, query, stream
  <2> QED
    BY <2>1 DEF Unmixed, Way
<1> QED
  BY <1>1, <1>2, <1>3, <1>4, UnmixedStart, UnmixedPushes, UnmixedTakeFrame DEF Next, Stream

-----------------------------------------------------------------------------
(* What the consumer gets.                                                 *)

LEMMA NewestLast ==
    ASSUME NEW s \in Seq(Nat), NEW m \in Nat, NEW f \in Nat, m < f, Ascending(s), AtMost(s, m)
    PROVE  /\ Ascending(Append(s, f)) /\ AtMost(Append(s, f), f)
           /\ Len(s) \in Nat /\ Len(Append(s, f)) = Len(s) + 1
           /\ Append(s, f)[Len(Append(s, f))] = f
<1> DEFINE t == Append(s, f)
<1>1. /\ Len(s) \in Nat /\ Len(t) = Len(s) + 1 /\ \A i \in 1..Len(s) : s[i] \in Nat
      /\ \A i \in 1..(Len(s) + 1) : t[i] = IF i <= Len(s) THEN s[i] ELSE f
  BY AppendPlaces, AppendProperties, ElementOfSeq
<1> HIDE DEF t
<1>2. ASSUME NEW i \in 1..Len(t), NEW j \in 1..Len(t), i < j PROVE t[i] < t[j]
  <2>1. i \in 1..Len(s) /\ t[i] = s[i]
    BY <1>1, <1>2
  <2>2. CASE j <= Len(s)
    <3>1. j \in 1..Len(s) /\ t[j] = s[j]
      BY <1>1, <2>2
    <3> QED
      BY <2>1, <3>1, <1>2 DEF Ascending
  <2>3. CASE ~(j <= Len(s))
    <3>1. t[j] = f
      BY <1>1, <2>3
    <3>2. s[i] <= m /\ s[i] \in Nat
      BY <2>1, <1>1 DEF AtMost
    <3> QED
      BY <2>1, <3>1, <3>2
  <2> QED
    BY <2>2, <2>3
<1>3. ASSUME NEW i \in 1..Len(t) PROVE t[i] <= f
  <2>1. CASE i <= Len(s)
    <3>1. i \in 1..Len(s) /\ t[i] = s[i]
      BY <1>1, <2>1
    <3>2. s[i] <= m /\ s[i] \in Nat
      BY <3>1, <1>1 DEF AtMost
    <3> QED
      BY <3>1, <3>2
  <2>2. CASE ~(i <= Len(s))
    <3>1. t[i] = f
      BY <1>1, <2>2
    <3> QED
      BY <3>1
  <2> QED
    BY <2>1, <2>2
<1>4. t[Len(t)] = f
  BY <1>1
<1>5. Ascending(t) /\ AtMost(t, f)
  BY <1>2, <1>3 DEF Ascending, AtMost
<1> QED
  BY <1>1, <1>4, <1>5 DEF t

LEMMA OldestGone ==
    ASSUME NEW a \in Seq(Nat), NEW q \in Seq(Nat), q # <<>>, NEW m,
           Ascending(a \o q), AtMost(a \o q, m)
    PROVE  /\ a \o Tail(q) \in Seq(Nat) /\ Len(a \o q) \in Nat
           /\ Len(a \o Tail(q)) = Len(a \o q) - 1
           /\ Ascending(a \o Tail(q)) /\ AtMost(a \o Tail(q), m)
<1> DEFINE s == a \o q
           t == a \o Tail(q)
<1>1. /\ Len(q) \in Nat /\ Len(q) > 0 /\ Tail(q) \in Seq(Nat) /\ Len(Tail(q)) = Len(q) - 1
      /\ \A i \in 1..(Len(q) - 1) : Tail(q)[i] = q[i + 1]
  BY TailPlaces, HeadTailProperties
<1>2. /\ Len(a) \in Nat /\ Len(s) = Len(a) + Len(q)
      /\ \A i \in 1..(Len(a) + Len(q)) : s[i] = IF i <= Len(a) THEN a[i] ELSE q[i - Len(a)]
  BY ConcatProperties, LenProperties
<1>3. /\ t \in Seq(Nat) /\ Len(t) = Len(a) + Len(Tail(q))
      /\ \A i \in 1..(Len(a) + Len(Tail(q))) : t[i] = IF i <= Len(a) THEN a[i] ELSE Tail(q)[i - Len(a)]
  BY <1>1, ConcatProperties
<1>4. Ascending(s) /\ AtMost(s, m)
  OBVIOUS
<1> HIDE DEF s, t
<1>5. Len(t) = Len(s) - 1 /\ Len(s) \in Nat /\ Len(a) < Len(s)
  BY <1>1, <1>2, <1>3
<1>6. ASSUME NEW i \in 1..Len(t)
      PROVE  (i <= Len(a) /\ t[i] = s[i]) \/ (i > Len(a) /\ t[i] = s[i + 1])
  <2>1. i \in 1..(Len(a) + Len(q)) /\ i + 1 \in 1..(Len(a) + Len(q)) /\ i \in 1..(Len(a) + Len(Tail(q)))
    BY <1>1, <1>2, <1>3
  <2>2. CASE i <= Len(a)
    BY <2>1, <2>2, <1>2, <1>3
  <2>3. CASE i > Len(a)
    <3>1. ~(i <= Len(a)) /\ ~(i + 1 <= Len(a)) /\ i - Len(a) \in 1..(Len(q) - 1) /\ (i - Len(a)) + 1 = i + 1 - Len(a)
      BY <2>1, <2>3, <1>1, <1>2
    <3>2. t[i] = Tail(q)[i - Len(a)]
      BY <2>1, <3>1, <1>3
    <3>3. Tail(q)[i - Len(a)] = q[(i - Len(a)) + 1]
      BY <3>1, <1>1
    <3>4. \A j \in 1..(Len(a) + Len(q)) : ~(j <= Len(a)) => s[j] = q[j - Len(a)]
      BY <1>2
    <3>5. s[i + 1] = q[i + 1 - Len(a)]
      BY <2>1, <3>1, <3>4, <1>1, <1>2
    <3> QED
      BY <2>3, <3>1, <3>2, <3>3, <3>5
  <2> QED
    BY <2>1, <2>2, <2>3, <1>2
<1>7. ASSUME NEW i \in 1..Len(t), NEW j \in 1..Len(t), i < j PROVE t[i] < t[j]
  <2>1. /\ i \in 1..Len(s) /\ i + 1 \in 1..Len(s) /\ j \in 1..Len(s) /\ j + 1 \in 1..Len(s)
        /\ i < j + 1 /\ i + 1 < j + 1
    BY <1>5, <1>7
  <2>2. CASE t[i] = s[i] /\ t[j] = s[j]
    BY <2>1, <2>2, <1>4, <1>7 DEF Ascending
  <2>3. CASE t[i] = s[i] /\ t[j] = s[j + 1]
    BY <2>1, <2>3, <1>4 DEF Ascending
  <2>4. CASE t[i] = s[i + 1] /\ t[j] = s[j + 1]
    BY <2>1, <2>4, <1>4 DEF Ascending
  <2>5. ~(i > Len(a) /\ j <= Len(a))
    BY <1>2, <1>7, <2>1
  <2> QED
    BY <2>2, <2>3, <2>4, <2>5, <1>6
<1>8. ASSUME NEW i \in 1..Len(t) PROVE t[i] <= m
  <2>1. i \in 1..Len(s) /\ i + 1 \in 1..Len(s)
    BY <1>5
  <2> QED
    BY <2>1, <1>4, <1>6 DEF AtMost
<1>9. Ascending(t) /\ AtMost(t, m)
  BY <1>7, <1>8 DEF Ascending, AtMost
<1> QED
  BY <1>3, <1>5, <1>9 DEF s, t

LEMMA ConsumedDispatch ==
    ASSUME Typed, Consumed, step = "stream", ~Blocked, NEW f \in Nat, Dispatch(f),
           UNCHANGED <<cfg, taken>>, step' \in {"stream", "failed"}
    PROVE  Consumed'
<1> DEFINE g == Len(frames.made) + 1
           m == Len(frames.made)
<1>1. /\ queue \in Seq(Nat) /\ taken \in Seq(Nat) /\ Got \in Seq(Nat)
      /\ m \in Nat /\ g \in Nat /\ m < g /\ g = m + 1 /\ frames.dropped \in Nat
      /\ Len(queue) \in Nat /\ Len(Got) \in Nat
  BY ConcatProperties, LenProperties DEF Typed, Got
<1>7. /\ Len(frames'.made) = g
      /\ Fits => queue' = Append(queue, g) /\ frames'.dropped = frames.dropped
      /\ ~Fits => queue' = Overflows(queue, g) /\ frames'.dropped = frames.dropped + 1
  BY DispatchIs
<1>2. /\ Ascending(Got) /\ AtMost(Got, m)
      /\ Len(Got) + frames.dropped = m
      /\ cfg.policy = "block" => frames.dropped = 0
      /\ Len(queue) <= Capacity + (IF cfg.policy = "block" THEN 1 ELSE 0)
  BY DEF Consumed
<1>3. Len(queue) <= Capacity /\ Capacity \in Nat \ {0}
  BY <1>1, WireAssumption DEF Blocked
<1>4. cfg' = cfg /\ cfg.policy \in {"block", "drop_oldest", "drop_newest"}
  BY DEF Typed
<1> HIDE DEF g, m
<1>5. CASE Fits
  <2>1. queue' = Append(queue, g)
    BY <1>5, <1>7
  <2>2. Got' = Append(Got, g)
    <3>1. taken \o Append(queue, g) = Append(taken \o queue, g)
      <4>1. taken \in Seq(Nat) /\ queue \in Seq(Nat)
        BY <1>1
      <4> QED
        BY <4>1, AppendToSecond
    <3> QED
      BY <2>1, <3>1 DEF Got
  <2>3. /\ Ascending(Append(Got, g)) /\ AtMost(Append(Got, g), g)
        /\ Len(Append(Got, g)) = Len(Got) + 1 /\ Append(Got, g)[Len(Append(Got, g))] = g
    BY <1>1, <1>2, NewestLast
  <2>4. Len(frames'.made) = m + 1 /\ frames'.dropped = frames.dropped /\ Len(frames'.made) = g
    BY <1>1, <1>5, <1>7
  <2>5. Len(Got') + frames'.dropped = Len(frames'.made) /\ Len(Got') > 0
    <3>1. Len(Got) \in Nat /\ m \in Nat /\ frames.dropped \in Nat /\ Len(Got) + frames.dropped = m
      BY <1>1, <1>2
    <3>2. Len(Got') = Len(Got) + 1
      BY <2>2, <2>3
    <3>3. Len(Got') + frames'.dropped = m + 1
      BY <2>4, <3>1, <3>2
    <3> QED
      BY <2>4, <3>1, <3>2, <3>3
  <2>6. Len(queue') = Len(queue) + 1
    BY <2>1, <1>1, AppendProperties
  <2>7. Len(queue') <= Capacity + (IF cfg.policy = "block" THEN 1 ELSE 0)
    BY <1>1, <1>3, <1>5, <2>6 DEF Fits
  <2>8. Ascending(Got') /\ AtMost(Got', Len(frames'.made)) /\ Got'[Len(Got')] = Len(frames'.made)
    BY <2>2, <2>3, <2>4
  <2>9. Len(Got') + frames'.dropped <= Len(frames'.made)
    BY <2>4, <2>5, <1>1
  <2> QED
    BY <1>2, <1>4, <2>4, <2>5, <2>7, <2>8, <2>9 DEF Consumed
<1>6. CASE ~Fits
  <2>1. queue' = Overflows(queue, g)
    BY <1>6, <1>7
  <2>2. Len(frames'.made) = m + 1 /\ frames'.dropped = frames.dropped + 1 /\ Len(frames'.made) = g
    BY <1>1, <1>6, <1>7
  <2>3. queue # <<>> /\ Len(queue) = Capacity
    BY <1>1, <1>3, <1>6 DEF Fits
  <2>4. CASE cfg.policy = "drop_oldest"
    <3> DEFINE s == taken \o Tail(queue)
    <3>1. queue' = Append(Tail(queue), g)
      BY <2>1, <2>4 DEF Overflows
    <3>2. Tail(queue) \in Seq(Nat) /\ Len(Tail(queue)) = Len(queue) - 1
      BY <1>1, <2>3, HeadTailProperties
    <3>3. /\ s \in Seq(Nat) /\ Len(s) = Len(Got) - 1 /\ Ascending(s) /\ AtMost(s, m)
      BY <1>1, <1>2, <2>3, OldestGone DEF Got
    <3>4. Got' = Append(s, g)
      <4>1. taken \o Append(Tail(queue), g) = Append(s, g)
        BY <1>1, <3>2, AppendToSecond
      <4> QED
        BY <3>1, <4>1 DEF Got
    <3> HIDE DEF s
    <3>5. /\ Ascending(Append(s, g)) /\ AtMost(Append(s, g), g) /\ Len(s) \in Nat
          /\ Len(Append(s, g)) = Len(s) + 1 /\ Append(s, g)[Len(Append(s, g))] = g
      BY <1>1, <3>3, NewestLast
    <3>6. Len(Got') = Len(Got) /\ Len(Got') > 0
      BY <1>1, <3>3, <3>4, <3>5
    <3>7. Len(queue') = Len(queue)
      <4>1. Len(queue') = Len(Tail(queue)) + 1
        BY <3>1, <3>2, AppendProperties
      <4> QED
        BY <4>1, <3>2, <1>1
    <3>8. Len(queue') <= Capacity + 0
      BY <2>3, <3>7, <1>3
    <3>9. Ascending(Got') /\ AtMost(Got', Len(frames'.made)) /\ Got'[Len(Got')] = Len(frames'.made)
      BY <2>2, <3>4, <3>5
    <3>10. Len(Got') + frames'.dropped = Len(frames'.made) /\ Len(Got') + frames'.dropped <= Len(frames'.made)
      <4>1. Len(Got) \in Nat /\ m \in Nat /\ frames.dropped \in Nat /\ Len(Got) + frames.dropped = m
        BY <1>1, <1>2
      <4>2. Len(Got') + frames'.dropped = m + 1
        BY <2>2, <3>6, <4>1
      <4> QED
        BY <2>2, <4>1, <4>2
    <3> QED
      BY <1>4, <2>4, <3>6, <3>8, <3>9, <3>10 DEF Consumed
  <2>5. CASE cfg.policy = "drop_newest"
    <3>1. queue' = queue /\ Got' = Got
      BY <2>1, <2>5 DEF Overflows, Got
    <3>2. AtMost(Got, g)
      <4>1. ASSUME NEW i \in 1..Len(Got) PROVE Got[i] <= g
        <5>1. Got[i] <= m /\ Got[i] \in Nat
          BY <1>1, <1>2, ElementOfSeq DEF AtMost
        <5> QED
          BY <5>1, <1>1
      <4> QED
        BY <4>1 DEF AtMost
    <3>3. Len(Got') + frames'.dropped = Len(frames'.made) /\ Len(Got') + frames'.dropped <= Len(frames'.made)
      <4>1. Len(Got) \in Nat /\ m \in Nat /\ frames.dropped \in Nat /\ Len(Got) + frames.dropped = m
        BY <1>1, <1>2
      <4>2. Len(Got') + frames'.dropped = m + 1
        BY <2>2, <3>1, <4>1
      <4> QED
        BY <2>2, <4>1, <4>2
    <3>4. Len(queue') <= Capacity + 0
      BY <1>1, <1>3, <3>1
    <3> QED
      BY <1>2, <1>4, <2>2, <2>5, <3>1, <3>2, <3>3, <3>4 DEF Consumed
  <2> QED
    BY <1>4, <1>6, <2>4, <2>5 DEF Fits
<1> QED
  BY <1>5, <1>6

LEMMA ConsumedStep ==
    ASSUME Typed, InOrder, Consumed, [Next]_vars
    PROVE  Consumed'
<1>1. /\ queue \in Seq(Nat) /\ taken \in Seq(Nat) /\ Len(queue) \in Nat /\ Len(taken) \in Nat
      /\ Len(frames.made) \in Nat /\ frames.dropped \in Nat
      /\ Len(Got) = Len(taken) + Len(queue)
      /\ \A i \in 1..Len(taken) : Got[i] = taken[i]
  BY ConcatPlaces, LenProperties DEF Typed, Got
<1>2. CASE TakeFrame
  <2>1. step = "stream" /\ HasLine(buf) /\ ~Blocked /\ UNCHANGED <<cfg, taken>>
    BY <1>2 DEF TakeFrame
  <2>2. CASE Dispatch(FrameIn(FirstLine(buf)))
    <3>1. step' \in {"stream", "failed"} /\ FrameIn(FirstLine(buf)) \in Nat
      BY <1>2, <2>1, FrameInIs DEF TakeFrame
    <3> QED
      BY <2>1, <2>2, <3>1, ConsumedDispatch
  <2>3. CASE UNCHANGED <<frames, queue>>
    BY <2>1, <2>3 DEF Consumed, Got
  <2> QED
    BY <1>2, <2>2, <2>3 DEF TakeFrame
<1>3. CASE Consume
  <2>1. queue # <<>> /\ taken' = Append(taken, Head(queue)) /\ queue' = Tail(queue)
        /\ UNCHANGED <<cfg, step, frames>>
    BY <1>3 DEF Consume
  <2>2. Got' = Got
    <3>1. Append(taken, Head(queue)) \o Tail(queue) = taken \o queue
      BY <1>1, <2>1, MoveOne
    <3> QED
      BY <2>1, <3>1 DEF Got
  <2>3. Len(queue') = Len(queue) - 1
    BY <1>1, <2>1, HeadTailProperties
  <2>4. step = "stream" => Len(queue') <= Capacity + (IF cfg.policy = "block" THEN 1 ELSE 0)
    BY <1>1, <2>3, WireAssumption DEF Consumed
  <2> QED
    BY <2>1, <2>2, <2>4 DEF Consumed
<1>4. CASE StopStream
  <2>1. queue' = <<>> /\ step' = "drain" /\ UNCHANGED <<cfg, frames, taken>>
    BY <1>4 DEF StopStream
  <2>2. Got' = taken
    BY <1>1, <2>1, ConcatEmptySeq DEF Got
  <2>3. \A i \in 1..Len(taken) : i \in 1..Len(Got) /\ Got[i] = taken[i]
    BY <1>1
  <2>4. Ascending(taken) /\ AtMost(taken, Len(frames.made))
    BY <2>3 DEF Consumed, Ascending, AtMost
  <2>5. Len(taken) + frames.dropped <= Len(frames.made)
    BY <1>1 DEF Consumed
  <2> QED
    BY <2>1, <2>2, <2>4, <2>5 DEF Consumed
<1>5. CASE StartStream
  <2>1. frames = NoFrames /\ UNCHANGED <<cfg, frames, queue, taken>>
    BY <1>5 DEF StartStream, stream
  <2>2. Len(frames.made) = 0 /\ frames.dropped = 0
    BY <2>1, EmptySeq DEF NoFrames
  <2>3. Len(Got) = 0 /\ Len(queue) = 0
    BY <1>1, <2>2 DEF Consumed
  <2>4. Got' = Got
    BY <2>1 DEF Got
  <2>5. Len(queue) <= Capacity + (IF cfg.policy = "block" THEN 1 ELSE 0)
    BY <2>3, WireAssumption
  <2> QED
    BY <2>1, <2>2, <2>3, <2>4, <2>5 DEF Consumed
<1>6. CASE Pushes
  <2>1. UNCHANGED <<cfg, step, queue, taken>> /\ frames'.made = frames.made
        /\ frames'.dropped = frames.dropped
    BY <1>6 DEF Pushes, Typed
  <2> QED
    BY <2>1 DEF Consumed, Got
<1>7. CASE Arrives \/ Receive \/ Query \/ Drained \/ ProducerFails \/ UNCHANGED vars
  <2>1. UNCHANGED <<cfg, frames, queue, taken>>
    BY <1>7 DEF Arrives, Receive, Query, Begin, Write, WriteFails, TakeLine, Settled, TimesOut,
                ReadAborted, Drained, ProducerFails, stream, vars
  <2>2. step' = "stream" => step = "stream"
    BY <1>7 DEF Arrives, Receive, Query, Begin, Write, WriteFails, TakeLine, Settled, TimesOut,
                ReadAborted, Drained, ProducerFails, Raises, Answers, vars
  <2> QED
    BY <2>1, <2>2 DEF Consumed, Got
<1> QED
  BY <1>2, <1>3, <1>4, <1>5, <1>6, <1>7 DEF Next, Stream

-----------------------------------------------------------------------------
(* The theorems.                                                           *)

LEMMA WireInit == ASSUME Init PROVE WireInv
<1>1. Typed
  BY TypedInit
<1>2. Places /\ Asked /\ AnswersMatch
  BY DEF Init, Places, Asked, AnswersMatch
<1>3. frames.sent = 0 /\ Len(frames.made) = 0 /\ frames.dropped = 0
  BY EmptySeq DEF Init, NoFrames
<1>4. InOrder /\ Unmixed
  BY <1>3 DEF Init, InOrder, Unmixed, Numbered, AtMost, Ordered
<1>5. Len(Got) = 0
  BY ConcatEmptySeq, EmptySeq DEF Init, Got
<1>6. Consumed
  BY <1>3, <1>5 DEF Init, Consumed, Ascending, AtMost
<1> QED
  BY <1>1, <1>2, <1>4, <1>6 DEF WireInv

LEMMA WireStep == ASSUME WireInv, [Next]_vars PROVE WireInv'
BY TypedStep, AnswerStep, OrderStep, UnmixedStep, ConsumedStep DEF WireInv

LEMMA WireAlways == Spec => []WireInv
<1>1. Init => WireInv
  BY WireInit
<1>2. WireInv /\ [Next]_vars => WireInv'
  BY WireStep
<1> QED
  BY <1>1, <1>2, PTL DEF Spec

\* A query that began with nothing under way returns the lines of its own reply, whole
\* and in order, however the bytes come in pieces, late or not at all.
THEOREM AnswersAreOwn == Spec => []AnswersMatch
<1>1. WireInv => AnswersMatch
  BY DEF WireInv
<1> QED
  BY <1>1, WireAlways, PTL

\* The consumer of a stream gets what the producer made, each once and in order, and what
\* it does not get is counted as dropped, as its policy says.  The device's frames keep
\* their order; if nothing was under way when the stream began there are no others.
THEOREM FramesAreHonest == Spec => []FramesHonest
<1>1. WireInv => FramesHonest
  <2> SUFFICES ASSUME WireInv PROVE FramesHonest
    OBVIOUS
  <2>1. /\ Got \in Seq(Nat) /\ Len(Got) \in Nat
        /\ frames.made \in Seq(Nat) /\ Len(frames.made) \in Nat
        /\ DOMAIN frames.made = 1..Len(frames.made)
    BY ConcatProperties, LenProperties DEF WireInv, Typed, Got
  <2>2. ASSUME NEW i \in 1..(Len(Got) - 1) PROVE Got[i] < Got[i + 1]
    <3>1. i \in 1..Len(Got) /\ i + 1 \in 1..Len(Got) /\ i < i + 1
      BY <2>1
    <3> QED
      BY <3>1 DEF WireInv, Consumed, Ascending
  <2>3. step = "stream" =>
            /\ Len(Got) + frames.dropped = Len(frames.made)
            /\ cfg.policy = "drop_oldest" /\ Len(frames.made) > 0 => Got[Len(Got)] = Len(frames.made)
            /\ cfg.policy = "block" => frames.dropped = 0
            /\ Len(queue) <= Capacity + (IF cfg.policy = "block" THEN 1 ELSE 0)
    BY DEF WireInv, Consumed
  <2>4. frames.made # <<>> => Len(frames.made) > 0
    BY <2>1, EmptySeq
  <2>5. \A i, j \in DOMAIN frames.made :
            i < j /\ frames.made[i] # 0 /\ frames.made[j] # 0 => frames.made[i] < frames.made[j]
    BY <2>1 DEF WireInv, InOrder, Ordered
  <2>6. step \in {"stream", "failed"} /\ clean => \A i \in DOMAIN frames.made : frames.made[i] = i
    BY <2>1 DEF WireInv, Unmixed
  <2> QED
    BY <2>2, <2>3, <2>4, <2>5, <2>6 DEF FramesHonest, Got, Last
<1> QED
  BY <1>1, WireAlways, PTL

=============================================================================
