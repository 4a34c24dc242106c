--------------------------- MODULE Keyboard_proofs ---------------------------
(***************************************************************************)
(* Proofs about Keyboard, for every set of goals and axes and every limit: *)
(* type correctness, and that the controller receives no velocity more     *)
(* than one step beyond its limit and no orientation beyond the limit.     *)
(***************************************************************************)
EXTENDS Keyboard, FiniteSetTheorems, TLAPS

(* The statements the key thread may have left.                            *)
GoalOf == {<<"goal", g>> : g \in Goal}
StepOf == {<<"step", a, d>> : a \in Axis, d \in {-1, 1}}
StopOf == {<<"stop", a>> : a \in Axis}
TurnOf == {<<"turn", d>> : d \in {-1, 1}}
Plain ==
  {<<w>> : w \in {"begin goal", "upright", "quit", "escape", "limit", "begin pose", "pose"}}
Statements == GoalOf \cup StepOf \cup StopOf \cup TurnOf \cup Plain

(* What may leave the limits, or turn into what may, is followed by them.  *)
Leaves(statement) == statement[1] \in {"step", "turn", "escape"}
Followed(s) == \A i \in 1..Len(s) : Leaves(s[i]) => i < Len(s) /\ s[i + 1] = <<"limit">>

(* The pose is assigned only when the limits have been applied.            *)
Posing(statement) == statement[1] \in {"begin pose", "pose"}
Limited(s) ==
  \A i \in 1..Len(s) : i < Len(s) /\ Posing(s[i + 1]) => s[i] = <<"limit">> \/ Posing(s[i])

TodoOK == todo \in Seq(Statements) /\ Followed(todo) /\ Limited(todo)

(* Only where the limits come next may a velocity be beyond them; the      *)
(* angle is within them where the pose comes next.                         *)
AngleOK == todo # <<>> /\ Posing(Head(todo)) => angle \in Within(Limit)

FieldsOK ==
  /\ ~ Doing("limit") => twist \in [Axis -> Within(Limit)]
  /\ AngleOK
  /\ pose \in Within(Limit) \cup {Torn}

IInv == TypeOK /\ TodoOK /\ FieldsOK /\ LimitsReceived
-----------------------------------------------------------------------------
(* Short sequences, and one sequence behind another.                       *)
LEMMA Tuples ==
  ASSUME NEW S, NEW a \in S, NEW b \in S, NEW c \in S
  PROVE  /\ <<a>> \in Seq(S) /\ <<a, b>> \in Seq(S) /\ <<a, b, c>> \in Seq(S)
         /\ Len(<<a>>) = 1 /\ Len(<<a, b>>) = 2 /\ Len(<<a, b, c>>) = 3
         /\ \A i \in 1..1 : i = 1 /\ <<a>>[i] = a
         /\ Head(<<a>>) = a /\ Head(<<a, b>>) = a /\ <<a, b>>[1] = a /\ <<a, b>>[2] = b
OBVIOUS

LEMMA Concat ==
  ASSUME NEW S, NEW s \in Seq(S), NEW t \in Seq(S)
  PROVE  /\ s \o t \in Seq(S) /\ Len(s \o t) = Len(s) + Len(t)
         /\ \A i \in 1..Len(s) + Len(t) :
              (s \o t)[i] = IF i <= Len(s) THEN s[i] ELSE t[i - Len(s)]
OBVIOUS

(* What a statement may name.                                              *)
LEMMA ArgumentOK ==
  ASSUME NEW s \in Statements
  PROVE  /\ s[1] = "goal" => s[2] \in Goal
         /\ s[1] = "step" => s[3] \in {-1, 1}
         /\ s[1] = "turn" => s[2] \in {-1, 1}
         /\ s[1] = "limit" => s = <<"limit">>
<1>1. CASE s \in GoalOf
  BY <1>1 DEF GoalOf
<1>2. CASE s \in StepOf
  BY <1>2 DEF StepOf
<1>3. CASE s \in StopOf
  BY <1>3 DEF StopOf
<1>4. CASE s \in TurnOf
  BY <1>4 DEF TurnOf
<1>5. CASE s \in Plain
  <2>1. PICK w \in {"begin goal", "upright", "quit", "escape", "limit", "begin pose", "pose"} :
          s = <<w>>
    BY <1>5 DEF Plain
  <2> QED
    BY <2>1
<1> QED
  BY <1>1, <1>2, <1>3, <1>4, <1>5 DEF Statements

(* The plain statements, and what they are not.                            *)
LEMMA PlainOK ==
  /\ \A w \in {"begin goal", "upright", "quit", "escape", "limit", "begin pose", "pose"} :
       <<w>> \in Statements
  /\ <<"begin goal">> \in Statements /\ <<"limit">> \in Statements
  /\ <<"begin pose">> \in Statements /\ <<"pose">> \in Statements
<1>1. \A w \in {"begin goal", "upright", "quit", "escape", "limit", "begin pose", "pose"} :
        <<w>> \in Plain
  BY Zenon DEF Plain
<1> QED
  BY <1>1 DEF Statements

(* The statements that assign the pose.                                    *)
LEMMA PosingOK ==
  /\ ~ Posing(<<"limit">>) /\ Posing(<<"begin pose">>) /\ Posing(<<"pose">>)
  /\ \A s : s[1] \notin {"begin pose", "pose"} => ~ Posing(s)
<1>1. /\ <<"limit">>[1] = "limit" /\ <<"begin pose">>[1] = "begin pose"
      /\ <<"pose">>[1] = "pose"
  OBVIOUS
<1> QED
  BY <1>1, Zenon DEF Posing

LEMMA HeadOK ==
  ASSUME TodoOK, todo # <<>>
  PROVE  /\ Head(todo) \in Statements
         /\ Tail(todo) \in Seq(Statements) /\ Followed(Tail(todo))
         /\ Limited(Tail(todo))
         /\ Leaves(Head(todo)) => Tail(todo) # <<>> /\ Head(Tail(todo)) = <<"limit">>
         /\ Tail(todo) # <<>> /\ Posing(Head(Tail(todo)))
              => Head(todo) = <<"limit">> \/ Posing(Head(todo))
<1>1. todo \in Seq(Statements) /\ Len(todo) \in Nat \ {0}
  BY DEF TodoOK
<1>2. Head(todo) = todo[1] /\ Tail(todo) \in Seq(Statements) /\ Len(Tail(todo)) = Len(todo) - 1
  BY <1>1
<1>3. \A i \in 1..Len(Tail(todo)) : Tail(todo)[i] = todo[i + 1]
  BY <1>1
<1>4. Followed(Tail(todo))
  BY <1>1, <1>2, <1>3 DEF TodoOK, Followed
<1>5. ASSUME Leaves(todo[1]) PROVE Len(todo) > 1 /\ todo[2] = <<"limit">>
  BY <1>1, <1>5 DEF TodoOK, Followed
<1>6. Limited(Tail(todo))
  BY <1>1, <1>2, <1>3 DEF TodoOK, Limited
<1>7. ASSUME Len(todo) > 1, Posing(todo[2]) PROVE todo[1] = <<"limit">> \/ Posing(todo[1])
  BY <1>1, <1>7 DEF TodoOK, Limited
<1> QED
  BY <1>1, <1>2, <1>3, <1>4, <1>5, <1>6, <1>7

(* The effect of a key, with the limits and the pose behind it.            *)
LEMMA AlwaysAfter ==
  ASSUME NEW e \in Seq(Statements),
         \A i \in 1..Len(e) : ~ Posing(e[i]) /\ (Leaves(e[i]) => i = Len(e))
  PROVE  /\ e \o Always \in Seq(Statements) /\ Followed(e \o Always)
         /\ Limited(e \o Always) /\ ~ Posing(Head(e \o Always))
<1>1. Always \in Seq(Statements) /\ Len(Always) = 3
  <2>1. <<"limit">> \in Statements /\ <<"begin pose">> \in Statements /\ <<"pose">> \in Statements
    BY PlainOK
  <2> QED
    BY <2>1, Tuples DEF Always
<1>2. /\ e \o Always \in Seq(Statements) /\ Len(e \o Always) = Len(e) + 3
      /\ \A i \in 1..Len(e) + 3 :
           (e \o Always)[i] = IF i <= Len(e) THEN e[i] ELSE Always[i - Len(e)]
  <2>1. /\ e \o Always \in Seq(Statements) /\ Len(e \o Always) = Len(e) + Len(Always)
        /\ \A i \in 1..Len(e) + Len(Always) :
             (e \o Always)[i] = IF i <= Len(e) THEN e[i] ELSE Always[i - Len(e)]
    BY <1>1, Concat, Zenon
  <2> QED
    BY <1>1, <2>1
<1>3. /\ Always[1] = <<"limit">> /\ \A i \in 1..3 : ~ Leaves(Always[i])
      /\ ~ Posing(Always[1]) /\ Posing(Always[2])
  <2>1. /\ Always[1] = <<"limit">> /\ Always[2] = <<"begin pose">>
        /\ Always[3] = <<"pose">>
    BY DEF Always
  <2>2. \A i \in 1..3 : i = 1 \/ i = 2 \/ i = 3
    OBVIOUS
  <2>3. /\ ~ Leaves(<<"limit">>) /\ ~ Leaves(<<"begin pose">>)
        /\ ~ Leaves(<<"pose">>)
    BY DEF Leaves
  <2>4. \A i \in 1..3 : ~ Leaves(Always[i])
    BY <2>1, <2>2, <2>3
  <2> QED
    BY <2>1, <2>4, PosingOK
<1> DEFINE t == e \o Always
<1>4. Len(e) \in Nat /\ Len(t) = Len(e) + 3 /\ t \in Seq(Statements)
  BY <1>2
<1>5. Followed(t)
  BY <1>1, <1>2, <1>3 DEF Followed
<1>6. \A i \in 1..Len(e) + 1 : ~ Posing(t[i])
  BY <1>2, <1>3, <1>4
<1>7. t[Len(e) + 1] = <<"limit">> /\ Posing(t[Len(e) + 2])
  BY <1>2, <1>3, <1>4
<1> HIDE DEF t
<1>8. Limited(t)
  <2>1. ASSUME NEW i \in 1..Len(t), i < Len(t), Posing(t[i + 1])
        PROVE  t[i] = <<"limit">> \/ Posing(t[i])
    <3>1. i = Len(e) + 1 \/ i = Len(e) + 2
      BY <1>4, <1>6, <2>1
    <3> QED
      BY <1>7, <3>1
  <2> QED
    BY <2>1 DEF Limited
<1>9. ~ Posing(Head(t))
  BY <1>4, <1>6
<1> QED
  BY <1>4, <1>5, <1>8, <1>9 DEF t

LEMMA AxesOK == SetToSeq(Axis) \in Seq(Axis)
<1>1. Cardinality(Axis) \in Nat /\ ExistsBijection(1..Cardinality(Axis), Axis)
  BY FS_CardinalityType, KeyboardAssumption DEF Axis
<1>2. PICK f \in [1..Cardinality(Axis) -> Axis] : IsInjective(f)
  BY <1>1 DEF ExistsBijection, Bijection, Injection
<1>3. SetToSeq(Axis) \in [1..Cardinality(Axis) -> Axis]
  BY <1>2 DEF SetToSeq
<1> QED
  BY <1>1, <1>3

LEMMA EffectOK ==
  ASSUME NEW e \in Effects
  PROVE  /\ e \in Seq(Statements)
         /\ \A i \in 1..Len(e) : ~ Posing(e[i]) /\ (Leaves(e[i]) => i = Len(e))
         /\ e # <<>> /\ Head(e) = <<"begin goal">> => e[2][2] \in Goal
<1> DEFINE OK(s) ==
      /\ s \in Seq(Statements)
      /\ \A i \in 1..Len(s) : ~ Posing(s[i]) /\ (Leaves(s[i]) => i = Len(s))
      /\ (s # <<>> /\ Head(s) = <<"begin goal">>) => s[2][2] \in Goal
<1>1. ASSUME NEW g \in Goal PROVE OK(<<<<"begin goal">>, <<"goal", g>>>>)
  <2> DEFINE s1 == <<"begin goal">>  s2 == <<"goal", g>>
  <2>1. /\ s1 \in Statements /\ ~ Leaves(s1) /\ ~ Posing(s1)
        /\ s2 \in Statements /\ ~ Leaves(s2) /\ ~ Posing(s2) /\ s2[2] = g
    BY PlainOK DEF Statements, GoalOf, Leaves, Posing
  <2> HIDE DEF s1, s2
  <2>2. \A i \in 1..Len(<<s1, s2>>) : ~ Leaves(<<s1, s2>>[i]) /\ ~ Posing(<<s1, s2>>[i])
    <3>1. \A i \in 1..Len(<<s1, s2>>) : i = 1 \/ i = 2
      BY <2>1, Tuples
    <3> QED
      BY <2>1, <3>1, Tuples
  <2>3. <<s1, s2>> \in Seq(Statements) /\ <<s1, s2>>[2][2] \in Goal
    BY <2>1, Tuples
  <2>4. OK(<<s1, s2>>)
    BY <2>2, <2>3
  <2> QED
    BY <2>4 DEF s1, s2
<1>2. ASSUME NEW s \in Statements, s # <<"begin goal">>, ~ Posing(s) PROVE OK(<<s>>)
  <2>1. <<s>> \in Seq(Statements) /\ Len(<<s>>) = 1 /\ Head(<<s>>) = s
    BY <1>2, Tuples
  <2>2. \A i \in 1..Len(<<s>>) : i = Len(<<s>>) /\ <<s>>[i] = s
    BY <2>1
  <2> QED
    BY <1>2, <2>1, <2>2, Zenon
<1>3. OK(Stop)
  <2> DEFINE axes == SetToSeq(Axis)  stops == [i \in DOMAIN axes |-> <<"stop", axes[i]>>]
  <2>1. axes \in Seq(Axis)
    BY AxesOK
  <2>2. stops = [i \in 1..Len(axes) |-> <<"stop", axes[i]>>]
    BY <2>1
  <2> HIDE DEF axes
  <2>3. \A i \in 1..Len(axes) : stops[i] \in Statements /\ stops[i][1] = "stop"
    <3>1. \A i \in 1..Len(axes) : <<"stop", axes[i]>> \in StopOf
      BY <2>1 DEF StopOf
    <3> QED
      BY <2>2, <3>1 DEF Statements
  <2> HIDE DEF stops
  <2>4. stops \in Seq(Statements) /\ Len(stops) = Len(axes)
    BY <2>1, <2>2, <2>3
  <2>5. \A i \in 1..Len(stops) : ~ Leaves(stops[i]) /\ ~ Posing(stops[i])
    BY <2>3, <2>4 DEF Leaves, Posing
  <2>6. ASSUME stops # <<>> PROVE Head(stops) # <<"begin goal">>
    <3>1. Head(stops)[1] = "stop"
      BY <2>3, <2>4, <2>6
    <3>2. <<"begin goal">>[1] = "begin goal"
      OBVIOUS
    <3> QED
      BY <3>1, <3>2
  <2>7. OK(stops)
    BY <2>4, <2>5, <2>6
  <2> QED
    BY <2>7 DEF stops, axes, Stop
<1>4. OK(<<>>)
  OBVIOUS
<1>5. ASSUME NEW s \in Steps \cup Turns \cup {<<"upright">>, <<"quit">>, <<"escape">>}
      PROVE  s \in Statements /\ s # <<"begin goal">> /\ ~ Posing(s)
  <2> <<"begin goal">>[1] = "begin goal"
    OBVIOUS
  <2>1. CASE s \in Steps
    <3>1. PICK a \in KeyAxis, d \in {-1, 1} : s = <<"step", a, d>>
      BY <2>1 DEF Steps
    <3>2. s \in StepOf /\ s[1] = "step" /\ ~ Posing(s)
      BY <3>1 DEF StepOf, Axis, Posing
    <3>3. s \in Statements
      BY <3>2 DEF Statements
    <3> QED
      BY <3>2, <3>3, Zenon
  <2>2. CASE s \in Turns
    <3>1. s \in TurnOf /\ s[1] = "turn"
      BY <2>2 DEF Turns, TurnOf
    <3>2. s \in Statements
      BY <3>1 DEF Statements
    <3>3. ~ Posing(s)
      BY <3>1, PosingOK
    <3> QED
      BY <3>1, <3>2, <3>3, Zenon
  <2>3. CASE s \in {<<"upright">>, <<"quit">>, <<"escape">>}
    <3>1. s \in Statements
      BY <2>3, PlainOK, Zenon
    <3>2. s[1] \in {"upright", "quit", "escape"}
      BY <2>3
    <3>3. ~ Posing(s)
      BY <3>2, PosingOK
    <3> QED
      BY <3>1, <3>2, <3>3
  <2> QED
    BY <2>1, <2>2, <2>3
<1> HIDE DEF OK
<1>6. CASE e \in {<<<<"begin goal">>, <<"goal", g>>>> : g \in Goal}
  BY <1>1, <1>6 DEF OK
<1>7. CASE e \in {<<s>> : s \in Steps \cup Turns \cup {<<"upright">>, <<"quit">>, <<"escape">>}}
  BY <1>2, <1>5, <1>7 DEF OK
<1>8. CASE e \in {Stop, <<>>}
  BY <1>3, <1>4, <1>8 DEF OK
<1> QED
  BY <1>6, <1>7, <1>8 DEF Effects
-----------------------------------------------------------------------------
LEMMA InitOK == Init => IInv
<1> SUFFICES ASSUME Init PROVE IInv
  OBVIOUS
<1>1. Limit \in Nat \ {0} /\ "idle" \in Goal
  BY KeyboardAssumption
<1>2. TypeOK
  BY <1>1, KeyboardAssumption DEF Init, TypeOK, Within, AnyGoal, Follower
<1>3. TodoOK /\ ~ Doing("limit") /\ todo = <<>>
  BY DEF Init, TodoOK, Followed, Limited, Doing
<1>4. FieldsOK /\ LimitsReceived
  BY <1>1, <1>3 DEF Init, FieldsOK, AngleOK, LimitsReceived, Within
<1> QED
  BY <1>2, <1>3, <1>4 DEF IInv

(* A value within the limits is one within a step of them.                 *)
LEMMA WithinOK ==
  /\ Limit \in Nat \ {0} /\ 0 \in Within(Limit)
  /\ \A v \in Within(Limit) : v \in Within(Limit + 1) /\ v \in Int
  /\ \A v \in Within(Limit), d \in {-1, 1} : v + d \in Within(Limit + 1)
  /\ \A v \in Within(Limit + 1) : v \in Int
  /\ \A v \in Int : Clamp(v) \in Within(Limit)
BY KeyboardAssumption DEF Within, Clamp

LEMMA ConstructStep == IInv /\ Construct => IInv'
<1> SUFFICES ASSUME IInv, Construct PROVE IInv'
  OBVIOUS
<1>1. building' \in {<<"angle", "goal">>, <<"goal">>, <<>>}
  <2>1. Tail(<<"angle", "goal">>) = <<"goal">> /\ Tail(<<"goal">>) = <<>>
    OBVIOUS
  <2>2. building' = Tail(building) /\ building \in {<<"angle", "goal">>, <<"goal">>}
    BY DEF Construct, IInv, TypeOK
  <2> QED
    BY <2>1, <2>2, Zenon
<1>2. angle' = 0 \/ angle' = angle
  BY DEF Construct
<1>3. goal' \in AnyGoal /\ wanted' \in Goal \cup {"none"}
  BY KeyboardAssumption DEF Construct, IInv, TypeOK, AnyGoal
<1>4. TypeOK'
  BY <1>1, <1>2, <1>3, WithinOK DEF Construct, IInv, TypeOK
<1>5. FieldsOK'
  BY <1>2, WithinOK DEF Construct, IInv, FieldsOK, AngleOK, Doing
<1> QED
  BY <1>4, <1>5 DEF Construct, IInv, TodoOK, LimitsReceived

(* A key is taken only where nothing is left of the last.                  *)
LEMMA TakeKeyStep == IInv /\ TakeKey => IInv'
<1> SUFFICES ASSUME IInv, TakeKey PROVE IInv'
  OBVIOUS
<1>1. PICK e \in Effects :
        /\ todo' = e \o Always
        /\ wanted' = IF e # <<>> /\ Head(e) = <<"begin goal">>
                     THEN IF building = <<>> THEN e[2][2] ELSE "none"
                     ELSE wanted
  BY DEF TakeKey
<1>2. wanted' \in Goal \cup {"none"}
  BY <1>1, EffectOK DEF IInv, TypeOK
<1>3. TodoOK' /\ ~ Posing(Head(todo'))
  BY <1>1, EffectOK, AlwaysAfter DEF TodoOK
<1>4. ~ Doing("limit")
  BY DEF TakeKey, Doing
<1>5. TypeOK'
  BY <1>2 DEF TakeKey, fields, IInv, TypeOK
<1>6. FieldsOK'
  BY <1>3, <1>4 DEF TakeKey, fields, IInv, FieldsOK, AngleOK
<1> QED
  BY <1>3, <1>5, <1>6 DEF TakeKey, fields, IInv, LimitsReceived

LEMMA EscapeStep == IInv /\ Escape => IInv'
<1> SUFFICES ASSUME IInv, Escape PROVE IInv'
  OBVIOUS
<1>1. todo # <<>> /\ Leaves(Head(todo))
  BY DEF Escape, Doing, Leaves
<1>2. /\ Tail(todo) \in Seq(Statements) /\ Followed(Tail(todo)) /\ Limited(Tail(todo))
      /\ Len(Tail(todo)) \in Nat \ {0} /\ Tail(todo)[1] = <<"limit">>
  BY <1>1, HeadOK DEF IInv
<1>3. TodoOK' /\ ~ Posing(Head(todo'))
  <2>1. CASE Advance
    <3>1. todo' = Tail(todo) /\ TodoOK'
      BY <1>2, <2>1 DEF Advance, TodoOK
    <3>2. Head(todo') = <<"limit">>
      BY <1>1, <3>1, HeadOK DEF IInv
    <3> QED
      BY <3>1, <3>2, PosingOK
  <2>2. ASSUME NEW a \in ArrowAxis, NEW d \in {-1, 1},
               todo' = <<<<"step", a, d>>>> \o Tail(todo)
        PROVE  TodoOK' /\ ~ Posing(Head(todo'))
    <3> DEFINE s == <<"step", a, d>>  rest == Tail(todo)
    <3>1. s \in Statements /\ ~ Posing(s)
      BY DEF Statements, StepOf, Axis, Posing
    <3> HIDE DEF s, rest
    <3>2. <<s>> \in Seq(Statements) /\ Len(<<s>>) = 1 /\ rest \in Seq(Statements)
      BY <1>2, <3>1, Tuples DEF rest
    <3>3. /\ <<s>> \o rest \in Seq(Statements) /\ Len(<<s>> \o rest) = 1 + Len(rest)
          /\ \A i \in 1..1 + Len(rest) : i > 1 => (<<s>> \o rest)[i] = rest[i - 1]
      BY <3>2, Concat
    <3> DEFINE t == <<s>> \o rest
    <3>4. Len(rest) \in Nat \ {0} /\ rest[1] = <<"limit">> /\ Followed(rest) /\ Limited(rest)
      BY <1>2 DEF rest
    <3>5. /\ Len(t) = 1 + Len(rest) /\ \A i \in 1..Len(rest) : t[i + 1] = rest[i]
          /\ Head(t) = s
      BY <3>2, <3>3, <3>4
    <3> HIDE DEF t
    <3>6. ASSUME NEW i \in 1..Len(t), Leaves(t[i]) PROVE i < Len(t) /\ t[i + 1] = <<"limit">>
      <4>1. CASE i = 1
        BY <3>4, <3>5, <4>1
      <4>2. CASE i # 1
        <5>1. i - 1 \in 1..Len(rest) /\ t[i] = rest[i - 1]
          BY <3>4, <3>5, <4>2
        <5>2. i - 1 < Len(rest) /\ rest[i] = <<"limit">>
          BY <3>4, <3>6, <5>1 DEF Followed
        <5> QED
          BY <3>4, <3>5, <5>1, <5>2
      <4> QED
        BY <4>1, <4>2
    <3>7. Followed(t)
      BY <3>6 DEF Followed
    <3>8. ASSUME NEW i \in 1..Len(t), i < Len(t), Posing(t[i + 1])
          PROVE  t[i] = <<"limit">> \/ Posing(t[i])
      <4>1. CASE i = 1
        <5>1. t[i + 1] = <<"limit">>
          BY <3>4, <3>5, <4>1
        <5> QED
          BY <3>8, <5>1, PosingOK
      <4>2. CASE i # 1
        <5>1. i - 1 \in 1..Len(rest) /\ i - 1 < Len(rest) /\ t[i] = rest[i - 1]
              /\ t[i + 1] = rest[i]
          BY <3>4, <3>5, <3>8, <4>2
        <5> QED
          BY <3>4, <3>8, <5>1 DEF Limited
      <4> QED
        BY <4>1, <4>2
    <3>9. Limited(t)
      BY <3>8 DEF Limited
    <3> QED
      BY <2>2, <3>1, <3>3, <3>5, <3>7, <3>9 DEF TodoOK, rest, s, t
  <2> QED
    BY <2>1, <2>2 DEF Escape
<1>4. ~ Doing("limit")
  BY DEF Escape, Doing
<1>5. TypeOK'
  BY DEF Escape, fields, IInv, TypeOK
<1>6. FieldsOK'
  BY <1>3, <1>4 DEF Escape, fields, IInv, FieldsOK, AngleOK
<1> QED
  BY <1>3, <1>5, <1>6 DEF Escape, fields, IInv, LimitsReceived

(* Only a step of an axis takes a velocity beyond the limits, and the next *)
(* statement takes it back; the orientation is taken within them, because  *)
(* they are applied to any angle before it.                                *)
LEMMA StatementStep == IInv /\ Statement => IInv'
<1> SUFFICES ASSUME IInv, Statement PROVE IInv'
  OBVIOUS
<1>1. todo # <<>> /\ todo' = Tail(todo)
  BY DEF Statement, AssignGoal, ChangeTwist, ChangeAngle, ApplyLimits, AssignPose, Quit,
         Doing, Advance
<1>2. Head(todo) \in Statements /\ TodoOK'
  BY <1>1, HeadOK DEF IInv, TodoOK
<1>3. /\ robot' = robot /\ LimitsReceived'
      /\ building' = building /\ wanted' = wanted /\ timer' = timer
  BY DEF Statement, AssignGoal, ChangeTwist, ChangeAngle, ApplyLimits, AssignPose, Quit,
         fields, IInv, LimitsReceived
<1>4. ASSUME ~ Doing("limit") PROVE twist \in [Axis -> Within(Limit)]
  BY <1>4 DEF IInv, FieldsOK
<1>5. TypeOK /\ FieldsOK /\ \A a \in Within(Limit) : a \in Within(Limit + 1)
  BY WithinOK DEF IInv
<1>12. AngleOK'
  <2> SUFFICES ASSUME todo' # <<>>, Posing(Head(todo')) PROVE angle' \in Within(Limit)
    BY DEF AngleOK
  <2>1. Head(todo) = <<"limit">> \/ Posing(Head(todo))
    BY <1>1, HeadOK DEF IInv
  <2>2. CASE Head(todo) = <<"limit">>
    <3>1. Head(todo)[1] = "limit"
      BY <2>2
    <3>2. ApplyLimits
      BY <3>1 DEF Statement, AssignGoal, ChangeTwist, ChangeAngle, AssignPose, Quit, Doing
    <3> QED
      BY <1>5, <3>2, WithinOK DEF ApplyLimits, TypeOK
  <2>3. CASE Posing(Head(todo))
    <3>1. angle \in Within(Limit)
      BY <1>1, <1>5, <2>3 DEF FieldsOK, AngleOK
    <3>2. AssignPose
      BY <2>3 DEF Statement, AssignGoal, ChangeTwist, ChangeAngle, ApplyLimits, Quit, Doing, Posing
    <3> QED
      BY <3>1, <3>2 DEF AssignPose
  <2> QED
    BY <2>1, <2>2, <2>3
<1>6. CASE AssignGoal
  <2>1. ~ Doing("limit")
    BY <1>6 DEF AssignGoal, Doing
  <2>2. Argument \in Goal \/ goal' = Torn
    BY <1>2, <1>6, ArgumentOK DEF AssignGoal, Doing, Argument
  <2>3. goal' \in AnyGoal
    BY <1>5, <1>6, <2>2 DEF AssignGoal, TypeOK, AnyGoal
  <2> QED
    BY <1>2, <1>3, <1>4, <1>5, <1>12, <1>6, <2>1, <2>3 DEF AssignGoal, IInv, TypeOK, FieldsOK
<1>7. CASE ChangeTwist
  <2>1. ~ Doing("limit")
    BY <1>7 DEF ChangeTwist, Doing
  <2>2. CASE Doing("step")
    <3>1. Head(todo)[3] \in {-1, 1} /\ Leaves(Head(todo))
      BY <1>2, <2>2, ArgumentOK DEF Doing, Leaves
    <3>2. Doing("limit")'
      BY <1>1, <3>1, HeadOK DEF IInv, Doing
    <3>3. twist' = [twist EXCEPT ![Argument] = twist[Argument] + Head(todo)[3]]
      BY <1>7, <2>2 DEF ChangeTwist, Twisted, Doing
    <3>4. twist' \in [Axis -> Within(Limit + 1)]
      BY <1>4, <2>1, <3>1, <3>3, WithinOK
    <3> QED
      BY <1>2, <1>3, <1>5, <1>12, <1>7, <3>2, <3>4 DEF ChangeTwist, IInv, TypeOK, FieldsOK
  <2>3. CASE ~ Doing("step")
    <3>1. twist' = [twist EXCEPT ![Argument] = 0]
      BY <1>7, <2>3 DEF ChangeTwist, Twisted
    <3>2. twist' \in [Axis -> Within(Limit)] /\ twist' \in [Axis -> Within(Limit + 1)]
      BY <1>4, <2>1, <3>1, WithinOK
    <3> QED
      BY <1>2, <1>3, <1>4, <1>5, <1>12, <1>7, <2>1, <3>2 DEF ChangeTwist, IInv, TypeOK, FieldsOK
  <2> QED
    BY <2>2, <2>3
<1>8. CASE ChangeAngle
  <2>1. ~ Doing("limit")
    BY <1>8 DEF ChangeAngle, Doing
  <2>2. angle' \in Int
    BY <1>2, <1>5, <1>8, ArgumentOK DEF ChangeAngle, Doing, Argument, TypeOK
  <2> QED
    BY <1>2, <1>3, <1>4, <1>5, <1>12, <1>8, <2>1, <2>2 DEF ChangeAngle, IInv, TypeOK, FieldsOK
<1>9. CASE ApplyLimits
  <2>1. twist' \in [Axis -> Within(Limit)] /\ angle' \in Within(Limit)
    BY <1>5, <1>9, WithinOK DEF ApplyLimits, TypeOK
  <2>2. twist' \in [Axis -> Within(Limit + 1)] /\ angle' \in Int
    BY <1>5, <2>1, WithinOK
  <2> QED
    BY <1>2, <1>3, <1>5, <1>12, <1>9, <2>1, <2>2 DEF ApplyLimits, IInv, TypeOK, FieldsOK
<1>10. CASE AssignPose
  <2>1. ~ Doing("limit")
    BY <1>10 DEF AssignPose, Doing
  <2>2. pose' \in Within(Limit) \cup {Torn} /\ pose' \in Int \cup {Torn}
    <3>1. Doing("pose") => angle \in Within(Limit)
      BY <1>5 DEF FieldsOK, AngleOK, Doing, Posing
    <3> QED
      BY <1>10, <3>1, WithinOK DEF AssignPose
  <2> QED
    BY <1>2, <1>3, <1>4, <1>5, <1>12, <1>10, <2>1, <2>2 DEF AssignPose, IInv, TypeOK, FieldsOK
<1>11. CASE Quit
  <2>1. ~ Doing("limit")
    BY <1>11 DEF Quit, Doing
  <2> QED
    BY <1>2, <1>3, <1>4, <1>5, <1>12, <1>11, <2>1 DEF Quit, fields, IInv, TypeOK, FieldsOK
<1> QED
  BY <1>6, <1>7, <1>8, <1>9, <1>10, <1>11 DEF Statement

(* The timer sends what the fields hold; others send no velocity and no    *)
(* orientation beyond the limits.                                          *)
LEMMA TickStep == IInv /\ (Tick \/ Other) => IInv'
<1> SUFFICES ASSUME IInv, Tick \/ Other PROVE IInv'
  OBVIOUS
<1>1. UNCHANGED <<building, todo, up, fields, wanted>> /\ timer' \in DOMAIN Follower
  BY DEF Tick, Publish, Miss, Other, IInv, TypeOK, Follower
<1> DEFINE Robots == [goal : AnyGoal, twist : [Axis -> Within(Limit + 1)],
                      pose : Within(Limit) \cup {Torn}]
<1>2. robot \in Robots
  BY DEF IInv, TypeOK, LimitsReceived
<1>3. /\ goal \in AnyGoal /\ twist \in [Axis -> Within(Limit + 1)]
      /\ pose \in Within(Limit) \cup {Torn}
  BY DEF IInv, TypeOK, FieldsOK
<1>4. robot' \in Robots
  <2>1. ASSUME NEW topic \in Topic, Publish(topic) PROVE robot' \in Robots
    <3>1. CASE topic = "goal"
      BY <1>2, <1>3, <2>1, <3>1 DEF Publish, Received, Field
    <3>2. CASE topic = "twist"
      BY <1>2, <1>3, <2>1, <3>2 DEF Publish, Received, Field
    <3>3. CASE topic = "pose"
      BY <1>2, <1>3, <2>1, <3>3 DEF Publish, Received, Field
    <3> QED
      BY <3>1, <3>2, <3>3 DEF Topic
  <2>2. CASE Miss
    BY <1>2, <2>2 DEF Miss
  <2>3. CASE Other
    <3>1. [a \in Axis |-> 0] \in [Axis -> Within(Limit + 1)] /\ Goal \subseteq AnyGoal
      BY WithinOK DEF AnyGoal
    <3> QED
      BY <1>2, <2>3, <3>1 DEF Other, Received
  <2> QED
    BY <2>1, <2>2, <2>3 DEF Tick
<1>5. /\ robot' \in [goal : AnyGoal, twist : [Axis -> Int], pose : Int \cup {Torn}]
      /\ LimitsReceived'
  BY <1>4, WithinOK DEF LimitsReceived
<1> QED
  BY <1>1, <1>5 DEF fields, IInv, TypeOK, TodoOK, FieldsOK, AngleOK, Doing

THEOREM InductiveInvariant == Spec => []IInv
<1>1. IInv /\ [Next]_vars => IInv'
  <2>1. IInv /\ UNCHANGED vars => IInv'
    BY DEF vars, fields, IInv, TypeOK, TodoOK, FieldsOK, AngleOK, LimitsReceived, Doing
  <2> QED
    BY <2>1, ConstructStep, TakeKeyStep, EscapeStep, StatementStep, TickStep DEF Next
<1> QED
  BY <1>1, InitOK, PTL DEF Spec

(* Every field keeps its type, whatever the keys and the timer do to each  *)
(* other.                                                                  *)
THEOREM TypeCorrect == Spec => []TypeOK
<1>1. IInv => TypeOK
  BY DEF IInv
<1> QED
  BY <1>1, InductiveInvariant, PTL

(* KeyboardControllerNode, for any number of axes and any limits: although *)
(* no lock protects the fields and the timer may run between the statement *)
(* that changes a velocity and the one that limits it, the controller      *)
(* receives at most one step too much, and never too large an angle.       *)
THEOREM LimitsAlwaysReceived == Spec => []LimitsReceived
<1>1. IInv => LimitsReceived
  BY DEF IInv
<1> QED
  BY <1>1, InductiveInvariant, PTL
==============================================================================
