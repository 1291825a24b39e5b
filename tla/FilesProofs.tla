------------------------------ MODULE FilesProofs -------------------------------
(***************************************************************************)
(* Theorems of Files and of the two modules it composes.  Interpolation: no*)
(* call loses what its caller had, the result is the path rewritten, and   *)
(* the stack only overflows where the variables name each other: a call    *)
(* that waits has a variable of its own in front, so that calls deeper than*)
(* there are variables have one twice, and those between the two lead back *)
(* to it.  VirtualFiles: a stack of file systems is one directory of one   *)
(* disk, whatever stands on whatever.  Files: a path is interpolated and   *)
(* found where it is meant.                                                *)
(***************************************************************************)
EXTENDS Files, SharedLemmas

InterNext == InterCall \/ InterStep

InterTyped ==
  /\ variables \in Environments
  /\ asked \in Seq(Part) /\ pth \in Seq(Part) /\ ret \in Seq(Part) /\ had \in Seq(Part)
  /\ rests \in Seq(Seq(Part))

\* The types of what is interpolated.
LEMMA InterTypes ==
  ASSUME InterTyped, [InterNext]_interVars
  PROVE  InterTyped'
<1> USE DEF InterTyped
<1>1. ASSUME NEW t \in Paths, Interpolate(t) PROVE InterTyped'
  <2>1. t \in Seq(Part) /\ <<>> \in Seq(Part) /\ <<>> \in Seq(Seq(Part))
    BY InterpolationAssumption
  <2> QED BY <1>1, <2>1 DEF Interpolate, Enter
<1>2. ASSUME NEW t \in Paths, NoCsidl(t) PROVE InterTyped'
  <2>1. t \in Seq(Part) /\ <<>> \in Seq(Part)
    BY InterpolationAssumption
  <2> QED BY <1>2, <2>1 DEF NoCsidl, Answers, calls
<1>3. ASSUME NEW c \in Csidls, Csidl(c[1], c[2]) PROVE InterTyped'
  <2>1. c[2] \in Seq(Part) /\ <<>> \in Seq(Part)
    BY InterpolationAssumption
  <2>2. CASE c[1] \in FolderId
    <3> DEFINE p == csidl_value[c[1]]
    <3>1. p \in Seq(Part)
      BY <2>2, InterpolationAssumption
    <3>2. <<c[2]>> \in Seq(Seq(Part)) /\ p \o c[2] \in Seq(Part)
      BY <2>1, <3>1, SingleSeq, ConcatProperties
    <3>3. Enter(p \o c[2], p, <<c[2]>>, <<>>)
      BY <1>3, <2>2 DEF Csidl
    <3> HIDE DEF p
    <3> QED BY <2>1, <3>1, <3>2, <3>3 DEF Enter
  <2>3. CASE c[1] \notin FolderId
    BY <1>3, <2>1, <2>3 DEF Csidl, Answers, calls
  <2> QED BY <2>2, <2>3
<1>4. CASE Descend
  <2>1. pth' = variables[VarOf[pth[1]]] /\ VarOf[pth[1]] \in DOMAIN variables /\ pth # <<>>
    BY <1>4 DEF Descend, Known, Leads
  <2>2. pth' \in Seq(Part)
    BY <2>1, InterpolationAssumption
  <2>3. Tail(pth) \in Seq(Part)
    BY <2>1, HeadTailProperties
  <2>4. Append(rests, Tail(pth)) \in Seq(Seq(Part))
    BY <2>3, AppendProperties
  <2> QED BY <1>4, <2>2, <2>4 DEF Descend
<1>5. CASE Overflow
  BY <1>5 DEF Overflow, calls
<1>6. CASE Fail
  BY <1>6 DEF Fail
<1>7. CASE Bottom
  BY <1>7, ConcatProperties DEF Bottom
<1>8. CASE Ascend
  <2>1. rests # <<>> /\ ret' = ret \o Last(rests) /\ rests' = Front(rests)
    BY <1>8 DEF Ascend
  <2>2. Len(rests) \in Nat /\ Len(rests) > 0 /\ rests[Len(rests)] \in Seq(Part)
    BY <2>1
  <2>3. Front(rests) \in Seq(Seq(Part))
    BY <2>2 DEF Front
  <2>4. ret \o Last(rests) \in Seq(Part)
    BY <2>2, ConcatProperties DEF Last
  <2> QED BY <1>8, <2>1, <2>3, <2>4 DEF Ascend
<1>9. CASE Return
  BY <1>9 DEF Return, calls
<1>10. CASE UNCHANGED interVars
  BY <1>10 DEF interVars, calls
<1> QED BY <1>1, <1>2, <1>3, <1>4, <1>5, <1>6, <1>7, <1>8, <1>9, <1>10
        DEF InterNext, InterCall, InterStep

\* The String is not touched before the path has been followed to its end.
HadInv ==
  /\ doing = "down" => ret = had
  /\ NothingOnNone

\* On the way down nothing was added yet to what the caller had.
LEMMA HadStep ==
  ASSUME HadInv, [InterNext]_interVars
  PROVE  HadInv'
<1> USE DEF HadInv, NothingOnNone
<1>1. ASSUME NEW t \in Paths, Interpolate(t) PROVE HadInv'
  BY <1>1 DEF Interpolate, Enter
<1>2. ASSUME NEW t \in Paths, NoCsidl(t) PROVE HadInv'
  BY <1>2 DEF NoCsidl, Answers
<1>3. ASSUME NEW c \in Csidls, Csidl(c[1], c[2]) PROVE HadInv'
  BY <1>3 DEF Csidl, Enter, Answers
<1>4. CASE Descend
  BY <1>4 DEF Descend
<1>5. CASE Overflow
  BY <1>5 DEF Overflow
<1>6. CASE Fail
  BY <1>6 DEF Fail
<1>7. CASE Bottom
  BY <1>7 DEF Bottom
<1>8. CASE Ascend
  BY <1>8 DEF Ascend
<1>9. CASE Return
  BY <1>9 DEF Return
<1>10. CASE UNCHANGED interVars
  BY <1>10 DEF interVars, calls
<1> QED BY <1>1, <1>2, <1>3, <1>4, <1>5, <1>6, <1>7, <1>8, <1>9, <1>10
        DEF InterNext, InterCall, InterStep

(* A String that came with a None holds what it held (core/mod.rs:6-18).   *)
THEOREM NothingLost == InterSpec => []NothingOnNone
<1>1. InterInit => HadInv
  BY DEF InterInit, HadInv, NothingOnNone
<1>2. HadInv /\ [InterNext]_interVars => HadInv'
  BY HadStep
<1>3. HadInv => NothingOnNone
  BY DEF HadInv
<1> QED BY <1>1, <1>2, <1>3, PTL DEF InterSpec, InterNext
-----------------------------------------------------------------------------
\* The value of a begins with b.
Names(a, b) == Leads(variables[a]) /\ VarOf[variables[a][1]] = b

\* h are the variables that were followed from the path asked for to pth.
Followed(n, h) ==
  /\ \A i \in 1 .. n - 1 : Names(h[i], h[i + 1])
  /\ n = 0 => Leads(pth) = Leads(asked) /\ (Leads(pth) => pth[1] = asked[1])
  /\ n > 0 => Leads(asked) /\ VarOf[asked[1]] = h[1] /\ pth = variables[h[n]]
Trail == \E n \in Nat : \E h \in [1 .. n -> DOMAIN variables] :
           (Len(rests) = n \/ Len(rests) = n + 1) /\ Followed(n, h)

\* Variables that name nothing but one another.
Closed(vs) == vs \subseteq DOMAIN variables /\ \A v \in vs : Leads(variables[v]) /\ VarOf[variables[v][1]] \in vs
Caught == \E vs \in SUBSET DOMAIN variables : Closed(vs) /\ Leads(pth) /\ VarOf[pth[1]] \in vs

DownInv ==
  /\ rests \in Seq(Seq(Part)) /\ pth \in Seq(Part)
  /\ Trail
  /\ Circular(asked, variables) => Caught
StackInv ==
  /\ variables \in Environments
  /\ doing = "down" => DownInv
  /\ StackSuffices

\* A call that has just begun has followed nothing.
LEMMA EnterHolds ==
  ASSUME StackInv, variables' = variables, doing' = "down",
         pth' \in Seq(Part), rests' \in Seq(Seq(Part)), Len(rests') \in {0, 1},
         (Leads(pth) = Leads(asked))', (Leads(pth) => pth[1] = asked[1])'
  PROVE  StackInv'
<1>1. Trail'
  <2>1. PICK h \in [1 .. 0 -> DOMAIN variables'] : TRUE
    <3>1. [i \in 1 .. 0 |-> CHOOSE x \in DOMAIN variables' : TRUE] \in [1 .. 0 -> DOMAIN variables']
      OBVIOUS
    <3> QED BY <3>1
  <2>2. (Followed(0, h))'
    BY DEF Followed
  <2>3. Len(rests') = 0 \/ Len(rests') = 0 + 1
    OBVIOUS
  <2> QED BY <2>2, <2>3 DEF Trail
<1>2. (Circular(asked, variables) => Caught)'
  BY DEF Circular, Caught, Closed, Leads
<1> QED BY <1>1, <1>2 DEF StackInv, StackSuffices, DownInv

\* A call for the value of a variable has followed that one as well.
LEMMA DescendHolds ==
  ASSUME StackInv, Descend
  PROVE  StackInv'
<1> USE DEF StackInv
<1> DEFINE v == VarOf[pth[1]]
<1>1. /\ doing = "down" /\ doing' = "down" /\ Leads(pth) /\ v \in DOMAIN variables
      /\ pth' = variables[v] /\ rests' = Append(rests, Tail(pth))
      /\ variables' = variables /\ asked' = asked
  BY DEF Descend, Known
<1>2. DownInv
  BY <1>1
<1>3. pth' \in Seq(Part)
  BY <1>1, InterpolationAssumption
<1>4. rests' \in Seq(Seq(Part)) /\ Len(rests') = Len(rests) + 1
  <2>1. Tail(pth) \in Seq(Part)
    BY <1>1, <1>2 DEF DownInv, Leads
  <2> QED BY <1>1, <1>2, <2>1 DEF DownInv
<1>5. Trail'
  <2>1. PICK n \in Nat : \E h \in [1 .. n -> DOMAIN variables] :
               (Len(rests) = n \/ Len(rests) = n + 1) /\ Followed(n, h)
    BY <1>2 DEF DownInv, Trail
  <2>2. PICK h \in [1 .. n -> DOMAIN variables] :
               (Len(rests) = n \/ Len(rests) = n + 1) /\ Followed(n, h)
    BY <2>1
  <2> DEFINE g == [i \in 1 .. n + 1 |-> IF i = n + 1 THEN v ELSE h[i]]
  <2>3. g \in [1 .. n + 1 -> DOMAIN variables]
    BY <1>1
  <2>4. \A i \in 1 .. n : Names(g[i], g[i + 1])
    <3> SUFFICES ASSUME NEW i \in 1 .. n PROVE Names(g[i], g[i + 1])
      OBVIOUS
    <3>1. CASE i = n
      <4>1. g[i] = h[n] /\ g[i + 1] = v /\ n > 0
        BY <3>1
      <4>2. pth = variables[h[n]]
        BY <2>2, <4>1 DEF Followed
      <4> HIDE DEF g
      <4> QED BY <1>1, <4>1, <4>2 DEF Names
    <3>2. CASE i # n
      <4>1. g[i] = h[i] /\ g[i + 1] = h[i + 1] /\ i \in 1 .. n - 1
        BY <3>2
      <4> HIDE DEF g
      <4> QED BY <2>2, <4>1 DEF Followed
    <3> QED BY <3>1, <3>2
  <2>5. Leads(asked) /\ VarOf[asked[1]] = g[1]
    <3>1. CASE n = 0
      <4>1. g[1] = v
        BY <3>1
      <4> HIDE DEF g
      <4> QED BY <1>1, <2>2, <3>1, <4>1 DEF Followed
    <3>2. CASE n > 0
      <4>1. g[1] = h[1]
        BY <3>2
      <4> HIDE DEF g
      <4> QED BY <2>2, <3>2, <4>1 DEF Followed
    <3> QED BY <3>1, <3>2
  <2>6. pth' = variables[g[n + 1]]
    BY <1>1
  <2> HIDE DEF g
  <2>8. PICK f \in [1 .. n + 1 -> DOMAIN variables] :
          /\ \A i \in 1 .. n : Names(f[i], f[i + 1])
          /\ Leads(asked) /\ VarOf[asked[1]] = f[1] /\ pth' = variables[f[n + 1]]
    BY <2>3, <2>4, <2>5, <2>6
  <2>9. (Followed(n + 1, f))'
    <3>1. (\A i \in 1 .. (n + 1) - 1 : Names(f[i], f[i + 1]))'
      BY <1>1, <2>8 DEF Names
    <3>2. (Leads(asked) /\ VarOf[asked[1]] = f[1])'
      BY <1>1, <2>8 DEF Leads
    <3>3. (pth = variables[f[n + 1]])'
      BY <1>1, <2>8
    <3>4. n + 1 # 0
      OBVIOUS
    <3> HIDE DEF v
    <3> QED BY <3>1, <3>2, <3>3, <3>4 DEF Followed
  <2>7. Len(rests') = n + 1 \/ Len(rests') = (n + 1) + 1
    BY <1>2, <1>4, <2>2 DEF DownInv
  <2> QED BY <1>1, <2>7, <2>9 DEF Trail
<1>6. (Circular(asked, variables) => Caught)'
  BY <1>1, <1>2 DEF DownInv, Circular, Caught, Closed
<1>7. StackSuffices'
  BY <1>1 DEF StackSuffices
<1> QED BY <1>1, <1>3, <1>4, <1>5, <1>6, <1>7 DEF DownInv

\* With all frames of the stack in use there is a circle.
LEMMA OverflowHolds ==
  ASSUME StackInv, Overflow
  PROVE  StackInv'
<1> DEFINE v == VarOf[pth[1]]
<1>1. /\ doing = "down" /\ doing' = "aborted" /\ Leads(pth) /\ v \in DOMAIN variables
      /\ Len(rests) = MaxFrames /\ variables' = variables /\ asked' = asked
  BY DEF Overflow, Known
<1>2. DownInv /\ variables \in Environments
  BY <1>1 DEF StackInv
<1>3. IsFiniteSet(DOMAIN variables) /\ Cardinality(DOMAIN variables) < MaxFrames /\ MaxFrames \in Nat
  BY <1>2, InterpolationAssumption
<1>4. PICK n \in Nat : \E h \in [1 .. n -> DOMAIN variables] :
             (Len(rests) = n \/ Len(rests) = n + 1) /\ Followed(n, h)
  BY <1>2 DEF DownInv, Trail
<1>5. PICK h \in [1 .. n -> DOMAIN variables] :
             (Len(rests) = n \/ Len(rests) = n + 1) /\ Followed(n, h)
  BY <1>4
<1> DEFINE m == n + 1
<1> DEFINE g == [i \in 1 .. m |-> IF i = m THEN v ELSE h[i]]
<1>6. m \in Nat /\ g \in [1 .. m -> DOMAIN variables]
  BY <1>1
<1>7. \A i \in 1 .. m - 1 : Names(g[i], g[i + 1])
  BY <1>1, <1>5 DEF Followed, Names
<1>8. Leads(asked) /\ VarOf[asked[1]] = g[1]
  <2>1. CASE n = 0
    <3>1. g[1] = v
      BY <2>1
    <3> HIDE DEF g
    <3> QED BY <1>1, <1>5, <2>1, <3>1 DEF Followed
  <2>2. CASE n > 0
    <3>1. g[1] = h[1]
      BY <2>2
    <3> HIDE DEF g
    <3> QED BY <1>5, <2>2, <3>1 DEF Followed
  <2> QED BY <2>1, <2>2
<1>9. Cardinality(DOMAIN variables) < m
  <2>1. Cardinality(DOMAIN variables) \in Nat
    BY <1>3, FS_CardinalityType
  <2> QED BY <1>1, <1>3, <1>5, <2>1
<1>10. Circular(asked, variables)
  <2> HIDE DEF m, g
  <2> QED BY <1>3, <1>6, <1>7, <1>8, <1>9, RoundAgain DEF Names
<1> QED BY <1>1, <1>2, <1>10 DEF StackInv, StackSuffices

\* A call that goes deeper does so by the variable the value before it leads to.
LEMMA StackStep ==
  ASSUME StackInv, [InterNext]_interVars
  PROVE  StackInv'
<1>1. ASSUME NEW t \in Paths, Interpolate(t) PROVE StackInv'
  <2>1. variables' = variables /\ doing' = "down" /\ asked' = t /\ pth' = t /\ rests' = <<>>
    BY <1>1 DEF Interpolate, Enter
  <2>2. t \in Seq(Part) /\ <<>> \in Seq(Seq(Part)) /\ Len(<<>>) \in {0, 1}
    BY InterpolationAssumption
  <2>3. (Leads(pth) = Leads(asked))' /\ (Leads(pth) => pth[1] = asked[1])'
    BY <2>1
  <2> QED BY <2>1, <2>2, <2>3, EnterHolds
<1>2. ASSUME NEW t \in Paths, NoCsidl(t) PROVE StackInv'
  BY <1>2 DEF NoCsidl, Answers, StackInv, StackSuffices
<1>3. ASSUME NEW c \in Csidls, Csidl(c[1], c[2]) PROVE StackInv'
  <2>1. CASE c[1] \in FolderId
    <3> DEFINE p == csidl_value[c[1]]
    <3>1. p \in Seq(Part) /\ p # <<>> /\ c[2] \in Seq(Part)
      BY <2>1, InterpolationAssumption
    <3>2. <<c[2]>> \in Seq(Seq(Part)) /\ Len(<<c[2]>>) \in {0, 1}
      BY <3>1
    <3>3. /\ variables' = variables /\ doing' = "down"
          /\ asked' = p \o c[2] /\ pth' = p /\ rests' = <<c[2]>>
      BY <1>3, <2>1 DEF Csidl, Enter
    <3> HIDE DEF p
    <3>4. (p \o c[2])[1] = p[1] /\ p \o c[2] # <<>>
      BY <3>1
    <3>5. (Leads(pth) = Leads(asked))' /\ (Leads(pth) => pth[1] = asked[1])'
      BY <3>1, <3>3, <3>4 DEF Leads
    <3> QED BY <3>1, <3>2, <3>3, <3>5, EnterHolds
  <2>2. CASE c[1] \notin FolderId
    BY <1>3, <2>2 DEF Csidl, Answers, StackInv, StackSuffices
  <2> QED BY <2>1, <2>2
<1>4. CASE Descend
  BY <1>4, DescendHolds
<1>5. CASE Overflow
  BY <1>5, OverflowHolds
<1>6. CASE Fail
  BY <1>6 DEF Fail, StackInv, StackSuffices
<1>7. CASE Bottom
  BY <1>7 DEF Bottom, StackInv, StackSuffices, DownInv, Caught
<1>8. CASE Ascend
  BY <1>8 DEF Ascend, StackInv, StackSuffices
<1>9. CASE Return
  BY <1>9 DEF Return, StackInv, StackSuffices
<1>10. CASE UNCHANGED interVars
  BY <1>10 DEF interVars, calls, StackInv, StackSuffices, DownInv, Trail, Followed, Names,
               Caught, Closed, Circular
<1> QED BY <1>1, <1>2, <1>3, <1>4, <1>5, <1>6, <1>7, <1>8, <1>9, <1>10
        DEF InterNext, InterCall, InterStep

(* No path needs more calls inside of each other than there are variables, *)
(* unless they name each other; and then it is not answered.               *)
THEOREM StackAlwaysSuffices == InterSpec => []StackSuffices
<1>1. InterInit => StackInv
  BY DEF InterInit, StackInv, StackSuffices
<1>2. StackInv /\ [InterNext]_interVars => StackInv'
  BY StackStep
<1>3. StackInv => StackSuffices
  BY DEF StackInv
<1> QED BY <1>1, <1>2, <1>3, PTL DEF InterSpec, InterNext
-----------------------------------------------------------------------------
Valued == \A v \in DOMAIN variables : variables[v] # <<>>

\* What the calls that wait will append, those from the i-th to the outermost.
Pending(g) == /\ g \in [0 .. Len(rests) -> Seq(Part)] /\ g[0] = <<>>
              /\ \A i \in 1 .. Len(rests) : g[i] = rests[i] \o g[i - 1]

\* The path that is followed and what is pending are a step of the rewriting.
OnTheWay ==
  \E r, g : \E n \in 0 .. Len(rests) :
    /\ Steps(asked, variables, LastOf(variables), r) /\ Pending(g)
    /\ n <= LastOf(variables) => r[n] = pth \o g[Len(rests)]
OnTheWayBack == \E g : Pending(g) /\ ret \o g[Len(rests)] = had \o Rewritten(asked, variables)
Told == doing = "idle" /\ answer = "Some" => ret = had \o Rewritten(asked, variables)

ToldInv ==
  /\ InterTyped /\ HadInv /\ StackInv
  /\ Valued =>
       /\ doing = "down" => OnTheWay /\ (pth = <<>> => rests = <<>>)
       /\ doing = "up" => OnTheWayBack
       /\ Told

\* There is a last step, as variables are finite.
LEMMA LastType ==
  ASSUME InterTyped
  PROVE  /\ LastOf(variables) \in Nat /\ LastOf(variables) > 0 /\ IsFiniteSet(DOMAIN variables)
         /\ \A v \in DOMAIN variables : variables[v] \in Seq(Part)
<1>1. IsFiniteSet(DOMAIN variables) /\ \A v \in DOMAIN variables : variables[v] \in Seq(Part)
  BY InterpolationAssumption DEF InterTyped
<1> QED BY <1>1, FS_CardinalityType DEF LastOf

\* What a text is rewritten into is a text.
LEMMA RewrittenTyped ==
  ASSUME InterTyped
  PROVE  Rewritten(asked, variables) \in Seq(Part)
<1>1. PICK r : Steps(asked, variables, LastOf(variables), r)
  BY LastType, StepsExist
<1>2. LastOf(variables) \in 0 .. LastOf(variables)
  BY LastType
<1>3. \A n \in 0 .. LastOf(variables) : r[n] \in Seq(Part)
  <2>1. GivesTexts(variables, Part)
    BY LastType DEF GivesTexts
  <2> QED BY <1>1, <2>1, LastType, StepsTyped DEF InterTyped
<1> QED BY <1>1, <1>2, <1>3, LastType, RewrittenIs

\* A path that begins with no variable is left alone.
LEMMA RewrittenPlain ==
  ASSUME InterTyped, NEW txt, ~Leads(txt)
  PROVE  Rewritten(txt, variables) = txt
<1>1. PICK r : Steps(txt, variables, LastOf(variables), r)
  BY LastType, StepsExist
<1>2. 0 \in 0 .. LastOf(variables) /\ r[0] = txt
  <2>1. LastOf(variables) \in Nat
    BY LastType
  <2>2. r[0] = txt
    BY <1>1, <2>1, StepsAre
  <2> QED BY <2>1, <2>2
<1>3. r[LastOf(variables)] = r[0]
  <2>1. ~Led(r[0], variables)
    BY <1>2 DEF Led
  <2>2. 0 \in 0 .. LastOf(variables)
    BY <1>2
  <2> QED BY <1>1, <2>1, <2>2, LastType, StepsSettle
<1> QED BY <1>1, <1>2, <1>3, LastType, RewrittenIs

\* A call that has just begun is at the first step.
LEMMA EnterTold ==
  ASSUME InterTyped', variables' = variables,
         \/ rests' = <<>> /\ asked' = pth'
         \/ \E q \in Seq(Part) : rests' = <<q>> /\ asked' = pth' \o q
  PROVE  OnTheWay'
<1>1. LastOf(variables') \in Nat
  <2>1. IsFiniteSet(DOMAIN variables')
    BY InterpolationAssumption DEF InterTyped
  <2> QED BY <2>1, FS_CardinalityType DEF LastOf
<1>2. PICK r : Steps(asked', variables', LastOf(variables'), r)
  BY <1>1, StepsExist
<1>3. r[0] = asked'
  BY <1>1, <1>2, StepsAre
<1>4. CASE rests' = <<>> /\ asked' = pth'
  <2> DEFINE g == [i \in 0 .. 0 |-> <<>>]
  <2>1. <<>> \in Seq(Part) /\ Len(rests') = 0 /\ pth' \o <<>> = pth'
    BY <1>4, ConcatEmptySeq DEF InterTyped
  <2>2. /\ g \in [0 .. 0 -> Seq(Part)] /\ g[0] = <<>>
        /\ \A i \in 1 .. 0 : g[i] = rests'[i] \o g[i - 1]
    BY <2>1
  <2> HIDE DEF g
  <2>3. Pending(g)'
    BY <2>1, <2>2 DEF Pending
  <2>4. 0 \in 0 .. Len(rests') /\ r[0] = pth' \o g[Len(rests')]
    BY <1>3, <1>4, <2>1, <2>2
  <2> QED BY <1>2, <2>3, <2>4 DEF OnTheWay
<1>5. ASSUME NEW q \in Seq(Part), rests' = <<q>> /\ asked' = pth' \o q PROVE OnTheWay'
  <2> DEFINE g == [i \in 0 .. 1 |-> IF i = 0 THEN <<>> ELSE q]
  <2>1. <<>> \in Seq(Part) /\ Len(rests') = 1 /\ rests'[1] = q /\ q \o <<>> = q
    BY <1>5, ConcatEmptySeq
  <2>2. /\ g \in [0 .. 1 -> Seq(Part)] /\ g[0] = <<>> /\ g[1] = q
    BY <2>1
  <2> HIDE DEF g
  <2>3. \A i \in 1 .. 1 : g[i] = rests'[i] \o g[i - 1]
    BY <2>1, <2>2
  <2>4. Pending(g)'
    BY <2>1, <2>2, <2>3 DEF Pending
  <2>5. 0 \in 0 .. Len(rests') /\ r[0] = pth' \o g[Len(rests')]
    BY <1>3, <1>5, <2>1, <2>2
  <2> QED BY <1>2, <2>4, <2>5 DEF OnTheWay
<1> QED BY <1>4, <1>5

\* A call for the value of a variable is the next step.
LEMMA DescendTold ==
  ASSUME InterTyped, OnTheWay, Descend
  PROVE  OnTheWay'
<1> DEFINE v == VarOf[pth[1]]
           k == Len(rests)
           last == LastOf(variables)
<1>1. /\ pth # <<>> /\ Leads(pth) /\ v \in DOMAIN variables /\ pth' = variables[v]
      /\ rests' = Append(rests, Tail(pth)) /\ asked' = asked /\ variables' = variables
  BY DEF Descend, Known, Leads
<1>2. PICK r, g : \E n \in 0 .. k :
        Steps(asked, variables, last, r) /\ Pending(g) /\ (n <= last => r[n] = pth \o g[k])
  BY DEF OnTheWay
<1>3. PICK n \in 0 .. k :
        Steps(asked, variables, last, r) /\ Pending(g) /\ (n <= last => r[n] = pth \o g[k])
  BY <1>2
<1>4. /\ k \in Nat /\ Tail(pth) \in Seq(Part) /\ last \in Nat /\ variables[v] \in Seq(Part)
      /\ pth \in Seq(Part) /\ rests \in Seq(Seq(Part))
  BY <1>1, LastType, HeadTailProperties DEF InterTyped
<1>5. /\ g \in [0 .. k -> Seq(Part)] /\ g[0] = <<>> /\ \A i \in 1 .. k : g[i] = rests[i] \o g[i - 1]
  BY <1>3 DEF Pending
<1> DEFINE t == Tail(pth) \o g[k]
           e == [i \in 0 .. k + 1 |-> IF i = k + 1 THEN t ELSE g[i]]
<1>6. g[k] \in Seq(Part) /\ t \in Seq(Part)
  <2>1. k \in 0 .. k
    BY <1>4
  <2> HIDE DEF k
  <2>2. g[k] \in Seq(Part)
    BY <1>5, <2>1
  <2> QED BY <1>4, <2>2, ConcatProperties
<1>7. /\ Len(rests') = k + 1 /\ rests'[k + 1] = Tail(pth) /\ \A i \in 1 .. k : rests'[i] = rests[i]
  BY <1>1, <1>4, AppendProperties
<1>18. /\ e \in [0 .. k + 1 -> Seq(Part)] /\ e[k + 1] = t /\ e[0] = <<>>
       /\ \A i \in 0 .. k : e[i] = g[i]
  <2>1. k + 1 \in 0 .. k + 1 /\ 0 \in 0 .. k + 1 /\ k + 1 # 0 /\ k + 1 \notin 0 .. k
        /\ 0 .. k + 1 = 0 .. k \cup {k + 1}
    BY <1>4
  <2> HIDE DEF t
  <2> QED BY <1>5, <1>6, <2>1, SMTT(60)
<1> HIDE DEF e
<1>8. PICK h : /\ h \in [0 .. k + 1 -> Seq(Part)] /\ h[k + 1] = t /\ h[0] = <<>>
               /\ \A i \in 0 .. k : h[i] = g[i]
  BY <1>18
<1>9. \A i \in 1 .. k + 1 : h[i] = rests'[i] \o h[i - 1]
  <2> TAKE i \in 1 .. k + 1
  <2>1. CASE i = k + 1
    <3>1. h[i] = t /\ h[i - 1] = g[k] /\ rests'[i] = Tail(pth)
      BY <1>4, <1>7, <1>8, <2>1
    <3> QED BY <3>1
  <2>2. CASE i # k + 1
    <3>1. i \in 1 .. k /\ i \in 0 .. k /\ i - 1 \in 0 .. k
      BY <1>4, <2>2
    <3> QED BY <1>5, <1>7, <1>8, <3>1
  <2> QED BY <2>1, <2>2
<1>10. Pending(h)'
  <2> HIDE DEF t, v
  <2>1. /\ h \in [0 .. Len(rests') -> Seq(Part)] /\ h[0] = <<>>
        /\ \A i \in 1 .. Len(rests') : h[i] = rests'[i] \o h[i - 1]
    <3> HIDE DEF k
    <3> QED BY <1>7, <1>8, <1>9
  <2> QED BY <2>1 DEF Pending
<1>11. n + 1 \in 0 .. k + 1
  BY <1>4
<1>12. ASSUME n + 1 <= last PROVE r[n + 1] = variables[v] \o t
  <2>1. n + 1 \in 1 .. last /\ (n + 1) - 1 = n /\ n <= last
    BY <1>4, <1>12
  <2>2. \A m \in 1 .. last : r[m] = StepOf(r[m - 1], variables)
    <3>1. Steps(asked, variables, last, r) /\ last \in Nat
      BY <1>3, <1>4
    <3> HIDE DEF last
    <3> QED BY <3>1, StepsAre
  <2>3. r[n + 1] = StepOf(pth \o g[k], variables)
    BY <1>3, <2>1, <2>2
  <2> DEFINE x == pth
             y == g[k]
  <2>4. x \in Seq(Part) /\ y \in Seq(Part) /\ x # <<>>
    BY <1>1, <1>4, <1>6
  <2> HIDE DEF x, y
  <2>5. (x \o y)[1] = x[1] /\ x \o y # <<>> /\ Tail(x \o y) = Tail(x) \o y
    BY <2>4
  <2> HIDE DEF v, t, last
  <2>6. Leads(x \o y) /\ VarOf[(x \o y)[1]] = v
    BY <1>1, <2>5 DEF Leads, x, v
  <2>7. r[n + 1] = variables[v] \o (Tail(x) \o y)
    BY <1>1, <2>3, <2>5, <2>6 DEF StepOf, Led, x, y
  <2> QED BY <2>7 DEF x, y, t
<1>13. n + 1 <= last => r[n + 1] = pth' \o h[k + 1]
  BY <1>1, <1>8, <1>12
<1>14. Steps(asked', variables', LastOf(variables'), r)
  BY <1>1, <1>3
<1> HIDE DEF last, k, t, v
<1>15. n + 1 <= LastOf(variables') => r[n + 1] = pth' \o h[Len(rests')]
  BY <1>1, <1>7, <1>13 DEF last
<1>16. n + 1 \in 0 .. Len(rests')
  BY <1>7, <1>11
<1>17. \E m \in 0 .. Len(rests') :
         /\ Steps(asked', variables', LastOf(variables'), r) /\ Pending(h)'
         /\ m <= LastOf(variables') => r[m] = pth' \o h[Len(rests')]
  BY <1>10, <1>14, <1>15, <1>16
<1> QED BY <1>17 DEF OnTheWay

\* A path that leads no further was not followed for longer than there are variables.
LEMMA BottomIsNear ==
  ASSUME InterTyped, StackInv, doing = "down", ~Leads(pth)
  PROVE  Len(rests) <= LastOf(variables)
<1> SUFFICES ASSUME Len(rests) > LastOf(variables) PROVE FALSE
  BY LastType DEF InterTyped
<1>1. DownInv /\ ~Circular(asked, variables)
  BY DEF StackInv, DownInv, Caught
<1>2. PICK n \in Nat : \E h \in [1 .. n -> DOMAIN variables] :
        (Len(rests) = n \/ Len(rests) = n + 1) /\ Followed(n, h)
  BY <1>1 DEF DownInv, Trail
<1>3. PICK h \in [1 .. n -> DOMAIN variables] :
        (Len(rests) = n \/ Len(rests) = n + 1) /\ Followed(n, h)
  BY <1>2
<1>4. /\ Cardinality(DOMAIN variables) \in Nat /\ Cardinality(DOMAIN variables) < n
      /\ IsFiniteSet(DOMAIN variables)
  BY <1>3, LastType, FS_CardinalityType DEF LastOf
<1>5. n > 0
  BY <1>4
<1>6. /\ \A i \in 1 .. n - 1 : Names(h[i], h[i + 1])
      /\ Leads(asked) /\ VarOf[asked[1]] = h[1]
  BY <1>3, <1>5 DEF Followed
<1> QED BY <1>1, <1>4, <1>6, RoundAgain DEF Names

\* At the bottom, what is returned is the rewriting of what was left.
LEMMA BottomTold ==
  ASSUME InterTyped, HadInv, StackInv, OnTheWay, pth = <<>> => rests = <<>>, Bottom
  PROVE  OnTheWayBack'
<1> DEFINE k == Len(rests)
           last == LastOf(variables)
<1>1. /\ doing = "down" /\ ~Leads(pth) /\ ret' = had \o pth
      /\ rests' = rests /\ asked' = asked /\ variables' = variables /\ had' = had
  BY DEF Bottom, HadInv
<1>2. PICK r, g : \E n \in 0 .. k :
        Steps(asked, variables, last, r) /\ Pending(g) /\ (n <= last => r[n] = pth \o g[k])
  BY DEF OnTheWay
<1>3. PICK n \in 0 .. k :
        Steps(asked, variables, last, r) /\ Pending(g) /\ (n <= last => r[n] = pth \o g[k])
  BY <1>2
<1>4. k \in Nat /\ last \in Nat /\ k <= last /\ pth \in Seq(Part) /\ had \in Seq(Part)
  BY <1>1, LastType, BottomIsNear DEF InterTyped
<1>5. n <= last /\ n \in 0 .. last
  BY <1>4
<1>6. g[k] \in Seq(Part) /\ g[0] = <<>>
  BY <1>3, <1>4 DEF Pending
<1>7. ~Leads(pth \o g[k])
  <2>1. CASE pth = <<>>
    <3>1. pth \o g[k] = <<>>
      BY <1>6, <2>1
    <3> QED BY <3>1 DEF Leads
  <2>2. CASE pth # <<>>
    <3> DEFINE x == pth
               y == g[k]
    <3>1. x \in Seq(Part) /\ y \in Seq(Part) /\ x # <<>>
      BY <1>4, <1>6, <2>2
    <3> HIDE DEF x, y
    <3>2. (x \o y)[1] = x[1]
      BY <3>1
    <3> USE DEF x, y
    <3> QED BY <1>1, <2>2, <3>2 DEF Leads
  <2> QED BY <2>1, <2>2
<1>8. r[last] = pth \o g[k]
  <2>1. r[n] = pth \o g[k]
    BY <1>3, <1>5
  <2>2. Steps(asked, variables, last, r) /\ last \in Nat
    BY <1>3, <1>4
  <2>3. ~Led(r[n], variables) /\ n \in 0 .. last
    BY <1>5, <1>7, <2>1 DEF Led
  <2> HIDE DEF last, k
  <2>4. r[last] = r[n]
    BY <2>2, <2>3, StepsSettle
  <2> QED BY <2>1, <2>4
<1>9. Rewritten(asked, variables) = pth \o g[k]
  BY <1>3, <1>4, <1>8, RewrittenIs
<1>10. (had \o pth) \o g[k] = had \o (pth \o g[k])
  <2> DEFINE x == had
             y == pth
             z == g[k]
  <2>1. x \in Seq(Part) /\ y \in Seq(Part) /\ z \in Seq(Part)
    BY <1>4, <1>6
  <2> HIDE DEF x, y, z
  <2>2. (x \o y) \o z = x \o (y \o z)
    BY <2>1, ConcatAssociative, SMTT(60)
  <2> QED BY <2>2 DEF x, y, z
<1>11. Pending(g)'
  BY <1>1, <1>3 DEF Pending
<1>12. ret' \o g[Len(rests')] = had' \o Rewritten(asked', variables')
  BY <1>1, <1>9, <1>10
<1> QED BY <1>11, <1>12 DEF OnTheWayBack

\* On the way back, each caller adds what it had before its variable.
LEMMA AscendTold ==
  ASSUME InterTyped, OnTheWayBack, Ascend
  PROVE  OnTheWayBack'
<1> DEFINE k == Len(rests)
<1>1. /\ rests # <<>> /\ ret' = ret \o rests[k] /\ rests' = SubSeq(rests, 1, k - 1)
      /\ asked' = asked /\ variables' = variables /\ had' = had
  BY DEF Ascend, Last, Front
<1>2. /\ k \in Nat \ {0} /\ rests[k] \in Seq(Part) /\ ret \in Seq(Part)
      /\ rests \in Seq(Seq(Part))
  BY <1>1 DEF InterTyped
<1>3. Len(rests') = k - 1 /\ \A i \in 1 .. k - 1 : rests'[i] = rests[i]
  <2> DEFINE s == rests
             n == k - 1
  <2>1. s \in Seq(Seq(Part)) /\ n \in Nat /\ n <= Len(s)
    BY <1>2
  <2> HIDE DEF s, n
  <2>2. Len(SubSeq(s, 1, n)) = n /\ \A i \in 1 .. n : SubSeq(s, 1, n)[i] = s[i]
    BY <2>1
  <2> QED BY <1>1, <2>2 DEF s, n
<1>12. \A i \in 1 .. k - 1 : i \in 1 .. k /\ i \in 0 .. k - 1 /\ i - 1 \in 0 .. k - 1
  BY <1>2
<1>13. 0 \in 0 .. k - 1 /\ k - 1 \in 0 .. k - 1 /\ k \in 1 .. k
  BY <1>2
<1>4. PICK g : Pending(g) /\ ret \o g[k] = had \o Rewritten(asked, variables)
  BY DEF OnTheWayBack
<1>5. /\ g \in [0 .. k -> Seq(Part)] /\ g[0] = <<>> /\ \A i \in 1 .. k : g[i] = rests[i] \o g[i - 1]
  BY <1>4 DEF Pending
<1>6. PICK h : h \in [0 .. k - 1 -> Seq(Part)] /\ \A i \in 0 .. k - 1 : h[i] = g[i]
  <2> DEFINE e == [i \in 0 .. k - 1 |-> g[i]]
  <2>1. e \in [0 .. k - 1 -> Seq(Part)] /\ \A i \in 0 .. k - 1 : e[i] = g[i]
    BY <1>2, <1>5
  <2> HIDE DEF e
  <2> QED BY <2>1
<1>7. h[0] = <<>> /\ \A i \in 1 .. k - 1 : h[i] = rests'[i] \o h[i - 1]
  <2> HIDE DEF k
  <2> QED BY <1>3, <1>5, <1>6, <1>12, <1>13
<1>8. Pending(h)'
  <2>1. /\ h \in [0 .. Len(rests') -> Seq(Part)] /\ h[0] = <<>>
        /\ \A i \in 1 .. Len(rests') : h[i] = rests'[i] \o h[i - 1]
    <3> HIDE DEF k
    <3> QED BY <1>3, <1>6, <1>7
  <2> QED BY <2>1 DEF Pending
<1>9. g[k] = rests[k] \o h[k - 1] /\ h[k - 1] \in Seq(Part)
  <2> HIDE DEF k
  <2> QED BY <1>5, <1>6, <1>13
<1>10. (ret \o rests[k]) \o h[k - 1] = ret \o (rests[k] \o h[k - 1])
  <2> DEFINE x == ret
             y == rests[k]
             z == h[k - 1]
  <2>1. x \in Seq(Part) /\ y \in Seq(Part) /\ z \in Seq(Part)
    BY <1>2, <1>9
  <2> HIDE DEF x, y, z
  <2>2. (x \o y) \o z = x \o (y \o z)
    BY <2>1, ConcatAssociative
  <2> QED BY <2>2 DEF x, y, z
<1>11. ret' \o h[Len(rests')] = had' \o Rewritten(asked', variables')
  BY <1>1, <1>3, <1>4, <1>9, <1>10
<1> QED BY <1>8, <1>11 DEF OnTheWayBack

\* The invariant is inductive, down and up again.
LEMMA ToldStep ==
  ASSUME ToldInv, [InterNext]_interVars
  PROVE  ToldInv'
<1>1. InterTyped /\ HadInv /\ StackInv /\ InterTyped' /\ HadInv' /\ StackInv'
  BY InterTypes, HadStep, StackStep DEF ToldInv
<1> SUFFICES ASSUME Valued' PROVE (doing = "down" => OnTheWay /\ (pth = <<>> => rests = <<>>))'
                                  /\ (doing = "up" => OnTheWayBack)' /\ Told'
  BY <1>1 DEF ToldInv
<1>2. variables' = variables
  BY DEF InterNext, InterCall, InterStep, Interpolate, NoCsidl, Csidl, Enter, Answers, Descend,
         Overflow, Fail, Bottom, Ascend, Return, interVars
<1>3. /\ doing = "down" => OnTheWay /\ (pth = <<>> => rests = <<>>)
      /\ doing = "up" => OnTheWayBack
      /\ Told /\ Valued
  BY <1>2 DEF ToldInv, Valued
<1>4. ASSUME NEW t \in Paths, Interpolate(t) PROVE doing' = "down" /\ OnTheWay' /\ rests' = <<>>
  BY <1>1, <1>2, <1>4, EnterTold DEF Interpolate, Enter
<1>5. ASSUME NEW t, Answers(t, "Some"), doing = "idle", t \in Seq(Part) PROVE doing' = "idle" /\ Told'
  <2>1. asked' = <<>> /\ ret' = t /\ had' = t /\ doing' = "idle"
    BY <1>5 DEF Answers
  <2>2. Rewritten(<<>>, variables) = <<>>
    BY <1>1, RewrittenPlain DEF Leads
  <2>3. t \o <<>> = t
    BY <1>5, ConcatEmptySeq
  <2> QED BY <1>2, <2>1, <2>2, <2>3 DEF Told
<1>6. ASSUME NEW c \in Csidls, Csidl(c[1], c[2])
      PROVE  \/ doing' = "down" /\ OnTheWay' /\ pth' # <<>>
             \/ doing' = "idle" /\ Told'
  <2>1. CASE c[1] \in FolderId
    <3> DEFINE p == csidl_value[c[1]]
    <3>1. p # <<>> /\ c[2] \in Seq(Part)
      BY <2>1, InterpolationAssumption
    <3>2. pth' = p /\ rests' = <<c[2]>> /\ asked' = p \o c[2] /\ doing' = "down"
      BY <1>6, <2>1 DEF Csidl, Enter
    <3> HIDE DEF p
    <3> QED BY <1>1, <1>2, <3>1, <3>2, EnterTold
  <2>2. CASE c[1] \notin FolderId
    BY <1>6, <2>2 DEF Csidl, Answers, Told
  <2> QED BY <2>1, <2>2
<1>7. CASE Descend
  <2>1. doing = "down" /\ doing' = "down" /\ pth' # <<>>
    BY <1>3, <1>7 DEF Descend, Known, Valued
  <2>2. OnTheWay'
    BY <1>1, <1>3, <1>7, <2>1, DescendTold
  <2> QED BY <2>1, <2>2 DEF Told
<1>8. CASE Overflow
  BY <1>8 DEF Overflow, Told
<1>9. CASE Fail
  BY <1>9 DEF Fail, Told
<1>10. CASE Bottom
  <2>1. doing = "down" /\ doing' = "up"
    BY <1>10 DEF Bottom
  <2>2. OnTheWayBack'
    BY <1>1, <1>3, <1>10, <2>1, BottomTold
  <2> QED BY <2>1, <2>2 DEF Told
<1>11. CASE Ascend
  <2>1. doing = "up" /\ doing' = "up"
    BY <1>11 DEF Ascend
  <2>2. OnTheWayBack'
    BY <1>1, <1>3, <1>11, <2>1, AscendTold
  <2> QED BY <2>1, <2>2 DEF Told
<1>12. CASE Return
  <2>1. /\ doing = "up" /\ rests = <<>> /\ doing' = "idle"
        /\ asked' = asked /\ ret' = ret /\ had' = had
    BY <1>12 DEF Return
  <2>2. PICK g : Pending(g) /\ ret \o g[Len(rests)] = had \o Rewritten(asked, variables)
    BY <1>3, <2>1 DEF OnTheWayBack
  <2>3. Len(rests) = 0 /\ g[0] = <<>> /\ ret \o <<>> = ret
    BY <1>1, <2>1, <2>2, ConcatEmptySeq DEF Pending, InterTyped
  <2>4. ret' = had' \o Rewritten(asked', variables')
    BY <1>2, <2>1, <2>2, <2>3
  <2> QED BY <2>1, <2>4 DEF Told
<1>13. CASE UNCHANGED interVars
  <2>1. /\ doing' = doing /\ pth' = pth /\ rests' = rests /\ asked' = asked /\ ret' = ret
        /\ had' = had /\ answer' = answer
    BY <1>13 DEF interVars, calls
  <2>2. doing = "down" => OnTheWay'
    BY <1>2, <1>3, <2>1 DEF OnTheWay, Pending
  <2>3. doing = "up" => OnTheWayBack'
    BY <1>2, <1>3, <2>1 DEF OnTheWayBack, Pending
  <2>4. Told'
    BY <1>2, <1>3, <2>1 DEF Told
  <2> QED BY <1>3, <2>1, <2>2, <2>3, <2>4
<1>14. ASSUME NEW t \in Paths, NoCsidl(t) PROVE doing' = "idle" /\ Told'
  BY <1>5, <1>14, InterpolationAssumption DEF NoCsidl
<1>15. CASE \E t \in Paths : Interpolate(t)
  BY <1>4, <1>15 DEF Told
<1>16. CASE \E t \in Paths : NoCsidl(t)
  BY <1>14, <1>16
<1>17. CASE \E c \in Csidls : Csidl(c[1], c[2])
  BY <1>6, <1>17 DEF Told
<1> QED BY <1>7, <1>8, <1>9, <1>10, <1>11, <1>12, <1>13, <1>15, <1>16, <1>17
        DEF InterNext, InterCall, InterStep

\* Before the first call there is nothing to tell.
LEMMA ToldInit == InterInit => ToldInv
<1> SUFFICES ASSUME InterInit PROVE ToldInv
  OBVIOUS
<1>1. InterTyped
  <2>1. <<>> \in Seq(Part) /\ <<>> \in Seq(Seq(Part))
    OBVIOUS
  <2> QED BY <2>1 DEF InterInit, InterTyped
<1>2. HadInv
  BY DEF InterInit, HadInv, NothingOnNone
<1>3. StackInv
  BY DEF InterInit, StackInv, StackSuffices
<1> QED BY <1>1, <1>2, <1>3 DEF ToldInv, Told, InterInit

(* A path that is answered stands in the caller's String for what its      *)
(* variables say, however they name each other and in however many calls   *)
(* it was put together (core/mod.rs:4-21), where every variable has a      *)
(* value.                                                                  *)
THEOREM InterpolatedAsTold == InterSpec => [](Valued => Told)
<1>1. ToldInv /\ [InterNext]_interVars => ToldInv'
  BY ToldStep
<1>2. ToldInv => (Valued => Told)
  BY DEF ToldInv
<1> QED BY <1>1, <1>2, ToldInit, PTL DEF InterSpec, InterNext
-----------------------------------------------------------------------------
\* Any paths, and the components that normalize_prefix leaves as they are.  (That
\* "C" is a STRING is beyond the provers.)
Piece == STRING \cup {"C"}
AnyPath == Seq(Seq(Piece))
Cleaned == {<<piece>> : piece \in Piece \ {"", " ", "C:"}}

\* Pushed of a piece and of the pieces of a component, as functions.
PushedOf == [piece \in Piece |-> Pushed(piece)]
NamesIn == [c \in Seq(Piece) |-> FlatMap(PushedOf, c)]

\* What normalize_prefix pushes for a piece is a component of a clean path.
LEMMA PushedType == Maps(PushedOf, Piece, Cleaned)
<1> SUFFICES ASSUME NEW piece \in Piece PROVE Pushed(piece) \in Seq(Cleaned)
  BY DEF Maps, PushedOf
<1>1. Uncolon(piece) \in Piece /\ Uncolon(piece) # "C:"
  <2>1. CASE piece = "C:"
    BY <2>1 DEF Uncolon, Piece
  <2>2. CASE piece # "C:"
    BY <2>2 DEF Uncolon
  <2> QED BY <2>1, <2>2
<1>2. CASE piece \in {"", " "}
  <2>1. Pushed(piece) = <<>>
    BY <1>2 DEF Pushed
  <2>2. <<>> \in Seq(Cleaned)
    OBVIOUS
  <2> QED BY <2>1, <2>2
<1>3. CASE piece \notin {"", " "}
  <2> DEFINE c == <<Uncolon(piece)>>
  <2>1. Uncolon(piece) \notin {"", " "}
    BY <1>3 DEF Uncolon
  <2>2. c \in Cleaned
    BY <1>1, <2>1 DEF Cleaned
  <2>3. Pushed(piece) = <<c>>
    BY <1>3 DEF Pushed
  <2> HIDE DEF c
  <2>4. <<c>> \in Seq(Cleaned)
    BY <2>2
  <2> QED BY <2>3, <2>4
<1> QED BY <1>2, <1>3

\* Paths that follow one another are a path.
LEMMA PathAppended ==
  ASSUME NEW p \in AnyPath, NEW q \in AnyPath
  PROVE  p \o q \in AnyPath /\ p \o <<>> = p /\ <<>> \o p = p
<1> DEFINE S == Seq(Piece)
<1>1. p \in Seq(S) /\ q \in Seq(S)
  BY DEF AnyPath
<1> HIDE DEF S
<1>2. p \o q \in Seq(S) /\ p \o <<>> = p /\ <<>> \o p = p
  BY <1>1
<1> QED BY <1>2 DEF AnyPath, S

\* It does not matter which two are joined first.
LEMMA PathsAppended ==
  ASSUME NEW p \in AnyPath, NEW q \in AnyPath, NEW r \in AnyPath
  PROVE  (p \o q) \o r = p \o (q \o r)
<1> DEFINE S == Seq(Piece)
<1>1. p \in Seq(S) /\ q \in Seq(S) /\ r \in Seq(S)
  BY DEF AnyPath
<1> HIDE DEF S
<1> QED BY <1>1

\* A clean path is a path.
LEMMA CleanedIsPath == Cleaned \subseteq Seq(Piece) /\ Seq(Cleaned) \subseteq AnyPath
<1>1. Cleaned \subseteq Seq(Piece)
  <2> SUFFICES ASSUME NEW piece \in Piece PROVE <<piece>> \in Seq(Piece)
    BY DEF Cleaned
  <2> QED BY SingleSeq
<1> QED BY <1>1 DEF AnyPath

\* What normalize_prefix makes of a component is clean.
LEMMA NamesInType == Maps(NamesIn, Seq(Piece), Cleaned)
BY PushedType, FlatMapType DEF Maps, NamesIn

(* normalize_prefix takes a path component by component.                   *)
LEMMA CleanIs ==
  ASSUME NEW p \in AnyPath
  PROVE  Clean(p) = FlatMap(NamesIn, p)
<1>1. \A c \in Seq(Piece) : FlattenSeq([j \in DOMAIN c |-> Pushed(c[j])]) = NamesIn[c]
  <2> TAKE c \in Seq(Piece)
  <2>1. [j \in DOMAIN c |-> Pushed(c[j])] = [j \in DOMAIN c |-> PushedOf[c[j]]]
    <3>1. \A j \in DOMAIN c : c[j] \in Piece
      OBVIOUS
    <3> QED BY <3>1 DEF PushedOf
  <2> QED BY <2>1 DEF NamesIn, FlatMap
<1>2. \A i \in DOMAIN p : p[i] \in Seq(Piece)
  BY DEF AnyPath
<1>3. [i \in DOMAIN p |-> FlattenSeq([j \in DOMAIN p[i] |-> Pushed(p[i][j])])]
        = [i \in DOMAIN p |-> NamesIn[p[i]]]
  BY <1>1, <1>2
<1> QED BY <1>3 DEF Clean, FlatMap

\* So is what it makes of a path.
LEMMA CleanType ==
  ASSUME NEW p \in AnyPath
  PROVE  Clean(p) \in Seq(Cleaned) /\ Clean(p) \in AnyPath
<1>1. FlatMap(NamesIn, p) \in Seq(Cleaned)
  BY NamesInType, FlatMapType DEF AnyPath
<1> QED BY <1>1, CleanIs, CleanedIsPath

(* It takes the parts of a path one after the other.                       *)
LEMMA CleanConcat ==
  ASSUME NEW p \in AnyPath, NEW q \in AnyPath
  PROVE  Clean(p \o q) = Clean(p) \o Clean(q)
<1>2. FlatMap(NamesIn, p \o q) = FlatMap(NamesIn, p) \o FlatMap(NamesIn, q)
  BY NamesInType, FlatMapConcat DEF AnyPath
<1>3. p \o q \in AnyPath
  BY DEF AnyPath
<1> QED BY <1>2, <1>3, CleanIs

\* Components are cleaned one by one: the last one last.
LEMMA CleanAppend ==
  ASSUME NEW p \in AnyPath, NEW c \in Seq(Piece)
  PROVE  Append(p, c) \in AnyPath /\ Clean(Append(p, c)) = Clean(p) \o NamesIn[c]
<1>1. FlatMap(NamesIn, Append(p, c)) = FlatMap(NamesIn, p) \o NamesIn[c]
  BY NamesInType, FlatMapAppend DEF AnyPath
<1>2. Append(p, c) \in AnyPath
  BY SingleSeq DEF AnyPath
<1> QED BY <1>1, <1>2, CleanIs

(* What it has made of a path it leaves as it is.                          *)
LEMMA CleanOfClean ==
  \A p \in Seq(Cleaned) : Clean(p) = p
<1> DEFINE Q == {p \in Seq(Cleaned) : Clean(p) = p}
<1>1. <<>> \in Q
  <2>1. <<>> \in Seq(Cleaned) /\ <<>> \in AnyPath
    BY DEF AnyPath
  <2> QED BY <2>1, CleanIs, FlatMapEmpty
<1>2. ASSUME NEW p \in Seq(Cleaned), NEW c \in Cleaned, p \in Q PROVE Append(p, c) \in Q
  <2>1. PICK piece \in Piece \ {"", " ", "C:"} : c = <<piece>>
    BY DEF Cleaned
  <2>2. NamesIn[c] = <<c>>
    <3>1. Append(<<>>, piece) = <<piece>> /\ <<>> \in Seq(Piece) /\ <<piece>> \in Seq(Piece)
      BY SingleSeq
    <3>2. FlatMap(PushedOf, Append(<<>>, piece)) = FlatMap(PushedOf, <<>>) \o PushedOf[piece]
      BY <3>1, PushedType, FlatMapAppend, ZenonT(60)
    <3>3. PushedOf[piece] = <<c>>
      BY <2>1 DEF PushedOf, Pushed, Uncolon
    <3>4. FlatMap(PushedOf, c) = <<>> \o <<c>>
      BY <2>1, <3>1, <3>2, <3>3, FlatMapEmpty
    <3>5. <<>> \o <<c>> = <<c>>
      BY SingleSeq
    <3>6. NamesIn[c] = FlatMap(PushedOf, c)
      BY <2>1, <3>1 DEF NamesIn
    <3> QED BY <3>4, <3>5, <3>6
  <2>3. p \in AnyPath /\ c \in Seq(Piece)
    BY CleanedIsPath
  <2>4. Clean(Append(p, c)) = Clean(p) \o NamesIn[c]
    BY <2>3, CleanAppend
  <2>5. Clean(Append(p, c)) = p \o <<c>>
    BY <1>2, <2>2, <2>4
  <2>6. p \o <<c>> = Append(p, c) /\ Append(p, c) \in Seq(Cleaned)
    BY SingleSeq
  <2> QED BY <2>5, <2>6
<1> HIDE DEF Q
<1>3. \A p \in Seq(Cleaned) : p \in Q
  BY <1>1, <1>2, SeqInduction
<1> QED BY <1>3 DEF Q

(* The names of a path are what normalize_prefix makes of it.              *)
LEMMA NamesAreClean ==
  ASSUME NEW p \in AnyPath
  PROVE  NamesOf(p) = Clean(p)
<1> DEFINE pieces == FlattenSeq(p)
<1>1. pieces \in Seq(Piece)
  BY FlattenType DEF AnyPath
<1> HIDE DEF pieces
<1>2. \A i \in DOMAIN pieces :
        (CASE pieces[i] \in {"", " "} -> <<>> [] pieces[i] = "C:" -> <<<<"C">>>>
           [] OTHER -> <<<<pieces[i]>>>>) = PushedOf[pieces[i]]
  <2> TAKE i \in DOMAIN pieces
  <2>1. pieces[i] \in Piece /\ PushedOf[pieces[i]] = Pushed(pieces[i])
    BY <1>1 DEF PushedOf
  <2> QED BY <2>1 DEF Pushed, Uncolon
<1>3. NamesOf(p) = FlatMap(PushedOf, pieces)
  <2>1. NamesOf(p) = FlattenSeq([i \in DOMAIN pieces |->
            CASE pieces[i] \in {"", " "} -> <<>> [] pieces[i] = "C:" -> <<<<"C">>>>
              [] OTHER -> <<<<pieces[i]>>>>])
    BY DEF NamesOf, pieces
  <2>2. [i \in DOMAIN pieces |->
            CASE pieces[i] \in {"", " "} -> <<>> [] pieces[i] = "C:" -> <<<<"C">>>>
              [] OTHER -> <<<<pieces[i]>>>>] = [i \in DOMAIN pieces |-> PushedOf[pieces[i]]]
    BY <1>2
  <2> QED BY <2>1, <2>2 DEF FlatMap
<1>4. FlatMap(PushedOf, pieces) = FlatMap(NamesIn, p)
  <2>1. \A ss \in Seq(Seq(Piece)) :
          FlatMap(PushedOf, FlattenSeq(ss)) = FlatMap([s \in Seq(Piece) |-> FlatMap(PushedOf, s)], ss)
    BY PushedType, FlatMapNested
  <2> QED BY <2>1 DEF AnyPath, NamesIn, pieces
<1> QED BY <1>3, <1>4, CleanIs
-----------------------------------------------------------------------------
\* The names that the file systems above the lowest put in front, the outermost's last.
Above(stack) == [n \in 1 .. Len(stack) - 1 |-> NamesOf(stack[Len(stack) - n])]

\* The mounts above the innermost one, cleaned.
LEMMA AboveType ==
  ASSUME NEW stack \in Seq(AnyPath), stack # <<>>
  PROVE  /\ Above(stack) \in Seq(Seq(Cleaned)) /\ Len(Above(stack)) = Len(stack) - 1
         /\ Len(stack) \in Nat \ {0}
<1>1. Len(stack) \in Nat \ {0} /\ \A i \in 1 .. Len(stack) : stack[i] \in AnyPath
  OBVIOUS
<1>2. \A n \in 1 .. Len(stack) - 1 : NamesOf(stack[Len(stack) - n]) \in Seq(Cleaned)
  <2> TAKE n \in 1 .. Len(stack) - 1
  <2>1. stack[Len(stack) - n] \in AnyPath
    BY <1>1
  <2> QED BY <2>1, NamesAreClean, CleanType
<1>3. Len(stack) - 1 \in Nat
  BY <1>1
<1> DEFINE k == Len(stack) - 1
           S == Seq(Cleaned)
<1>4. Above(stack) = [n \in 1 .. k |-> NamesOf(stack[Len(stack) - n])]
  BY DEF Above
<1>5. k \in Nat /\ \A n \in 1 .. k : NamesOf(stack[Len(stack) - n]) \in S
  BY <1>2, <1>3
<1> HIDE DEF k, S
<1>6. Above(stack) \in Seq(S) /\ Len(Above(stack)) = k
  BY <1>4, <1>5
<1> QED BY <1>1, <1>6 DEF k, S

\* Where a stack's innermost mount is in the system it stands on.
LEMMA RootType ==
  ASSUME NEW stack \in Seq(AnyPath), stack # <<>>
  PROVE  /\ FlattenSeq(Above(stack)) \in Seq(Cleaned) /\ FlattenSeq(Above(stack)) \in AnyPath
         /\ Last(stack) \in AnyPath
         /\ RootOf(stack) = Last(stack) \o FlattenSeq(Above(stack))
         /\ RootOf(stack) \in AnyPath
<1>1. FlattenSeq(Above(stack)) \in Seq(Cleaned)
  BY AboveType, FlattenType
<1>2. FlattenSeq(Above(stack)) \in AnyPath
  BY <1>1, CleanedIsPath
<1>3. Last(stack) \in AnyPath
  BY AboveType DEF Last
<1>4. RootOf(stack) = Last(stack) \o FlattenSeq(Above(stack))
  BY DEF RootOf, Above
<1>5. Last(stack) \o FlattenSeq(Above(stack)) \in AnyPath
  BY <1>2, <1>3, ConcatProperties DEF AnyPath
<1> QED BY <1>1, <1>2, <1>3, <1>4, <1>5

(* A single file system shows its own path.                                *)
LEMMA RootOfSingle ==
  ASSUME NEW p \in AnyPath
  PROVE  RootOf(<<p>>) = p
<1>1. <<p>> \in Seq(AnyPath) /\ <<p>> # <<>> /\ Len(<<p>>) = 1 /\ Last(<<p>>) = p
  BY SingleSeq DEF Last
<1>2. Above(<<p>>) = <<>>
  <2> DEFINE a == Above(<<p>>)
             S == Seq(Cleaned)
  <2>1. a \in Seq(S) /\ Len(a) = Len(<<p>>) - 1
    BY <1>1, AboveType
  <2> HIDE DEF a, S
  <2>2. a = <<>>
    BY <1>1, <2>1
  <2> QED BY <2>2 DEF a
<1>3. RootOf(<<p>>) = p \o FlattenSeq(<<>>)
  BY <1>1, <1>2, RootType
<1> QED BY <1>3, FlattenEmpty, ConcatEmptySeq DEF AnyPath

(* One on top of others shows a directory of what they show.               *)
LEMMA RootOfOuter ==
  ASSUME NEW stack \in Seq(AnyPath), stack # <<>>, NEW p \in AnyPath
  PROVE  RootOf(<<p>> \o stack) = RootOf(stack) \o NamesOf(p)
<1> DEFINE t == <<p>> \o stack
           k == Len(stack)
<1>1. /\ t \in Seq(AnyPath) /\ t # <<>> /\ k \in Nat \ {0} /\ Len(t) = k + 1
      /\ t[1] = p /\ \A i \in 1 .. k : t[i + 1] = stack[i]
  <2>1. <<p>> \in Seq(AnyPath) /\ Len(<<p>>) = 1
    BY SingleSeq
  <2> QED BY <2>1
<1> HIDE DEF t
<1>2. Last(t) = Last(stack)
  BY <1>1 DEF Last
<1>3. NamesOf(p) \in Seq(Cleaned) /\ NamesOf(p) \in AnyPath
  BY NamesAreClean, CleanType
<1>4. Above(t) = Append(Above(stack), NamesOf(p))
  <2> DEFINE a == Above(t)
             b == Above(stack)
             c == NamesOf(p)
             S == Seq(Cleaned)
  <2>1. a \in Seq(S) /\ Len(a) = k /\ b \in Seq(S) /\ Len(b) = k - 1 /\ c \in S
    BY <1>1, <1>3, AboveType
  <2>2. a[k] = c
    BY <1>1 DEF Above
  <2>3. \A n \in 1 .. k - 1 : a[n] = b[n]
    <3> TAKE n \in 1 .. k - 1
    <3>1. a[n] = NamesOf(t[(k + 1) - n]) /\ b[n] = NamesOf(stack[k - n])
      BY <1>1 DEF Above
    <3>2. t[(k - n) + 1] = stack[k - n] /\ (k - n) + 1 = (k + 1) - n
      BY <1>1
    <3> QED BY <3>1, <3>2
  <2> HIDE DEF a, b, c, S
  <2>4. Append(b, c) \in Seq(S) /\ Len(Append(b, c)) = k /\ Append(b, c)[k] = c
        /\ \A n \in 1 .. k - 1 : Append(b, c)[n] = b[n]
    BY <1>1, <2>1, AppendProperties
  <2>5. \A n \in 1 .. k : a[n] = Append(b, c)[n]
    BY <1>1, <2>2, <2>3, <2>4
  <2>6. a = Append(b, c)
    BY <2>1, <2>4, <2>5, SeqEqual
  <2> QED BY <2>6 DEF a, b, c
<1>5. FlattenSeq(Above(t)) = FlattenSeq(Above(stack)) \o NamesOf(p)
  BY <1>3, <1>4, AboveType, FlattenAppend
<1>6. RootOf(t) = Last(stack) \o (FlattenSeq(Above(stack)) \o NamesOf(p))
  BY <1>1, <1>2, <1>5, RootType
<1>7. (Last(stack) \o FlattenSeq(Above(stack))) \o NamesOf(p)
        = Last(stack) \o (FlattenSeq(Above(stack)) \o NamesOf(p))
  <2> DEFINE a == Last(stack)
             b == FlattenSeq(Above(stack))
             c == NamesOf(p)
  <2>1. a \in AnyPath /\ b \in AnyPath /\ c \in AnyPath
    BY <1>3, RootType
  <2> HIDE DEF a, b, c
  <2>2. (a \o b) \o c = a \o (b \o c)
    BY <2>1, PathsAppended
  <2> QED BY <2>2 DEF a, b, c
<1> QED BY <1>6, <1>7, RootType DEF t

(* One below others has them ask for what they show below its own path.    *)
LEMMA RootOfInner ==
  ASSUME NEW stack \in Seq(AnyPath), NEW p \in AnyPath
  PROVE  RootOf(Append(stack, p)) = p \o Clean(RootOf(stack))
<1>1. CASE stack = <<>>
  <2>1. Append(stack, p) = <<p>> /\ RootOf(stack) = <<>> /\ <<>> \in Seq(Cleaned)
    BY <1>1, SingleSeq DEF RootOf, Root
  <2>2. Clean(<<>>) = <<>>
    BY <2>1, CleanOfClean
  <2>3. p \o <<>> = p
    BY ConcatEmptySeq DEF AnyPath
  <2> QED BY <2>1, <2>2, <2>3, RootOfSingle
<1>2. CASE stack # <<>>
  <2> DEFINE t == Append(stack, p)
             k == Len(stack)
             l == Last(stack)
             f == FlattenSeq(Above(stack))
  <2>1. /\ t \in Seq(AnyPath) /\ t # <<>> /\ k \in Nat \ {0} /\ Len(t) = k + 1
        /\ t[k + 1] = p /\ \A i \in 1 .. k : t[i] = stack[i]
    BY <1>2, AppendProperties
  <2> HIDE DEF t
  <2>2. Last(t) = p
    BY <2>1 DEF Last
  <2>3. l \in AnyPath /\ f \in Seq(Cleaned) /\ f \in AnyPath /\ RootOf(stack) = l \o f
    BY <1>2, RootType
  <2>4. NamesOf(l) \in Seq(Cleaned) /\ NamesOf(l) = Clean(l)
    BY <2>3, NamesAreClean, CleanType
  <2>5. Above(t) = <<NamesOf(l)>> \o Above(stack)
    <3> DEFINE a == Above(t)
               b == Above(stack)
               c == NamesOf(l)
               S == Seq(Cleaned)
    <3>1. a \in Seq(S) /\ Len(a) = k /\ b \in Seq(S) /\ Len(b) = k - 1 /\ c \in S
      BY <1>2, <2>1, <2>4, AboveType
    <3>2. a[1] = c
      BY <2>1 DEF Above, Last
    <3>3. \A n \in 1 .. k - 1 : a[n + 1] = b[n]
      <4> TAKE n \in 1 .. k - 1
      <4>1. a[n + 1] = NamesOf(t[(k + 1) - (n + 1)]) /\ b[n] = NamesOf(stack[k - n])
        BY <2>1 DEF Above
      <4>2. t[k - n] = stack[k - n] /\ k - n = (k + 1) - (n + 1)
        BY <2>1
      <4> QED BY <4>1, <4>2
    <3> HIDE DEF a, b, c, S, l, f
    <3>4. <<c>> \in Seq(S) /\ Len(<<c>>) = 1 /\ <<c>>[1] = c
      BY <3>1, SingleSeq
    <3> DEFINE d == <<c>> \o b
    <3>5. d \in Seq(S) /\ Len(d) = k /\ d[1] = c /\ \A n \in 1 .. k - 1 : d[n + 1] = b[n]
      BY <2>1, <3>1, <3>4
    <3> HIDE DEF d
    <3>6. \A n \in 1 .. k : a[n] = d[n]
      <4> TAKE n \in 1 .. k
      <4>1. CASE n = 1
        BY <3>2, <3>5, <4>1
      <4>2. CASE n # 1
        <5>1. n - 1 \in 1 .. k - 1 /\ (n - 1) + 1 = n
          BY <2>1, <4>2
        <5> QED BY <3>3, <3>5, <5>1
      <4> QED BY <4>1, <4>2
    <3>7. a = d
      BY <3>1, <3>5, <3>6, SeqEqual
    <3> QED BY <3>7 DEF a, b, c, d
  <2>6. FlattenSeq(Above(t)) = NamesOf(l) \o f
    <3> HIDE DEF l
    <3>1. <<NamesOf(l)>> \in Seq(Seq(Cleaned)) /\ Above(stack) \in Seq(Seq(Cleaned))
      BY <1>2, <2>4, SingleSeq, AboveType
    <3>2. FlattenSeq(<<NamesOf(l)>> \o Above(stack)) = FlattenSeq(<<NamesOf(l)>>) \o FlattenSeq(Above(stack))
      BY <3>1, FlattenConcat
    <3> QED BY <2>4, <2>5, <3>2, FlattenSingle
  <2>7. RootOf(t) = p \o (NamesOf(l) \o f)
    BY <2>1, <2>2, <2>6, RootType
  <2>8. Clean(l \o f) = Clean(l) \o f
    <3> HIDE DEF l, f
    <3> QED BY <2>3, CleanConcat, CleanOfClean
  <2> QED BY <2>3, <2>4, <2>7, <2>8 DEF t
<1> QED BY <1>1, <1>2
-----------------------------------------------------------------------------
AskCalls == {"read_to_string", "read_all", "read", "metadata", "read_dir", "open"}

FilesTyped ==
  /\ layers \in Seq(AnyPath) /\ base \in {"os", "image"} /\ disk \in Disks
  /\ path \in AnyPath /\ arg \in AnyPath /\ passed \in Nat /\ at \in {"idle", "down"}

\* What the first n file systems have made of the path.
ArgOf(n) == IF n = 0 THEN path ELSE RootOf(SubSeq(layers, 1, n)) \o Clean(path)
Passing == at = "down" => op.call \in AskCalls /\ passed \in 0 .. Len(layers) /\ arg = ArgOf(passed)
Answered == at = "idle" /\ rested /\ op.call \in AskCalls => reply = Reply(op, disk[base], Below(path))

FilesInv == InterTyped /\ FilesTyped /\ Passing /\ Answered /\ ExistsAgrees
-----------------------------------------------------------------------------
\* A path whose pieces are strings is a path.
LEMMA PathOfStrings == Seq(Seq(STRING)) \subseteq AnyPath
<1> DEFINE S == Seq(Piece)
<1>1. \A s \in Seq(STRING) : s \in S
  BY SeqMonotonic DEF Piece
<1>2. \A p \in Seq(Seq(STRING)) : p \in Seq(S)
  BY <1>1, SeqMonotonic
<1> QED BY <1>2 DEF AnyPath

\* Mounts, what is asked for and what interpolation makes of it are paths.
LEMMA PathsTyped ==
  /\ Mounts \cup Asked \subseteq AnyPath /\ Root \in AnyPath
  /\ \A t \in Seq(Part) : <<t>> \in AnyPath
<1> DEFINE S == Seq(Piece)
<1>1. \A s \in Seq(STRING) : s \in S
  BY SeqMonotonic DEF Piece
<1>2. \A p \in Seq(Seq(STRING)) : p \in Seq(S)
  BY <1>1, SeqMonotonic
<1>3. \A t \in Seq(Part) : t \in Seq(STRING)
  BY PartAssumption, SeqMonotonic
<1>4. \A t \in Seq(Part) : <<t>> \in Seq(S)
  BY <1>1, <1>3, SingleSeq
<1>5. <<>> \in Seq(S)
  OBVIOUS
<1> QED BY <1>2, <1>4, <1>5, FilesAssumption DEF AnyPath, Root

\* The innermost asks for what is below the directory that the stack shows.
LEMMA ArgIsBelow ==
  ASSUME FilesTyped
  PROVE  ArgOf(Len(layers)) = Below(path) /\ Below(path) \in AnyPath
<1>1. CASE layers = <<>>
  <2>1. <<>> \o path = path
    BY PathAppended DEF FilesTyped
  <2> QED BY <1>1, <2>1 DEF ArgOf, Below, RootOf, Root, FilesTyped
<1>2. CASE layers # <<>>
  <2>1. Len(layers) # 0 /\ SubSeq(layers, 1, Len(layers)) = layers
    BY <1>2 DEF FilesTyped
  <2>2. NamesOf(path) = Clean(path) /\ Clean(path) \in AnyPath
    BY NamesAreClean, CleanType DEF FilesTyped
  <2>3. RootOf(layers) \o Clean(path) \in AnyPath
    BY <1>2, <2>2, RootType, PathAppended DEF FilesTyped
  <2> QED BY <1>2, <2>1, <2>2, <2>3 DEF ArgOf, Below
<1> QED BY <1>1, <1>2

\* Each puts its own path in front of what the one before it asks for.
LEMMA ArgOfNext ==
  ASSUME FilesTyped, NEW n \in Nat, n < Len(layers)
  PROVE  /\ ArgOf(n) \in AnyPath /\ layers[n + 1] \o Clean(ArgOf(n)) = ArgOf(n + 1)
         /\ ArgOf(n + 1) \in AnyPath
<1> DEFINE l == layers[n + 1]
           s == SubSeq(layers, 1, n)
           c == Clean(path)
<1>1. l \in AnyPath /\ s \in Seq(AnyPath) /\ Len(s) = n /\ SubSeq(layers, 1, n + 1) = Append(s, l)
  BY DEF FilesTyped
<1>2. c \in AnyPath /\ c \in Seq(Cleaned) /\ path \in AnyPath
  BY CleanType DEF FilesTyped
<1>3. RootOf(Append(s, l)) = l \o Clean(RootOf(s))
  BY <1>1, RootOfInner
<1>4. ArgOf(n + 1) = (l \o Clean(RootOf(s))) \o c
  <2>1. n + 1 # 0
    OBVIOUS
  <2> HIDE DEF l, s
  <2> QED BY <1>1, <1>3, <2>1 DEF ArgOf
<1>5. RootOf(s) \in AnyPath
  <2> HIDE DEF s
  <2>1. CASE s = <<>>
    BY <2>1, PathsTyped DEF RootOf
  <2>2. CASE s # <<>>
    BY <1>1, <2>2, RootType
  <2> QED BY <2>1, <2>2
<1>6. Clean(RootOf(s)) \in AnyPath /\ RootOf(s) \o c \in AnyPath
  BY <1>2, <1>5, CleanType, PathAppended
<1>7. Clean(RootOf(s) \o c) = Clean(RootOf(s)) \o c
  <2> HIDE DEF s, c
  <2> QED BY <1>2, <1>5, CleanConcat, CleanOfClean
<1>8. /\ (l \o Clean(RootOf(s))) \o c = l \o (Clean(RootOf(s)) \o c)
      /\ l \o Clean(RootOf(s)) \in AnyPath /\ (l \o Clean(RootOf(s))) \o c \in AnyPath
  <2> DEFINE r == Clean(RootOf(s))
  <2> HIDE DEF l, s, c, r
  <2>1. r \in AnyPath
    BY <1>6 DEF r
  <2>2. l \o r \in AnyPath
    BY <1>1, <2>1, PathAppended
  <2>3. (l \o r) \o c = l \o (r \o c)
    BY <1>1, <1>2, <2>1, PathsAppended
  <2>4. (l \o r) \o c \in AnyPath
    BY <1>2, <2>2, PathAppended
  <2> QED BY <2>2, <2>3, <2>4 DEF r
<1>9. CASE n = 0
  <2>1. s = <<>> /\ ArgOf(n) = path
    BY <1>1, <1>9 DEF ArgOf
  <2>2. Clean(RootOf(s)) = <<>>
    <3>1. <<>> \in Seq(Cleaned)
      OBVIOUS
    <3> QED BY <2>1, <3>1, CleanOfClean DEF RootOf, Root
  <2>3. <<>> \o c = c
    BY <1>2, PathAppended
  <2>4. ArgOf(n) \in AnyPath /\ l \o Clean(ArgOf(n)) = l \o c
    BY <1>2, <2>1
  <2>5. ArgOf(n + 1) = l \o c
    BY <1>4, <1>8, <2>2, <2>3
  <2>6. ArgOf(n + 1) \in AnyPath
    BY <1>4, <1>8
  <2> QED BY <2>4, <2>5, <2>6
<1>10. CASE n # 0
  <2>1. ArgOf(n) = RootOf(s) \o c
    BY <1>10 DEF ArgOf
  <2>2. ArgOf(n) \in AnyPath /\ l \o Clean(ArgOf(n)) = l \o (Clean(RootOf(s)) \o c)
    BY <1>6, <1>7, <2>1
  <2>3. ArgOf(n + 1) = l \o (Clean(RootOf(s)) \o c) /\ ArgOf(n + 1) \in AnyPath
    BY <1>4, <1>8
  <2> QED BY <2>2, <2>3
<1> QED BY <1>9, <1>10
-----------------------------------------------------------------------------
OnlyFiles == FilesTyped /\ Passing /\ Answered /\ ExistsAgrees

\* Every question a client asks holds up its stack of file systems.
LEMMA AskHolds ==
  ASSUME OnlyFiles, NEW c, c.call \in AskCalls, NEW p \in AnyPath, Ask(c, p)
  PROVE  OnlyFiles'
<1>1. /\ op' = c /\ path' = p /\ arg' = p /\ passed' = 0 /\ at' = "down"
      /\ layers' = layers /\ base' = base /\ disk' = disk
  BY DEF Ask, fs
<1>2. FilesTyped'
  BY <1>1 DEF OnlyFiles, FilesTyped
<1>3. Passing'
  BY <1>1 DEF OnlyFiles, FilesTyped, Passing, ArgOf
<1>4. Answered' /\ ExistsAgrees'
  BY <1>1 DEF Answered, ExistsAgrees, AskCalls
<1> QED BY <1>2, <1>3, <1>4 DEF OnlyFiles

\* A chroot that forwards a question leaves what the invariant needs.
LEMMA ForwardHolds ==
  ASSUME OnlyFiles, Forward
  PROVE  OnlyFiles'
<1> USE DEF OnlyFiles
<1>1. /\ at = "down" /\ passed < Len(layers) /\ passed \in Nat
      /\ arg' = layers[passed + 1] \o Clean(arg) /\ passed' = passed + 1
      /\ at' = at /\ op' = op /\ path' = path /\ layers' = layers /\ base' = base /\ disk' = disk
  BY DEF Forward, fs, FilesTyped
<1>2. arg' = ArgOf(passed + 1) /\ ArgOf(passed + 1) \in AnyPath
  BY <1>1, ArgOfNext DEF Passing
<1>3. FilesTyped'
  BY <1>1, <1>2 DEF FilesTyped
<1>4. (ArgOf(passed))' = ArgOf(passed + 1)
  BY <1>1 DEF ArgOf
<1>5. Passing'
  BY <1>1, <1>2, <1>4 DEF FilesTyped, Passing
<1>6. Answered' /\ ExistsAgrees'
  BY <1>1 DEF Answered, ExistsAgrees, Passing, AskCalls
<1> QED BY <1>3, <1>5, <1>6

\* So does the disk that answers it.
LEMMA AnswerHolds ==
  ASSUME OnlyFiles, Answer
  PROVE  OnlyFiles'
<1> USE DEF OnlyFiles
<1>1. /\ at = "down" /\ passed = Len(layers) /\ at' = "idle" /\ passed' = 0 /\ arg' = Root
      /\ reply' = Reply(op, disk[base], arg)
      /\ op' = op /\ path' = path /\ layers' = layers /\ base' = base /\ disk' = disk
  BY DEF Answer, fs
<1>2. FilesTyped' /\ Passing'
  BY <1>1, PathsTyped DEF FilesTyped, Passing
<1>3. arg = Below(path)
  BY <1>1, ArgIsBelow DEF Passing
<1>4. Below(path)' = Below(path)
  BY <1>1 DEF Below
<1>5. Answered'
  BY <1>1, <1>3, <1>4 DEF Answered
<1>6. ExistsAgrees'
  BY <1>1 DEF ExistsAgrees, Passing, AskCalls
<1> QED BY <1>2, <1>5, <1>6

\* What is answered at once asks nobody.
LEMMA ReturnsHolds ==
  ASSUME OnlyFiles, NEW c, c \notin AskCalls, c # "exists", NEW p \in AnyPath, NEW r, Returns(c, p, r),
         layers' \in Seq(AnyPath), base' \in {"os", "image"}
  PROVE  OnlyFiles'
<1> USE DEF OnlyFiles
<1>1. /\ at = "idle" /\ at' = at /\ op' = [call |-> c] /\ path' = p /\ disk' = disk
      /\ passed' = passed /\ arg' = arg
  BY DEF Returns
<1>2. op'.call = c
  BY <1>1
<1>3. FilesTyped' /\ Passing'
  BY <1>1 DEF FilesTyped, Passing
<1>4. Answered' /\ ExistsAgrees'
  BY <1>2 DEF Answered, ExistsAgrees
<1> QED BY <1>3, <1>4

\* exists asks twice, of the same disk.
LEMMA ExistsHolds ==
  ASSUME OnlyFiles, NEW p \in AnyPath, exists(p)
  PROVE  OnlyFiles'
<1> USE DEF OnlyFiles
<1>1. /\ at = "idle" /\ at' = at /\ op' = [call |-> "exists"] /\ path' = p /\ disk' = disk
      /\ passed' = passed /\ arg' = arg /\ layers' = layers /\ base' = base
      /\ reply' = Ok(IF layers = <<>> THEN Exists(disk[base], p)
                     ELSE Exists(disk["os"], layers[1] \o Clean(p)))
  BY DEF exists, Returns, fs
<1>2. op'.call = "exists"
  BY <1>1
<1>3. FilesTyped' /\ Passing'
  BY <1>1 DEF FilesTyped, Passing
<1>4. Answered'
  BY <1>2 DEF Answered, AskCalls
<1>5. ASSUME Len(layers) = 0 \/ (Len(layers) = 1 /\ base = "os")
      PROVE  reply' = Ok(Exists(disk[base], Below(p)))
  <2>1. CASE layers = <<>>
    <3>1. Below(p) = p
      BY <2>1, PathAppended DEF Below, RootOf, Root
    <3> QED BY <1>1, <2>1, <3>1
  <2>2. CASE layers # <<>>
    <3>1. Len(layers) = 1 /\ base = "os" /\ layers = <<layers[1]>> /\ layers[1] \in AnyPath
      BY <1>5, <2>2 DEF FilesTyped
    <3>2. RootOf(layers) = layers[1]
      BY <3>1, RootOfSingle
    <3>3. Below(p) = layers[1] \o Clean(p)
      BY <2>2, <3>2, NamesAreClean DEF Below
    <3> QED BY <1>1, <2>2, <3>1, <3>3
  <2> QED BY <2>1, <2>2
<1>6. Below(path)' = Below(p)
  BY <1>1 DEF Below
<1>7. ExistsAgrees'
  BY <1>1, <1>5, <1>6 DEF ExistsAgrees
<1> QED BY <1>3, <1>4, <1>7

\* The disk may change between questions.
LEMMA ChangeHolds ==
  ASSUME OnlyFiles, Change
  PROVE  OnlyFiles'
BY DEF OnlyFiles, FilesTyped, Passing, ArgOf, Answered, ExistsAgrees, Change, fs, call

\* Together: every step of the stack.
LEMMA FilesNextHolds ==
  ASSUME OnlyFiles, FilesNext
  PROVE  OnlyFiles'
<1>1. ASSUME NEW c \in Calls, NEW p \in Asked, Ask(c, p) PROVE OnlyFiles'
  <2>1. c.call \in AskCalls /\ p \in AnyPath
    BY PathsTyped, FilesAssumption DEF AskCalls
  <2> QED BY <1>1, <2>1, AskHolds
<1>2. CASE FileMetadata
  <2>1. Returns("file", Root, MetadataOf(file)) /\ layers' = layers /\ base' = base
    BY <1>2 DEF FileMetadata, fs
  <2> QED BY <2>1, ReturnsHolds, PathsTyped DEF OnlyFiles, FilesTyped, AskCalls
<1>3. CASE is_live
  <2>1. Returns("is_live", Root, Ok(layers = <<>> /\ base = "os")) /\ layers' = layers /\ base' = base
    BY <1>3 DEF is_live, fs
  <2> QED BY <2>1, ReturnsHolds, PathsTyped DEF OnlyFiles, FilesTyped, AskCalls
<1>4. CASE from_fs
  <2>1. base' = base /\ layers' \in Seq(AnyPath)
    <3>1. CASE layers' = <<Root>> \o layers
      BY <1>4, <3>1, SingleSeq, ConcatProperties, PathsTyped DEF from_fs, OnlyFiles, FilesTyped
    <3>2. CASE layers' = layers
      BY <1>4, <3>2 DEF from_fs, OnlyFiles, FilesTyped
    <3> QED BY <1>4, <3>1, <3>2 DEF from_fs
  <2>2. PICK r : Returns("from_fs", Root, r)
    BY <1>4 DEF from_fs
  <2> QED BY <2>1, <2>2, ReturnsHolds, PathsTyped DEF OnlyFiles, FilesTyped, AskCalls
<1>5. CASE from_file
  <2>1. Returns("from_file", Root, Err) /\ layers' = layers /\ base' = base
    BY <1>5 DEF from_file, fs
  <2> QED BY <2>1, ReturnsHolds, PathsTyped DEF OnlyFiles, FilesTyped, AskCalls
<1>6. CASE duplicate
  <2>1. Returns("duplicate", Root, Ok("fs")) /\ base' = base /\ layers' = [i \in DOMAIN layers |-> layers[i]]
    BY <1>6 DEF duplicate
  <2>2. layers' = layers
    BY <2>1 DEF OnlyFiles, FilesTyped
  <2> QED BY <2>1, <2>2, ReturnsHolds, PathsTyped DEF OnlyFiles, FilesTyped, AskCalls
<1>7. ASSUME NEW p \in Asked, exists(p) PROVE OnlyFiles'
  BY <1>7, ExistsHolds, PathsTyped
<1>8. ASSUME NEW p \in Mounts, New(p) PROVE OnlyFiles'
  <2>1. Returns("new", p, Ok("fs")) /\ base' = base /\ layers' = <<p>> \o layers /\ p \in AnyPath
    BY <1>8, PathsTyped DEF New
  <2>2. layers' \in Seq(AnyPath)
    BY <2>1, SingleSeq, ConcatProperties DEF OnlyFiles, FilesTyped
  <2> QED BY <2>1, <2>2, ReturnsHolds DEF OnlyFiles, FilesTyped, AskCalls
<1> QED BY <1>1, <1>2, <1>3, <1>4, <1>5, <1>6, <1>7, <1>8, ForwardHolds, AnswerHolds, ChangeHolds
        DEF FilesNext

\* The invariant is inductive.
LEMMA FilesInvStep ==
  ASSUME FilesInv, [Next]_vars
  PROVE  FilesInv'
<1>0. OnlyFiles /\ InterTyped
  BY DEF FilesInv, OnlyFiles
<1>1. ASSUME UNCHANGED filesVars PROVE OnlyFiles'
  BY <1>0, <1>1 DEF OnlyFiles, FilesTyped, Passing, ArgOf, Answered, ExistsAgrees, Below, filesVars, fs, call
<1>2. ASSUME UNCHANGED interVars PROVE InterTyped'
  BY <1>0, <1>2 DEF InterTyped, interVars, calls
<1>3. CASE (InterCall \/ InterStep) /\ UNCHANGED filesVars
  BY <1>0, <1>1, <1>3, InterTypes DEF FilesInv, OnlyFiles, InterNext
<1>4. CASE FilesNext /\ UNCHANGED interVars
  BY <1>0, <1>2, <1>4, FilesNextHolds DEF FilesInv, OnlyFiles
<1>5. CASE Find
  <2> DEFINE c == [call |-> "read_all", meant |-> asked]
  <2>1. c.call \in AskCalls /\ <<ret>> \in AnyPath /\ Ask(c, <<ret>>) /\ UNCHANGED interVars
    BY <1>0, <1>5, PathsTyped DEF Find, InterTyped, AskCalls
  <2> HIDE DEF c
  <2> QED BY <1>0, <1>2, <2>1, AskHolds DEF FilesInv, OnlyFiles
<1>6. CASE Drop
  <2>1. InterTyped'
    <3>1. <<>> \in Seq(Part)
      OBVIOUS
    <3> QED BY <1>0, <1>6, <3>1 DEF Drop, InterTyped, calls
  <2>2. op'.call = "none" /\ path' = Root
    BY <1>6 DEF Drop
  <2>3. FilesTyped' /\ Passing'
    BY <1>0, <1>6, PathsTyped DEF Drop, OnlyFiles, FilesTyped, Passing, fs
  <2>4. Answered' /\ ExistsAgrees'
    BY <2>2 DEF Answered, ExistsAgrees, AskCalls
  <2> QED BY <2>1, <2>3, <2>4 DEF FilesInv
<1>7. CASE UNCHANGED vars
  BY <1>1, <1>2, <1>7 DEF FilesInv, OnlyFiles, vars
<1> QED BY <1>3, <1>4, <1>5, <1>6, <1>7 DEF Next

\* A stack starts idle.
LEMMA FilesInvInit == Init => FilesInv
<1> SUFFICES ASSUME Init PROVE FilesInv
  OBVIOUS
<1>1. InterTyped
  <2>1. <<>> \in Seq(Part) /\ <<>> \in Seq(Seq(Part))
    OBVIOUS
  <2> QED BY <2>1 DEF Init, InterInit, InterTyped
<1>2. FilesTyped
  <2>1. <<>> \in Seq(AnyPath)
    OBVIOUS
  <2> QED BY <2>1, PathsTyped DEF Init, FilesInit, FilesTyped
<1>3. Passing /\ Answered /\ ExistsAgrees
  BY DEF Init, FilesInit, Passing, Answered, ExistsAgrees
<1> QED BY <1>1, <1>2, <1>3 DEF FilesInv

(* exists of a file system on the operating system's own agrees with what  *)
(* can be read below it (chroot.rs:113), in any stack of any depth that is *)
(* built, given away and duplicated, whatever else is asked.               *)
THEOREM ExistsAlwaysAgrees == Spec => []ExistsAgrees
<1>1. FilesInv => ExistsAgrees
  BY DEF FilesInv
<1>2. FilesInv /\ [Next]_vars => FilesInv'
  BY FilesInvStep
<1> QED BY <1>1, <1>2, FilesInvInit, PTL DEF Spec
-----------------------------------------------------------------------------
\* What OneFileSystem has from StdFiles is what Files has.
LEMMA FSAnswers ==
  /\ FS!Err = Err
  /\ \A v : FS!Ok(v) = Ok(v)
  /\ \A node : FS!MetadataOf(node) = MetadataOf(node)
<1>1. FS!Err = Err
  BY DEF FS!Err, Err
<1>2. \A v : FS!Ok(v) = Ok(v)
  BY DEF FS!Ok, Ok
<1>3. \A t : FS!Timestamp(t) = Timestamp(t)
  BY <1>1, <1>2 DEF FS!Timestamp, Timestamp
<1>4. \A node : FS!MetadataOf(node) = MetadataOf(node)
  BY <1>1, <1>2, <1>3 DEF FS!MetadataOf, MetadataOf
<1> QED BY <1>1, <1>2, <1>4

\* One more on top of the stack shows a directory of what it showed.
LEMMA NarrowStep ==
  ASSUME FilesInv, at = "idle", NEW p \in Mounts \cup {Root}, layers' = <<p>> \o layers,
         at' = "idle", op'.call \in {"new", "from_fs"}, reply' = Ok("fs"),
         base' = base, disk' = disk, file' = file
  PROVE  FS!Narrow
<1>1. p \in AnyPath /\ layers \in Seq(AnyPath)
  BY PathsTyped DEF FilesInv, FilesTyped
<1>2. <<p>> \o layers # <<>>
  BY <1>1
<1>3. RootOf(<<p>> \o layers) = RootOf(layers) \o (IF layers = <<>> THEN p ELSE NamesOf(p))
  <2>1. CASE layers = <<>>
    <3>1. <<p>> \o layers = <<p>>
      BY <2>1, SingleSeq
    <3>2. <<>> \o p = p
      BY <1>1, PathAppended
    <3>3. RootOf(<<p>>) = p
      BY <1>1, RootOfSingle
    <3> QED BY <2>1, <3>1, <3>2, <3>3 DEF RootOf, Root
  <2>2. CASE layers # <<>>
    BY <1>1, <2>2, RootOfOuter
  <2> QED BY <2>1, <2>2
<1> DEFINE n == IF layers = <<>> THEN p ELSE NamesOf(p)
<1>4. RootOf(layers)' = RootOf(layers) \o n /\ (layers = <<>>)' = FALSE
  BY <1>2, <1>3
<1> QED BY <1>4, FSAnswers DEF FS!Narrow, Root

\* Every step is one of the single file system, or a stutter.
LEMMA FSStep ==
  ASSUME FilesInv, [Next]_vars
  PROVE  [FS!Next]_FS!vars
<1> DEFINE root == RootOf(layers)
           bare == layers = <<>>
           names == IF layers = <<>> THEN path ELSE NamesOf(path)
<1>1. ASSUME UNCHANGED filesVars PROVE [FS!Next]_FS!vars
  BY <1>1 DEF FS!vars, filesVars, fs, call
<1>2. ASSUME NEW c, NEW p, Ask(c, p) PROVE [FS!Next]_FS!vars
  <2>1. FS!Ask
    BY FSAnswers, <1>2 DEF Ask, fs, FS!Ask
  <2> QED BY <2>1 DEF FS!Next
<1>3. CASE Forward
  BY <1>3 DEF Forward, fs, FS!vars
<1>4. CASE Answer
  <2>1. arg = Below(path)
    BY <1>4, ArgIsBelow DEF Answer, FilesInv, Passing
  <2>2. arg = RootOf(layers) \o names
    BY <2>1 DEF Below
  <2>3. FS!Answer
    BY FSAnswers, <1>4, <2>2 DEF Answer, fs, FS!Answer
  <2> QED BY <2>3 DEF FS!Next
<1>5. CASE FileMetadata
  <2>1. FS!Other
    BY FSAnswers, <1>5 DEF FileMetadata, Returns, fs, FS!Other
  <2> QED BY <2>1 DEF FS!Next
<1>6. CASE is_live
  <2>1. op'.call = "is_live" /\ at = "idle" /\ at' = at /\ disk' = disk /\ file' = file
        /\ layers' = layers /\ base' = base
    BY <1>6 DEF is_live, Returns, fs
  <2>2. reply' \in {Ok(bare), Ok(FALSE)}
    <3>1. reply' = Ok(layers = <<>> /\ base = "os")
      BY <1>6 DEF is_live, Returns
    <3>2. CASE base = "os"
      <4>1. (layers = <<>> /\ base = "os") = bare
        BY <3>2
      <4> HIDE DEF bare
      <4> QED BY <3>1, <4>1
    <3>3. CASE base # "os"
      <4>1. (layers = <<>> /\ base = "os") = FALSE
        BY <3>3
      <4> QED BY <3>1, <4>1
    <3> QED BY <3>2, <3>3
  <2>3. FS!Other
    BY FSAnswers, <2>1, <2>2 DEF FS!Other
  <2> QED BY <2>3 DEF FS!Next
<1>7. CASE from_fs
  <2>1. PICK r : Returns("from_fs", Root, r)
    BY <1>7 DEF from_fs
  <2>2. /\ op'.call = "from_fs" /\ at = "idle" /\ at' = at /\ disk' = disk /\ file' = file
        /\ base' = base
    BY <1>7, <2>1 DEF from_fs, Returns
  <2>3. CASE layers # <<>>
    <3>1. layers' = <<Root>> \o layers /\ reply' = Ok("fs")
      BY <1>7, <2>3 DEF from_fs, Returns
    <3>2. FS!Narrow
      BY <2>2, <3>1, NarrowStep
    <3> QED BY <3>2 DEF FS!Next
  <2>4. CASE layers = <<>>
    <3>1. layers' = layers /\ reply' = Err
      BY <1>7, <2>4 DEF from_fs, Returns
    <3>2. FS!Other
      BY FSAnswers, <2>2, <3>1 DEF FS!Other
    <3> QED BY <3>2 DEF FS!Next
  <2> QED BY <2>3, <2>4
<1>8. CASE from_file
  <2>1. FS!Other
    BY FSAnswers, <1>8 DEF from_file, Returns, fs, FS!Other
  <2> QED BY <2>1 DEF FS!Next
<1>9. CASE duplicate
  <2>1. layers' = layers
    BY <1>9 DEF duplicate, FilesInv, FilesTyped
  <2>2. FS!Other
    BY FSAnswers, <1>9, <2>1 DEF duplicate, Returns, FS!Other
  <2> QED BY <2>2 DEF FS!Next
<1>10. ASSUME NEW p \in Asked, exists(p) PROVE [FS!Next]_FS!vars
  <2>1. op'.call = "exists" /\ at = "idle" /\ at' = at /\ disk' = disk /\ file' = file
        /\ layers' = layers /\ base' = base
    BY <1>10 DEF exists, Returns, fs
  <2>2. reply' \in {Ok(TRUE), Ok(FALSE)}
    <3>1. \A d, q : Exists(d, q) \in {TRUE, FALSE}
      <4> TAKE d, q
      <4>1. CASE There(d, q) \in DOMAIN d
        <5>1. (There(d, q) \in DOMAIN d) = TRUE
          BY <4>1
        <5> QED BY <5>1 DEF Exists
      <4>2. CASE There(d, q) \notin DOMAIN d
        <5>1. (There(d, q) \in DOMAIN d) = FALSE
          BY <4>2
        <5> QED BY <5>1 DEF Exists
      <4> QED BY <4>1, <4>2
    <3>2. PICK d, q : reply' = Ok(Exists(d, q))
      BY <1>10 DEF exists, Returns
    <3> QED BY <3>1, <3>2
  <2>3. FS!Other
    BY FSAnswers, <2>1, <2>2 DEF FS!Other
  <2> QED BY <2>3 DEF FS!Next
<1>11. ASSUME NEW p \in Mounts, New(p) PROVE [FS!Next]_FS!vars
  <2>1. /\ at = "idle" /\ at' = "idle" /\ op'.call = "new" /\ reply' = Ok("fs")
        /\ layers' = <<p>> \o layers /\ base' = base /\ disk' = disk /\ file' = file
    BY <1>11 DEF New, Returns
  <2>2. FS!Narrow
    BY <2>1, NarrowStep
  <2> QED BY <2>2 DEF FS!Next
<1>12. CASE Change
  <2>1. FS!Change
    BY <1>12 DEF Change, fs, call, FS!Change
  <2> QED BY <2>1 DEF FS!Next
<1>13. CASE FilesNext
  BY <1>2, <1>3, <1>4, <1>5, <1>6, <1>7, <1>8, <1>9, <1>10, <1>11, <1>12, <1>13 DEF FilesNext
<1>14. CASE Find
  BY <1>2, <1>14 DEF Find
<1>15. CASE Drop
  <2>1. FS!Forget
    BY FSAnswers, <1>15 DEF Drop, fs, FS!Forget
  <2> QED BY <2>1 DEF FS!Next
<1> QED BY <1>1, <1>13, <1>14, <1>15 DEF Next, vars

(* Whatever is put on top of whatever, each file system is a directory of  *)
(* one disk, and answers what is true of it at one moment of the call: the *)
(* layers (chroot.rs) implement the trait as OneFileSystem has it.         *)
THEOREM StackImplements == Spec => Implements
<1>1. Init => FS!Init
  BY FSAnswers DEF Init, FilesInit, RootOf, Root, FS!Init
<1>2. FilesInv /\ [Next]_vars => FilesInv'
  BY FilesInvStep
<1>3. FilesInv /\ [Next]_vars => [FS!Next]_FS!vars
  BY FSStep
<1> QED BY <1>1, <1>2, <1>3, FilesInvInit, PTL DEF Spec, Implements, FS!Spec
-----------------------------------------------------------------------------
\* Where a path leads whose first link, if it has one on its way, is known.
LEMMA ThereWithLink ==
  ASSUME NEW d, NEW p \in AnyPath, NEW n \in 0 .. Len(p), IsLink(d, SubSeq(p, 1, n)),
         \A m \in 0 .. Len(p) : IsLink(d, SubSeq(p, 1, m)) => n <= m
  PROVE  There(d, p) = d[SubSeq(p, 1, n)].to \o SubSeq(p, n + 1, Len(p))
<1> DEFINE links == {m \in 0 .. Len(p) : IsLink(d, SubSeq(p, 1, m))}
           first == CHOOSE k \in links : \A m \in links : k <= m
<1>1. n \in links /\ \A m \in links : n <= m
  OBVIOUS
<1>2. first = n
  <2>1. first \in links /\ \A m \in links : first <= m
    BY <1>1
  <2>2. links \subseteq Int
    BY DEF AnyPath
  <2> HIDE DEF first, links
  <2> QED BY <1>1, <2>1, <2>2
<1>3. There(d, p) = IF links = {} THEN p ELSE d[SubSeq(p, 1, first)].to \o SubSeq(p, first + 1, Len(p))
  BY DEF There
<1> HIDE DEF links, first
<1> QED BY <1>1, <1>2, <1>3

\* A path with no link on its way is where it says.
LEMMA ThereWithoutLink ==
  ASSUME NEW d, NEW p, \A m \in 0 .. Len(p) : ~IsLink(d, SubSeq(p, 1, m))
  PROVE  There(d, p) = p
BY DEF There

\* The prefixes of a path with one component more.
LEMMA OneMore ==
  ASSUME NEW p \in AnyPath, NEW c \in Seq(Piece)
  PROVE  /\ Append(p, c) \in AnyPath /\ Len(Append(p, c)) = Len(p) + 1 /\ Len(p) \in Nat
         /\ SubSeq(Append(p, c), 1, Len(p) + 1) = Append(p, c)
         /\ \A n \in 0 .. Len(p) : /\ SubSeq(Append(p, c), 1, n) = SubSeq(p, 1, n)
                                   /\ SubSeq(Append(p, c), n + 1, Len(p) + 1)
                                        = Append(SubSeq(p, n + 1, Len(p)), c)
                                   /\ SubSeq(p, n + 1, Len(p)) \in AnyPath
<1> DEFINE S == Seq(Piece)
<1>1. p \in Seq(S) /\ c \in S
  BY DEF AnyPath
<1> HIDE DEF S
<1>2. Append(p, c) \in Seq(S) /\ Len(Append(p, c)) = Len(p) + 1 /\ Len(p) \in Nat
  BY <1>1
<1>3. SubSeq(Append(p, c), 1, Len(p) + 1) = Append(p, c)
  BY <1>1, <1>2, SubSeqFull
<1>4. \A n \in 0 .. Len(p) : /\ SubSeq(Append(p, c), 1, n) = SubSeq(p, 1, n)
                             /\ SubSeq(p, n + 1, Len(p)) \in Seq(S)
  BY <1>1
<1>5. \A n \in 0 .. Len(p) :
        SubSeq(Append(p, c), n + 1, Len(p) + 1) = Append(SubSeq(p, n + 1, Len(p)), c)
  <2> TAKE n \in 0 .. Len(p)
  <2> DEFINE k == Len(p) - n
             a == SubSeq(Append(p, c), n + 1, Len(p) + 1)
             b == SubSeq(p, n + 1, Len(p))
  <2>1. a \in Seq(S) /\ Len(a) = k + 1 /\ \A i \in 1 .. k + 1 : a[i] = Append(p, c)[n + i]
    BY <1>1, <1>2
  <2>2. b \in Seq(S) /\ Len(b) = k /\ k \in Nat /\ \A i \in 1 .. k : b[i] = p[n + i]
    BY <1>1
  <2>3. /\ Append(b, c) \in Seq(S) /\ Len(Append(b, c)) = k + 1
        /\ \A i \in 1 .. k : Append(b, c)[i] = b[i]
        /\ Append(b, c)[k + 1] = c
    <3> HIDE DEF b, k
    <3> QED BY <1>1, <2>2, AppendProperties
  <2>4. \A i \in 1 .. Len(p) : Append(p, c)[i] = p[i]
    BY <1>1, AppendProperties
  <2>5. Append(p, c)[Len(p) + 1] = c
    BY <1>1, AppendProperties
  <2>6. \A i \in 1 .. k + 1 : a[i] = Append(b, c)[i]
    <3> TAKE i \in 1 .. k + 1
    <3>1. CASE i = k + 1
      <4>1. n + i = Len(p) + 1
        BY <3>1
      <4>2. a[i] = Append(p, c)[n + i]
        BY <2>1
      <4> HIDE DEF a, b, k
      <4> QED BY <2>3, <2>5, <3>1, <4>1, <4>2
    <3>2. CASE i # k + 1
      <4>1. n + i \in 1 .. Len(p) /\ i \in 1 .. k
        BY <3>2
      <4>2. a[i] = Append(p, c)[n + i]
        BY <2>1
      <4> HIDE DEF a, b, k
      <4> QED BY <2>2, <2>3, <2>4, <4>1, <4>2
    <3> QED BY <3>1, <3>2
  <2> HIDE DEF a, k
  <2>7. a = Append(b, c)
    <3> HIDE DEF b
    <3> QED BY <2>1, <2>2, <2>3, <2>6, SeqEqual
  <2> QED BY <2>7 DEF a
<1> QED BY <1>2, <1>3, <1>4, <1>5 DEF AnyPath, S

\* What stands below the directory that a path leads to is where the path and
\* its name lead to, or is a link itself.
LEMMA EntryIsThere ==
  ASSUME NEW d, IsDisk(d), NEW p \in AnyPath, NEW q \in DOMAIN d, q # <<>>, Front(q) = There(d, p),
         There(d, p) \in AnyPath
  PROVE  LET r == Append(p, Last(q))
         IN  IF d[q].is = "link" THEN Exists(d, r) => Node(d, r).is # "link" ELSE IsA(d[q].is, d, r)
<1> DEFINE e == Last(q)
           r == Append(p, e)
<1>1. q \in AnyPath /\ e \in Seq(Piece) /\ q = Append(Front(q), e)
  <2> DEFINE S == Seq(Piece)
  <2>1. \A s \in Seq(STRING) : s \in S
    BY SeqMonotonic DEF Piece
  <2>2. q \in Seq(S)
    BY <2>1, SeqMonotonic DEF IsDisk
  <2> HIDE DEF S
  <2>3. q[Len(q)] \in S /\ q = Append(SubSeq(q, 1, Len(q) - 1), q[Len(q)])
    BY <2>2
  <2> QED BY <2>2, <2>3 DEF AnyPath, S, Front, Last
<1>2. q = Append(There(d, p), e)
  BY <1>1
<1>0. /\ r \in AnyPath /\ Len(r) = Len(p) + 1 /\ Len(p) \in Nat /\ SubSeq(r, 1, Len(r)) = r /\ r = Append(p, e)
      /\ \A n \in 0 .. Len(p) : /\ SubSeq(r, 1, n) = SubSeq(p, 1, n)
                                /\ SubSeq(r, n + 1, Len(r)) = Append(SubSeq(p, n + 1, Len(p)), e)
                                /\ SubSeq(p, n + 1, Len(p)) \in AnyPath
  <2> HIDE DEF e
  <2>1. /\ r \in AnyPath /\ Len(r) = Len(p) + 1 /\ Len(p) \in Nat
        /\ SubSeq(r, 1, Len(p) + 1) = r
    BY <1>1, OneMore
  <2>2. \A n \in 0 .. Len(p) : /\ SubSeq(r, 1, n) = SubSeq(p, 1, n)
                               /\ SubSeq(r, n + 1, Len(p) + 1) = Append(SubSeq(p, n + 1, Len(p)), e)
                               /\ SubSeq(p, n + 1, Len(p)) \in AnyPath
    BY <1>1, OneMore
  <2>3. r = Append(p, e)
    OBVIOUS
  <2> HIDE DEF r
  <2> QED BY <2>1, <2>2, <2>3
<1> HIDE DEF e, r
<1>3. CASE \A m \in 0 .. Len(p) : ~IsLink(d, SubSeq(p, 1, m))
  <2>1. r = q
    BY <1>0, <1>2, <1>3, ThereWithoutLink
  <2>2. CASE ~IsLink(d, r)
    <3>1. \A m \in 0 .. Len(r) : ~IsLink(d, SubSeq(r, 1, m))
      <4> SUFFICES ASSUME NEW m \in 0 .. Len(r) PROVE ~IsLink(d, SubSeq(r, 1, m))
        OBVIOUS
      <4>1. CASE m = Len(p) + 1
        BY <1>0, <2>2, <4>1
      <4>2. CASE m # Len(p) + 1
        <5>1. m \in 0 .. Len(p)
          BY <1>0, <4>2
        <5> QED BY <1>0, <1>3, <5>1
      <4> QED BY <4>1, <4>2
    <3>2. There(d, r) = q
      BY <2>1, <3>1, ThereWithoutLink
    <3>3. d[q].is # "link"
      BY <2>1, <2>2 DEF IsLink
    <3> QED BY <3>2, <3>3 DEF IsA, Exists, Node, e, r
  <2>3. CASE IsLink(d, r)
    <3> DEFINE n == Len(p) + 1
               to == d[q].to
    <3>1. n = Len(r) /\ n \in 0 .. Len(r) /\ SubSeq(r, 1, n) = q
      BY <1>0, <2>1
    <3>2. \A m \in 0 .. Len(r) : IsLink(d, SubSeq(r, 1, m)) => n <= m
      <4> SUFFICES ASSUME NEW m \in 0 .. Len(r), m < n PROVE ~IsLink(d, SubSeq(r, 1, m))
        BY <3>1
      <4>1. m \in 0 .. Len(p)
        BY <1>0, <3>1
      <4> QED BY <1>0, <1>3, <4>1
    <3> HIDE DEF n
    <3>3. There(d, r) = d[SubSeq(r, 1, n)].to \o SubSeq(r, n + 1, Len(r))
      BY <1>0, <2>1, <2>3, <3>1, <3>2, ThereWithLink
    <3>4. SubSeq(r, n + 1, Len(r)) = <<>>
      BY <3>1, SubSeqEmpty
    <3>5. to \in Seq(Seq(STRING)) /\ ~IsLink(d, SubSeq(to, 1, Len(to)))
      BY <2>1, <2>3 DEF IsDisk, IsLink
    <3>6. to \o <<>> = to /\ SubSeq(to, 1, Len(to)) = to
      BY <3>5
    <3>7. There(d, r) = to
      BY <3>1, <3>3, <3>4, <3>6
    <3>8. Exists(d, r) => Node(d, r).is # "link"
      BY <3>5, <3>6, <3>7 DEF Exists, Node, IsLink
    <3>9. d[q].is = "link"
      BY <2>1, <2>3 DEF IsLink
    <3> QED BY <3>8, <3>9 DEF e, r
  <2> QED BY <2>2, <2>3
<1>4. CASE \E m \in 0 .. Len(p) : IsLink(d, SubSeq(p, 1, m))
  <2> DEFINE links == {m \in 0 .. Len(p) : IsLink(d, SubSeq(p, 1, m))}
  <2>1. PICK n \in links : \A m \in links : n <= m
    <3>1. links \subseteq Nat /\ links # {}
      BY <1>0, <1>4
    <3> HIDE DEF links
    <3> QED BY <3>1, Least
  <2>2. n \in 0 .. Len(p) /\ IsLink(d, SubSeq(p, 1, n))
        /\ \A m \in 0 .. Len(p) : IsLink(d, SubSeq(p, 1, m)) => n <= m
    BY <2>1
  <2> DEFINE to == d[SubSeq(p, 1, n)].to
             rest == SubSeq(p, n + 1, Len(p))
  <2>3. There(d, p) = to \o rest
    BY <2>2, ThereWithLink
  <2>4. /\ r \in AnyPath /\ n \in 0 .. Len(r) /\ SubSeq(r, 1, n) = SubSeq(p, 1, n)
        /\ SubSeq(r, n + 1, Len(r)) = Append(rest, e) /\ rest \in AnyPath
    <3>1. n \in 0 .. Len(p)
      BY <2>2
    <3>2. n \in 0 .. Len(r)
      BY <1>0, <3>1
    <3> QED BY <1>0, <3>1, <3>2
  <2>5. \A m \in 0 .. Len(r) : IsLink(d, SubSeq(r, 1, m)) => n <= m
    <3> SUFFICES ASSUME NEW m \in 0 .. Len(r), IsLink(d, SubSeq(r, 1, m)), m < n PROVE FALSE
      BY <2>2
    <3>1. m \in 0 .. Len(p) /\ m \in Int /\ n \in Int
      BY <1>0, <2>2
    <3>2. IsLink(d, SubSeq(p, 1, m))
      BY <1>0, <3>1
    <3> QED BY <2>2, <3>1, <3>2
  <2>6. There(d, r) = to \o Append(rest, e)
    <3>1. IsLink(d, SubSeq(r, 1, n))
      BY <2>2, <2>4
    <3>2. There(d, r) = d[SubSeq(r, 1, n)].to \o SubSeq(r, n + 1, Len(r))
      BY <2>4, <2>5, <3>1, ThereWithLink
    <3> QED BY <2>4, <3>2
  <2>7. to \in Seq(Seq(STRING))
        /\ \A x \in DOMAIN d : Len(x) >= Len(to) /\ SubSeq(x, 1, Len(to)) = to => ~IsLink(d, x)
    BY <2>2 DEF IsDisk, IsLink
  <2>8. to \in AnyPath
    BY <2>7, PathOfStrings
  <2>9. to \o Append(rest, e) = Append(to \o rest, e) /\ Len(Append(to \o rest, e)) >= Len(to)
        /\ SubSeq(Append(to \o rest, e), 1, Len(to)) = to
    <3> DEFINE S == Seq(Piece)
    <3>1. to \in Seq(S) /\ rest \in Seq(S) /\ e \in S
      BY <1>1, <2>4, <2>8 DEF AnyPath
    <3> HIDE DEF to, rest, S
    <3> QED BY <3>1, SMTT(60)
  <2>10. There(d, r) = q /\ ~IsLink(d, q)
    BY <1>2, <2>3, <2>6, <2>7, <2>9
  <2>11. d[q].is # "link"
    BY <2>10 DEF IsLink
  <2> QED BY <2>10, <2>11 DEF IsA, Exists, Node, e, r
<1> QED BY <1>3, <1>4

\* A name that normalize_prefix leaves as it is, below a path, through all the layers.
LEMMA BelowOneMore ==
  ASSUME FilesTyped, NEW e \in Seq(Piece), layers = <<>> \/ NamesOf(<<e>>) = <<e>>
  PROVE  Below(Append(path, e)) = Append(Below(path), e)
<1>1. /\ path \in AnyPath /\ Append(path, e) \in AnyPath
      /\ Clean(Append(path, e)) = Clean(path) \o NamesIn[e] /\ layers \in Seq(AnyPath)
  BY CleanAppend DEF FilesTyped
<1>2. CASE layers = <<>>
  BY <1>1, <1>2, PathAppended DEF Below, RootOf, Root
<1>3. CASE layers # <<>>
  <2>1. NamesIn[e] = <<e>>
    <3>1. <<e>> = Append(<<>>, e) /\ <<>> \in AnyPath /\ <<>> \in Seq(Cleaned)
      BY SingleSeq DEF AnyPath
    <3>2. Clean(<<e>>) = Clean(<<>>) \o NamesIn[e]
      BY <3>1, CleanAppend
    <3>3. Clean(<<>>) = <<>>
      BY <3>1, CleanOfClean
    <3>4. NamesIn[e] \in AnyPath
      BY NamesInType, CleanedIsPath DEF Maps
    <3>5. <<>> \o NamesIn[e] = NamesIn[e]
      BY <3>4, PathAppended
    <3>6. <<e>> \in AnyPath
      BY SingleSeq DEF AnyPath
    <3> QED BY <1>3, <3>2, <3>3, <3>5, <3>6, NamesAreClean
  <2> DEFINE r == RootOf(layers)
             c == Clean(path)
  <2>2. r \in AnyPath /\ c \in AnyPath
    BY <1>1, <1>3, RootType, CleanType
  <2>3. Below(path) = r \o c
    BY <1>1, <1>3, NamesAreClean DEF Below
  <2>4. Below(Append(path, e)) = r \o (c \o <<e>>)
    BY <1>1, <1>3, <2>1, NamesAreClean DEF Below
  <2>5. r \o (c \o <<e>>) = Append(r \o c, e)
    <3> DEFINE S == Seq(Piece)
    <3>1. r \in Seq(S) /\ c \in Seq(S) /\ e \in S
      BY <2>2 DEF AnyPath
    <3> HIDE DEF r, c, S
    <3> QED BY <3>1
  <2> QED BY <2>3, <2>4, <2>5
<1> QED BY <1>2, <1>3

\* What the invariant says of a listing.
LEMMA ListedFromInv == FilesInv => ListedIsThere
<1> SUFFICES ASSUME FilesInv, op.call = "read_dir", at = "idle", reply # Err, rested,
                    NEW entry \in reply.val,
                    layers = <<>> \/ NamesOf(<<entry[2]>>) = <<entry[2]>>
             PROVE  LET p == Below(Append(path, entry[2]))
                    IN  IF entry[1] = "link" THEN Exists(disk[base], p) => Node(disk[base], p).is # "link"
                        ELSE IsA(entry[1], disk[base], p)
  BY DEF ListedIsThere
<1> DEFINE d == disk[base]
           p == Below(path)
<1>1. IsDisk(d) /\ FilesTyped
  BY FilesAssumption DEF FilesInv, FilesTyped
<1>2. p \in AnyPath
  BY <1>1, ArgIsBelow
<1>3. reply = read_dir(d, p)
  <2>1. reply = Reply(op, d, p)
    BY DEF FilesInv, Answered, AskCalls
  <2> HIDE DEF d, p
  <2> QED BY <2>1 DEF Reply
<1> HIDE DEF d, p
<1>4. /\ IsA("dir", d, p)
      /\ reply = Ok({<<d[q].is, Last(q)>> : q \in {q \in DOMAIN d \ {<<>>} : Front(q) = There(d, p)}})
  BY <1>3 DEF read_dir
<1>5. PICK q \in DOMAIN d : q # <<>> /\ Front(q) = There(d, p) /\ entry = <<d[q].is, Last(q)>>
  BY <1>4 DEF Ok
<1>6. There(d, p) \in AnyPath /\ q \in AnyPath
  BY <1>1, <1>4, PathOfStrings DEF IsA, Exists, IsDisk
<1>7. Last(q) \in Seq(Piece)
  <2> DEFINE S == Seq(Piece)
  <2>1. q \in Seq(S)
    BY <1>6 DEF AnyPath
  <2> HIDE DEF S
  <2>2. q[Len(q)] \in S
    BY <1>5, <2>1
  <2> QED BY <2>2 DEF Last, S
<1>8. IF d[q].is = "link" THEN Exists(d, Append(p, Last(q))) => Node(d, Append(p, Last(q))).is # "link"
      ELSE IsA(d[q].is, d, Append(p, Last(q)))
  BY <1>1, <1>2, <1>5, <1>6, EntryIsThere
<1>9. entry[1] = d[q].is /\ entry[2] = Last(q)
  BY <1>5
<1>10. Below(Append(path, Last(q))) = Append(p, Last(q))
  BY <1>1, <1>7, <1>9, BelowOneMore DEF p
<1> QED BY <1>8, <1>9, <1>10 DEF d

(* Whatever a directory lists (stdfs.rs and chroot.rs read_dir) can be     *)
(* asked for by its name through all the layers, and is what it was listed *)
(* as; a link is not, and leads to no link.                                *)
THEOREM ListedIsAlwaysThere == Spec => []ListedIsThere
<1>1. FilesInv /\ [Next]_vars => FilesInv'
  BY FilesInvStep
<1> QED BY <1>1, ListedFromInv, FilesInvInit, PTL DEF Spec
-----------------------------------------------------------------------------
\* A file that was looked for is asked for by what its path stands for.
Meant == Valued /\ "meant" \in DOMAIN op =>
           op.call = "read_all" /\ path = <<Rewritten(op.meant, variables)>>
FoundInv == FilesInv /\ ToldInv /\ Meant

\* Interpolation reads variables and sets none.
LEMMA VariablesStay == ASSUME [InterNext]_interVars PROVE variables' = variables
BY DEF InterNext, InterCall, InterStep, Interpolate, NoCsidl, Csidl, Enter, Answers, Descend,
       Overflow, Fail, Bottom, Ascend, Return, interVars

\* No other call of a file system looks for the file of a user.
LEMMA NotMeant ==
  ASSUME FilesNext
  PROVE  "meant" \notin DOMAIN op' \/ (op' = op /\ path' = path)
<1>1. ASSUME NEW c, NEW p, NEW r, Returns(c, p, r) PROVE "meant" \notin DOMAIN op'
  BY <1>1 DEF Returns
<1>2. ASSUME NEW c \in Calls, NEW p \in Asked, Ask(c, p) PROVE "meant" \notin DOMAIN op'
  BY <1>2, FilesAssumption DEF Ask
<1>3. CASE Forward \/ Answer \/ Change
  BY <1>3 DEF Forward, Answer, Change, call
<1>4. CASE FileMetadata \/ is_live \/ from_fs \/ from_file \/ duplicate
  BY <1>1, <1>4 DEF FileMetadata, is_live, from_fs, from_file, duplicate
<1>5. ASSUME NEW p \in Asked, exists(p) PROVE "meant" \notin DOMAIN op'
  BY <1>1, <1>5 DEF exists
<1>6. ASSUME NEW p \in Mounts, New(p) PROVE "meant" \notin DOMAIN op'
  BY <1>1, <1>6 DEF New
<1> QED BY <1>2, <1>3, <1>4, <1>5, <1>6 DEF FilesNext

\* The invariant is inductive, interpolation and the walk down the stack together.
LEMMA FoundStep ==
  ASSUME FoundInv, [Next]_vars
  PROVE  FoundInv'
<1>0. FilesInv' /\ InterTyped' /\ ToldInv /\ Meant
  BY FilesInvStep DEF FoundInv, FilesInv
<1>1. CASE (InterCall \/ InterStep) /\ UNCHANGED filesVars
  <2>1. [InterNext]_interVars
    BY <1>1 DEF InterNext
  <2>2. ToldInv' /\ variables' = variables
    BY <1>0, <2>1, ToldStep, VariablesStay
  <2>3. op' = op /\ path' = path
    BY <1>1 DEF filesVars, call
  <2> QED BY <1>0, <2>2, <2>3 DEF FoundInv, Meant, Valued
<1>2. ASSUME UNCHANGED interVars PROVE ToldInv' /\ variables' = variables
  BY <1>0, <1>2, ToldStep, VariablesStay
<1>3. CASE FilesNext /\ UNCHANGED interVars
  <2>1. ToldInv' /\ variables' = variables
    BY <1>2, <1>3
  <2>2. "meant" \notin DOMAIN op' \/ (op' = op /\ path' = path)
    BY <1>3, NotMeant
  <2> QED BY <1>0, <2>1, <2>2 DEF FoundInv, Meant, Valued
<1>4. CASE Find
  <2>1. ToldInv' /\ variables' = variables
    BY <1>2, <1>4 DEF Find
  <2>2. op' = [call |-> "read_all", meant |-> asked] /\ path' = <<ret>>
    BY <1>4 DEF Find, Ask
  <2>3. op'.call = "read_all" /\ op'.meant = asked
    BY <2>2
  <2>4. Valued => ret = Rewritten(asked, variables)
    <3>1. Valued => ret = <<>> \o Rewritten(asked, variables)
      BY <1>0, <1>4 DEF Find, ToldInv, Told
    <3>2. Rewritten(asked, variables) \in Seq(Part)
      BY <1>0, RewrittenTyped DEF ToldInv
    <3>3. <<>> \o Rewritten(asked, variables) = Rewritten(asked, variables)
      BY <3>2, ConcatEmptySeq
    <3> QED BY <3>1, <3>3
  <2> QED BY <1>0, <2>1, <2>2, <2>3, <2>4 DEF FoundInv, Meant, Valued
<1>5. CASE Drop
  <2>1. /\ asked' = <<>> /\ ret' = <<>> /\ had' = <<>> /\ answer' = "None"
        /\ doing = "idle" /\ doing' = "idle" /\ variables' = variables /\ op' = [call |-> "none"]
    BY <1>5 DEF Drop
  <2>2. HadInv' /\ Told'
    BY <2>1 DEF HadInv, NothingOnNone, Told
  <2>3. StackInv'
    BY <1>0, <2>1 DEF ToldInv, StackInv, StackSuffices
  <2>4. "meant" \notin DOMAIN op'
    BY <2>1
  <2> QED BY <1>0, <2>1, <2>2, <2>3, <2>4 DEF FoundInv, Meant, ToldInv
<1>6. CASE UNCHANGED vars
  <2>1. ToldInv' /\ variables' = variables
    BY <1>2, <1>6 DEF vars
  <2>2. op' = op /\ path' = path
    BY <1>6 DEF vars, filesVars, call
  <2> QED BY <1>0, <2>1, <2>2 DEF FoundInv, Meant, Valued
<1> QED BY <1>1, <1>3, <1>4, <1>5, <1>6 DEF Next

\* Before the first question there is nothing to find.
LEMMA FoundInit == Init => FoundInv
<1> SUFFICES ASSUME Init PROVE FoundInv
  OBVIOUS
<1>1. FilesInv /\ ToldInv
  BY FilesInvInit, ToldInit DEF Init
<1>2. op = [call |-> "none"]
  BY DEF Init, FilesInit
<1>3. "meant" \notin DOMAIN op
  BY <1>2
<1> QED BY <1>1, <1>3 DEF FoundInv, Meant

\* Where the invariant puts the question the disk is asked.
LEMMA FoundFromInv == FoundInv => FoundWhereMeant
<1> SUFFICES ASSUME FoundInv, Valued PROVE FoundWhereMeant
  BY DEF FoundWhereMeant, Valued
<1>1. doing = "idle" /\ answer = "Some" => ret = had \o Rewritten(asked, variables)
  BY DEF FoundInv, ToldInv, Told
<1>2. ASSUME "meant" \in DOMAIN op, at = "idle", rested, layers # <<>>
      PROVE  reply = read_all(disk[base], RootOf(layers) \o NamesOf(<<Rewritten(op.meant, variables)>>))
  <2>1. op.call = "read_all" /\ path = <<Rewritten(op.meant, variables)>>
    BY <1>2 DEF FoundInv, Meant
  <2>2. reply = Reply(op, disk[base], Below(path))
    BY <1>2, <2>1 DEF FoundInv, FilesInv, Answered, AskCalls
  <2>3. reply = read_all(disk[base], Below(path))
    BY <2>1, <2>2 DEF Reply
  <2>4. Below(path) = RootOf(layers) \o NamesOf(path)
    BY <1>2 DEF Below
  <2> QED BY <2>1, <2>3, <2>4
<1> QED BY <1>1, <1>2 DEF FoundWhereMeant

(* The file of a user is read where the variables of the user say it is,   *)
(* from the directory that the machine is shown below (mod.rs and          *)
(* chroot.rs), of any variables that have values, any path, any stack and  *)
(* any disk.                                                               *)
THEOREM AlwaysFoundWhereMeant == Spec => []FoundWhereMeant
<1>1. FoundInv /\ [Next]_vars => FoundInv'
  BY FoundStep
<1> QED BY <1>1, FoundFromInv, FoundInit, PTL DEF Spec

(* Among the calls of file systems, too, interpolation only overflows a    *)
(* stack of more frames than variables if the variables name each other,   *)
(* and such a path is not answered (core/mod.rs:12).                       *)
THEOREM StackEverSuffices == Spec => []StackSuffices
<1>1. FoundInv /\ [Next]_vars => FoundInv'
  BY FoundStep
<1>2. FoundInv => StackSuffices
  BY DEF FoundInv, ToldInv, StackInv
<1> QED BY <1>1, <1>2, FoundInit, PTL DEF Spec

(* A path that is not answered leaves what its caller had (core/mod.rs:10).*)
THEOREM NothingEverLost == Spec => []NothingOnNone
<1>1. FoundInv /\ [Next]_vars => FoundInv'
  BY FoundStep
<1>2. FoundInv => NothingOnNone
  BY DEF FoundInv, ToldInv, HadInv
<1> QED BY <1>1, <1>2, FoundInit, PTL DEF Spec
=============================================================================
