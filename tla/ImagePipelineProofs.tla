------------------------- MODULE ImagePipelineProofs -------------------------
(***************************************************************************)
(* Theorems about the resize policies and about what happens to a picture  *)
(* in memory, for every limit, every policy and every size of a picture.   *)
(*                                                                         *)
(* The policies are integer arithmetic; the first half of the module       *)
(* proves what the dimensions apply_resize returns have to do with those   *)
(* it is given.  The second half carries this through the steps.           *)
(***************************************************************************)
EXTENDS ImagePipeline, InductionLemmas

\* What a run writes is no candidate of a later run with the same formats: the
\* listing of `main` never takes an output for a source (BatchConvert keeps
\* the two apart).
THEOREM OutputsAreNoSources ==
    \A c \in CodecImpl : OutputExtension(c) \notin AcceptedExtensions(c)
<1> SUFFICES ASSUME NEW c \in CodecImpl
             PROVE  OutputExtension(c) \notin AcceptedExtensions(c)
  OBVIOUS
<1>1. c[1] \in Format /\ c[2] \in Format \ {"heic"} /\ c[1] # c[2]
  BY DEF CodecImpl
<1>2. CASE c[1] = "jpg"
  BY <1>1, <1>2 DEF AcceptedExtensions, OutputExtension, Format
<1>3. CASE c[1] = "heic"
  BY <1>1, <1>3 DEF AcceptedExtensions, OutputExtension, Format
<1>4. CASE c[1] \in {"png", "webp"}
  BY <1>1, <1>4 DEF AcceptedExtensions, OutputExtension, Format
<1>5. QED
  BY <1>1, <1>2, <1>3, <1>4 DEF Format

(***************************************************************************)
(* Integer division and products                                           *)
(***************************************************************************)

LEMMA ProductType == \A a, b \in Nat : a * b \in Nat
BY SMT

LEMMA ProductMonotone ==
    ASSUME NEW a \in Nat, NEW b \in Nat, NEW c \in Nat, a <= b
    PROVE  a * c <= b * c
BY SMT

LEMMA ProductPositive ==
    ASSUME NEW a \in Nat \ {0}, NEW b \in Nat \ {0}
    PROVE  a * b \in Nat \ {0}
BY SMT

\* The quotient is the largest number whose product fits.
LEMMA DivBound ==
    ASSUME NEW a \in Nat, NEW b \in Nat, NEW d \in Nat \ {0}, a < (b + 1) * d
    PROVE  a \div d <= b
<1> DEFINE q == a \div d
<1>1. q \in Nat /\ d * q <= a
  BY DivMod
<1> HIDE DEF q
<1>2. ASSUME q >= b + 1 PROVE FALSE
  <2>1. (b + 1) * d <= q * d
    BY <1>1, <1>2, ProductMonotone
  <2>2. q * d = d * q /\ (b + 1) * d \in Nat /\ d * q \in Nat
    BY <1>1, ProductType
  <2> QED
    BY <1>1, <2>1, <2>2
<1>3. q <= b
  BY <1>1, <1>2
<1> QED
  BY <1>3 DEF q

LEMMA DivExact ==
    ASSUME NEW b \in Nat, NEW d \in Nat \ {0}
    PROVE  (b * d) \div d = b
<1> DEFINE q == (b * d) \div d
<1>1. b * d \in Nat
  BY ProductType
<1>2. q \in Nat /\ (b * d) % d \in Nat /\ (b * d) % d < d /\ b * d = d * q + ((b * d) % d)
  BY <1>1, DivMod
<1>3. q <= b
  <2>1. b * d < (b + 1) * d
    BY <1>1
  <2> QED
    BY <1>1, <2>1, DivBound
<1> HIDE DEF q
<1>4. ASSUME q < b PROVE FALSE
  <2>1. (q + 1) * d <= b * d
    BY <1>2, <1>4, ProductMonotone
  <2>2. (q + 1) * d = d * q + d
    BY <1>2
  <2>3. d * q \in Nat
    BY <1>2, ProductType
  <2> QED
    BY <1>1, <1>2, <2>1, <2>2, <2>3
<1>5. q = b
  BY <1>2, <1>3, <1>4
<1> QED
  BY <1>5 DEF q

(***************************************************************************)
(* Rounded, and the picture of the same shape in a box                     *)
(***************************************************************************)

LEMMA RoundedCases ==
    ASSUME NEW x \in Nat, NEW num \in Nat, NEW den \in Nat \ {0},
           NEW k \in Rounded(x, num, den)
    PROVE  \E up, rest \in Nat :
              /\ 2 * (x * num) + den = (2 * den) * up + rest /\ rest < 2 * den
              /\ up = (2 * x * num + den) \div (2 * den)
              /\ \/ k = IF up < 1 THEN 1 ELSE up
                 \/ rest = 0 /\ k = IF up - 1 < 1 THEN 1 ELSE up - 1
<1> DEFINE a == 2 * x * num + den
           d == 2 * den
           up == a \div d
           rest == a % d
<1>1. a \in Nat /\ a = 2 * (x * num) + den
  <2>1. x * num \in Nat
    BY ProductType
  <2> QED
    BY <2>1
<1>2. d \in Nat \ {0}
  OBVIOUS
<1>3. k \in {IF j < 1 THEN 1 ELSE j : j \in IF rest = 0 THEN {up - 1, up} ELSE {up}}
  BY DEF Rounded
<1> HIDE DEF a, d
<1>4. up \in Nat /\ rest \in Nat /\ a = d * up + rest /\ rest < d
  BY <1>1, <1>2, DivMod
<1>5. \/ k = IF up < 1 THEN 1 ELSE up
      \/ rest = 0 /\ k = IF up - 1 < 1 THEN 1 ELSE up - 1
  BY <1>3
<1> HIDE DEF up, rest
<1>6. /\ 2 * (x * num) + den = (2 * den) * up + rest /\ rest < 2 * den
      /\ up = (2 * x * num + den) \div (2 * den)
  BY <1>1, <1>4 DEF a, d, up
<1> QED
  BY <1>4, <1>5, <1>6

\* A side is at least a pixel long and no longer than its scale allows.
LEMMA RoundedBelow ==
    ASSUME NEW x \in Nat, NEW num \in Nat, NEW den \in Nat \ {0}, NEW b \in Nat,
           x * num <= b * den, NEW k \in Rounded(x, num, den)
    PROVE  k \in Nat /\ 1 <= k /\ (k <= b \/ k = 1)
<1>1. PICK up \in Nat, rest \in Nat :
         /\ 2 * (x * num) + den = (2 * den) * up + rest /\ rest < 2 * den
         /\ up = (2 * x * num + den) \div (2 * den)
         /\ \/ k = IF up < 1 THEN 1 ELSE up
            \/ rest = 0 /\ k = IF up - 1 < 1 THEN 1 ELSE up - 1
  BY RoundedCases
<1>2. up <= b
  <2> DEFINE a == 2 * x * num + den
             d == 2 * den
  <2>1. x * num \in Nat /\ b * den \in Nat
    BY ProductType
  <2>2. a = 2 * (x * num) + den /\ (b + 1) * d = 2 * (b * den) + 2 * den
    OBVIOUS
  <2>3. a \in Nat /\ d \in Nat \ {0} /\ a < (b + 1) * d
    BY <2>1, <2>2
  <2> HIDE DEF a, d
  <2>4. a \div d <= b
    BY <2>3, DivBound
  <2> QED
    BY <1>1, <2>4 DEF a, d
<1>3. k = up \/ k = up - 1 \/ k = 1
  BY <1>1
<1>4. k \in Nat /\ 1 <= k
  BY <1>1
<1> QED
  BY <1>2, <1>3, <1>4

\* A side that is scaled by more than half a pixel is off by half a pixel.
LEMMA RoundedNear ==
    ASSUME NEW x \in Nat, NEW num \in Nat, NEW den \in Nat \ {0},
           den < 2 * (x * num), NEW k \in Rounded(x, num, den)
    PROVE  /\ k \in Nat
           /\ 2 * (den * k) - 2 * (x * num) <= den
           /\ 2 * (x * num) - 2 * (den * k) <= den
<1>1. PICK up \in Nat, rest \in Nat :
         /\ 2 * (x * num) + den = (2 * den) * up + rest /\ rest < 2 * den
         /\ \/ k = IF up < 1 THEN 1 ELSE up
            \/ rest = 0 /\ k = IF up - 1 < 1 THEN 1 ELSE up - 1
  BY RoundedCases
<1>2. /\ (2 * den) * up = 2 * (den * up) /\ den * up \in Nat /\ x * num \in Nat
      /\ den * (up - 1) = den * up - den
  BY ProductType
<1>3. up # 0
  <2>1. up = 0 => den * up = 0
    OBVIOUS
  <2> QED
    BY <1>1, <1>2, <2>1
<1>4. ASSUME rest = 0 PROVE up # 1
  <2>1. up = 1 => den * up = den
    OBVIOUS
  <2> QED
    BY <1>1, <1>2, <1>4, <2>1
<1>5. k = up \/ (rest = 0 /\ k = up - 1)
  BY <1>1, <1>3, <1>4
<1> QED
  BY <1>1, <1>2, <1>3, <1>5

\* The exact number needs no rounding.
LEMMA RoundedExact ==
    ASSUME NEW b \in Nat \ {0}, NEW den \in Nat \ {0}, NEW k \in Rounded(den, b, den)
    PROVE  k = b
<1>1. den * b \in Nat \ {0} /\ den * b = b * den
  BY ProductPositive
<1>2. PICK up \in Nat, rest \in Nat :
         /\ 2 * (den * b) + den = (2 * den) * up + rest /\ rest < 2 * den
         /\ up = (2 * den * b + den) \div (2 * den)
         /\ \/ k = IF up < 1 THEN 1 ELSE up
            \/ rest = 0 /\ k = IF up - 1 < 1 THEN 1 ELSE up - 1
  BY RoundedCases
<1>3. up = b
  <2>1. up <= b
    <3> DEFINE a == 2 * den * b + den
               d == 2 * den
    <3>1. a \in Nat /\ d \in Nat \ {0} /\ a < (b + 1) * d
      BY <1>1
    <3> HIDE DEF a, d
    <3>2. a \div d <= b
      BY <3>1, DivBound
    <3> QED
      BY <1>2, <3>2 DEF a, d
  <2>2. ASSUME up + 1 <= b PROVE FALSE
    <3>1. (up + 1) * den <= b * den
      BY <2>2, ProductMonotone
    <3>2. (up + 1) * den = den * up + den /\ (2 * den) * up = 2 * (den * up)
      OBVIOUS
    <3>3. den * up \in Nat
      BY ProductType
    <3> QED
      BY <1>1, <1>2, <3>1, <3>2, <3>3
  <2> QED
    BY <2>1, <2>2
<1>4. (2 * den) * up = 2 * (den * b)
  BY <1>3
<1>5. rest = den
  BY <1>1, <1>2, <1>4
<1> QED
  BY <1>2, <1>3, <1>5

\* The largest picture of the same shape in a box is inside the box, unless
\* the box has an empty side.
LEMMA ResizeIntoBelow ==
    ASSUME NEW box, box[1] \in Nat, box[2] \in Nat,
           NEW w \in Nat \ {0}, NEW h \in Nat \ {0}, NEW d \in ResizeInto(box, w, h)
    PROVE  /\ d = <<d[1], d[2]>> /\ d[1] \in Nat /\ d[2] \in Nat
           /\ 1 <= d[1] /\ (d[1] <= box[1] \/ d[1] = 1)
           /\ 1 <= d[2] /\ (d[2] <= box[2] \/ d[2] = 1)
<1>1. /\ box[1] * h \in Nat /\ box[2] * w \in Nat
      /\ box[1] * w = w * box[1] /\ box[1] * h = h * box[1]
      /\ box[2] * w = w * box[2] /\ box[2] * h = h * box[2]
      /\ box[1] * w \in Nat /\ box[2] * h \in Nat
  BY ProductType
<1>2. CASE box[1] * h <= box[2] * w
  <2>1. d \in Rounded(w, box[1], w) \X Rounded(h, box[1], w)
    BY <1>2 DEF ResizeInto
  <2>2. d[1] \in Rounded(w, box[1], w) /\ d[2] \in Rounded(h, box[1], w)
        /\ d = <<d[1], d[2]>>
    BY <2>1
  <2>3. w * box[1] <= box[1] * w /\ h * box[1] <= box[2] * w
    BY <1>1, <1>2
  <2> QED
    BY <2>2, <2>3, RoundedBelow
<1>3. CASE ~(box[1] * h <= box[2] * w)
  <2>1. d \in Rounded(w, box[2], h) \X Rounded(h, box[2], h)
    BY <1>3 DEF ResizeInto
  <2>2. d[1] \in Rounded(w, box[2], h) /\ d[2] \in Rounded(h, box[2], h)
        /\ d = <<d[1], d[2]>>
    BY <2>1
  <2>3. w * box[2] <= box[1] * h /\ h * box[2] <= box[2] * h
    BY <1>1, <1>3
  <2> QED
    BY <2>2, <2>3, RoundedBelow
<1> QED
  BY <1>2, <1>3

(***************************************************************************)
(* target_dimensions                                                       *)
(***************************************************************************)

\* Every policy but cover and stretch leaves a picture alone, or caps one of
\* its sides.
LEMMA TargetCases ==
    ASSUME NEW policy_ \in Policy, ~ExactBox(policy_), NEW w \in Side, NEW h \in Side
    PROVE  LET t == TargetDimensions(policy_, w, h)
           IN \/ t = <<w, h>>
              \/ \E cap \in Side :
                    cap < w /\ t = <<cap, SaturatingMul(h, cap) \div w>>
              \/ \E cap \in Side :
                    cap < h /\ t = <<SaturatingMul(w, cap) \div h, cap>>
<1>0. w \in Nat /\ h \in Nat /\ Side \subseteq Nat
  BY U32Assumption DEF Side
<1>1. ASSUME NEW cap \in Side
      PROVE  /\ \/ CapSide(w, h, cap) = <<w, h>>
                \/ cap < w /\ CapSide(w, h, cap) = <<cap, SaturatingMul(h, cap) \div w>>
             /\ \/ Swap(CapSide(h, w, cap)) = <<w, h>>
                \/ cap < h /\ Swap(CapSide(h, w, cap)) = <<SaturatingMul(w, cap) \div h, cap>>
  BY <1>0, <1>1 DEF CapSide, Swap
<1>2. CASE policy_.shape = "none"
  BY <1>2 DEF TargetDimensions
<1>3. CASE policy_ \in [shape : {"cap"}, cap : Side]
  BY <1>1, <1>3 DEF TargetDimensions
<1>4. CASE policy_ \in [shape : {"auto"}, portrait : Side, landscape : Side]
  <2> DEFINE cap == IF h >= w THEN policy_.portrait ELSE policy_.landscape
  <2>1. cap \in Side
    BY <1>4
  <2>2. TargetDimensions(policy_, w, h) = CapSide(w, h, cap)
    BY <1>4 DEF TargetDimensions
  <2> HIDE DEF cap
  <2> QED
    BY <1>1, <2>1, <2>2
<1>5. CASE policy_ \in [shape : {"fit"}, mode : {"contain", "cover", "stretch"},
                        long_edge : Side]
  <2>1. policy_.shape = "fit" /\ policy_.mode = "contain" /\ policy_.long_edge \in Side
    BY <1>5 DEF ExactBox
  <2>2. \/ TargetDimensions(policy_, w, h) = CapSide(w, h, policy_.long_edge)
        \/ TargetDimensions(policy_, w, h) = Swap(CapSide(h, w, policy_.long_edge))
    BY <2>1 DEF TargetDimensions
  <2> QED
    BY <1>1, <2>1, <2>2
<1> QED
  BY <1>2, <1>3, <1>4, <1>5 DEF Policy

\* The side that follows the capped one: no longer than before.
LEMMA FollowerBelow ==
    ASSUME NEW side \in Side, NEW other \in Side, NEW cap \in Side, cap <= side
    PROVE  /\ SaturatingMul(other, cap) \in Nat
           /\ SaturatingMul(other, cap) \div side \in Nat
           /\ SaturatingMul(other, cap) \div side <= other
<1>1. side \in Nat \ {0} /\ other \in Nat \ {0} /\ cap \in Nat \ {0}
  BY U32Assumption DEF Side
<1>2. other * cap \in Nat /\ other * side \in Nat /\ cap * other <= side * other
      /\ (other + 1) * side = side * other + side /\ other * cap = cap * other
      /\ side * other = other * side
  BY <1>1, ProductType, ProductMonotone
<1> DEFINE m == SaturatingMul(other, cap)
<1>3. m \in Nat /\ m <= other * cap
  BY <1>2, U32Assumption DEF SaturatingMul
<1>4. m < (other + 1) * side
  BY <1>1, <1>2, <1>3
<1> HIDE DEF m
<1>5. m \div side \in Nat /\ m \div side <= other
  BY <1>1, <1>3, <1>4, DivMod, DivBound
<1> QED
  BY <1>3, <1>5 DEF m

\* The target of these policies is inside the picture.
LEMMA TargetBelow ==
    ASSUME NEW policy_ \in Policy, ~ExactBox(policy_), NEW w \in Side, NEW h \in Side
    PROVE  LET t == TargetDimensions(policy_, w, h)
           IN /\ t[1] \in Nat /\ t[1] <= w
              /\ t[2] \in Nat /\ t[2] <= h
<1>1. w \in Nat /\ h \in Nat /\ Side \subseteq Nat
  BY U32Assumption DEF Side
<1> DEFINE t == TargetDimensions(policy_, w, h)
<1>2. \/ t = <<w, h>>
      \/ \E cap \in Side : cap < w /\ t = <<cap, SaturatingMul(h, cap) \div w>>
      \/ \E cap \in Side : cap < h /\ t = <<SaturatingMul(w, cap) \div h, cap>>
  BY TargetCases
<1> HIDE DEF t
<1>3. t = <<w, h>> => t[1] \in Nat /\ t[1] <= w /\ t[2] \in Nat /\ t[2] <= h
  BY <1>1
<1>4. ASSUME NEW cap \in Side, cap < w, t = <<cap, SaturatingMul(h, cap) \div w>>
      PROVE  t[1] \in Nat /\ t[1] <= w /\ t[2] \in Nat /\ t[2] <= h
  BY <1>1, <1>4, FollowerBelow
<1>5. ASSUME NEW cap \in Side, cap < h, t = <<SaturatingMul(w, cap) \div h, cap>>
      PROVE  t[1] \in Nat /\ t[1] <= w /\ t[2] \in Nat /\ t[2] <= h
  BY <1>1, <1>5, FollowerBelow
<1>6. t[1] \in Nat /\ t[1] <= w /\ t[2] \in Nat /\ t[2] <= h
  BY <1>2, <1>3, <1>4, <1>5
<1> QED
  BY <1>6 DEF t

\* The dimensions apply_resize returns are those of a picture, and only an
\* exact box can be longer than the picture it is given.
LEMMA ResizedInside ==
    ASSUME NEW policy_ \in Policy, ~ExactBox(policy_), NEW w \in Side, NEW h \in Side,
           NEW d \in Resized(policy_, w, h)
    PROVE  d \in Side \X Side /\ d[1] <= w /\ d[2] <= h
<1> DEFINE t == TargetDimensions(policy_, w, h)
<1>1. w \in Nat \ {0} /\ h \in Nat \ {0}
  BY U32Assumption DEF Side
<1>2. t[1] \in Nat /\ t[1] <= w /\ t[2] \in Nat /\ t[2] <= h
  BY TargetBelow
<1>3. IF t = <<w, h>> THEN d = <<w, h>> ELSE d \in ResizeInto(t, w, h)
  BY DEF Resized
<1> HIDE DEF t
<1>4. t = <<w, h>> => d = <<w, h>>
  BY <1>3
<1>5. ASSUME t # <<w, h>>
      PROVE  /\ d = <<d[1], d[2]>> /\ d[1] \in Nat /\ d[2] \in Nat
             /\ 1 <= d[1] /\ d[1] <= w /\ 1 <= d[2] /\ d[2] <= h
  <2>1. d \in ResizeInto(t, w, h)
    BY <1>3, <1>5
  <2>2. /\ d = <<d[1], d[2]>> /\ d[1] \in Nat /\ d[2] \in Nat
        /\ 1 <= d[1] /\ (d[1] <= t[1] \/ d[1] = 1)
        /\ 1 <= d[2] /\ (d[2] <= t[2] \/ d[2] = 1)
    BY <1>1, <1>2, <2>1, ResizeIntoBelow
  <2> QED
    BY <1>1, <1>2, <2>2
<1>6. /\ d = <<d[1], d[2]>> /\ d[1] \in Nat /\ d[2] \in Nat
      /\ 1 <= d[1] /\ d[1] <= w /\ 1 <= d[2] /\ d[2] <= h
  <2>1. d = <<w, h>> => /\ d = <<d[1], d[2]>> /\ d[1] \in Nat /\ d[2] \in Nat
                        /\ 1 <= d[1] /\ d[1] <= w /\ 1 <= d[2] /\ d[2] <= h
    BY <1>1
  <2> QED
    BY <1>4, <1>5, <2>1
<1>7. d[1] \in Side /\ d[2] \in Side
  BY <1>6, U32Assumption DEF Side
<1> QED
  BY <1>6, <1>7

\* Cover and stretch fill their box.
LEMMA ResizedExactly ==
    ASSUME NEW policy_ \in Policy, ExactBox(policy_), NEW w \in Side, NEW h \in Side,
           NEW d \in Resized(policy_, w, h)
    PROVE  d = <<policy_.long_edge, policy_.long_edge>> /\ policy_.long_edge \in Side
<1>1. policy_.shape = "fit" /\ policy_.mode \in {"cover", "stretch"}
  BY DEF ExactBox
<1>2. policy_.long_edge \in Side
  BY <1>1 DEF Policy
<1>3. TargetDimensions(policy_, w, h) = <<policy_.long_edge, policy_.long_edge>>
  BY <1>1 DEF TargetDimensions
<1> QED
  BY <1>2, <1>3 DEF Resized

LEMMA ResizedType ==
    ASSUME NEW policy_ \in Policy, NEW w \in Side, NEW h \in Side,
           NEW d \in Resized(policy_, w, h)
    PROVE  d \in Side \X Side
<1>1. CASE ExactBox(policy_)
  BY <1>1, ResizedExactly
<1>2. CASE ~ExactBox(policy_)
  BY <1>2, ResizedInside
<1> QED
  BY <1>1, <1>2

\* A picture that fit=contain has resized is inside the box.
LEMMA ContainInBox ==
    ASSUME NEW policy_ \in Policy, policy_.shape = "fit", policy_.mode = "contain",
           NEW w \in Side, NEW h \in Side, NEW d \in Resized(policy_, w, h)
    PROVE  d[1] <= policy_.long_edge /\ d[2] <= policy_.long_edge
<1> DEFINE t == TargetDimensions(policy_, w, h)
           e == policy_.long_edge
<1>1. w \in Nat \ {0} /\ h \in Nat \ {0} /\ e \in Nat \ {0} /\ e \in Side
  BY U32Assumption DEF Side, Policy
<1>2. t = IF w >= h THEN CapSide(w, h, e) ELSE Swap(CapSide(h, w, e))
  BY DEF TargetDimensions
<1>3. d \in IF t = <<w, h>> THEN {<<w, h>>} ELSE ResizeInto(t, w, h)
  BY DEF Resized, ExactBox
<1> HIDE DEF t, e
\* The longer side is capped, and the other one has no more than the cap.
<1>4. ASSUME NEW long \in Side, NEW short \in Side, short <= long
      PROVE  /\ CapSide(long, short, e) = <<CapSide(long, short, e)[1],
                                            CapSide(long, short, e)[2]>>
             /\ CapSide(long, short, e)[1] \in Nat /\ CapSide(long, short, e)[1] <= e
             /\ CapSide(long, short, e)[2] \in Nat /\ CapSide(long, short, e)[2] <= e
  <2>1. long \in Nat \ {0} /\ short \in Nat \ {0}
    BY <1>4, U32Assumption DEF Side
  <2>2. CASE long <= e
    BY <1>1, <1>4, <2>1, <2>2 DEF CapSide
  <2>3. CASE ~(long <= e)
    <3> DEFINE m == SaturatingMul(short, e)
    <3>1. /\ short * e \in Nat /\ e * long \in Nat /\ short * e <= long * e
          /\ long * e = e * long /\ (e + 1) * long = e * long + long
      BY <1>1, <1>4, <2>1, ProductType, ProductMonotone
    <3>2. m \in Nat /\ m <= short * e
      BY <3>1, U32Assumption DEF SaturatingMul
    <3>3. CapSide(long, short, e) = <<e, m \div long>>
      BY <2>3 DEF CapSide
    <3> HIDE DEF m
    <3>4. m < (e + 1) * long
      BY <2>1, <3>1, <3>2
    <3>5. m \div long \in Nat /\ m \div long <= e
      BY <1>1, <2>1, <3>2, <3>4, DivBound, DivMod
    <3> QED
      BY <1>1, <3>3, <3>5
  <2> QED
    BY <2>2, <2>3
<1>5. t[1] \in Nat /\ t[1] <= e /\ t[2] \in Nat /\ t[2] <= e
  <2>1. CASE w >= h
    BY <1>1, <1>2, <1>4, <2>1
  <2>2. CASE ~(w >= h)
    <3>1. h \in Side /\ w \in Side /\ w <= h
      BY <1>1, <2>2
    <3>2. t = Swap(CapSide(h, w, e))
      BY <1>2, <2>2
    <3>3. t[1] = CapSide(h, w, e)[2] /\ t[2] = CapSide(h, w, e)[1]
      BY <3>2 DEF Swap
    <3> QED
      BY <1>4, <3>1, <3>3
  <2> QED
    BY <2>1, <2>2
<1>6. d[1] <= e /\ d[2] <= e
  <2>1. CASE t = <<w, h>>
    <3>1. d = t
      BY <1>3, <2>1
    <3> QED
      BY <1>5, <3>1
  <2>2. CASE t # <<w, h>>
    <3>1. d \in ResizeInto(t, w, h)
      BY <1>3, <2>2
    <3>2. /\ d[1] \in Nat /\ d[2] \in Nat
          /\ (d[1] <= t[1] \/ d[1] = 1) /\ (d[2] <= t[2] \/ d[2] = 1)
      BY <1>1, <1>5, <3>1, ResizeIntoBelow
    <3> QED
      BY <1>1, <1>5, <3>2
  <2> QED
    BY <2>1, <2>2
<1> QED
  BY <1>6 DEF e

\* The side that follows the capped one, unless it rounds down to nothing, is
\* not scaled down by more than a pixel.
LEMMA FollowerNear ==
    ASSUME NEW side \in Side, NEW other \in Side, NEW cap \in Side,
           SaturatingMul(other, cap) \div side > 0
    PROVE  /\ side < 2 * (other * cap)
           /\ other < 2 * (side * (SaturatingMul(other, cap) \div side))
<1>1. side \in Nat \ {0} /\ other \in Nat \ {0} /\ cap \in Nat \ {0} /\ other <= U32_MAX
  BY U32Assumption DEF Side
<1>2. /\ other * cap \in Nat \ {0} /\ 1 * other <= cap * other /\ cap * other = other * cap
      /\ 1 * other = other
  BY <1>1, ProductPositive, ProductMonotone
<1> DEFINE m == SaturatingMul(other, cap)
           f == m \div side
<1>3. m \in Nat /\ m <= other * cap /\ other <= m
  BY <1>1, <1>2, U32Assumption DEF SaturatingMul
<1> HIDE DEF m
<1>4. f \in Nat /\ m % side \in Nat /\ m = side * f + (m % side) /\ m % side < side
  BY <1>1, <1>3, DivMod
<1>5. f > 0
  BY DEF m
<1> HIDE DEF f
<1>6. side * f \in Nat /\ 1 * side <= f * side /\ f * side = side * f /\ 1 * side = side
  BY <1>1, <1>4, <1>5, ProductMonotone, ProductType
<1>7. side < 2 * (other * cap) /\ other < 2 * (side * f)
  BY <1>1, <1>2, <1>3, <1>4, <1>6
<1> QED
  BY <1>7 DEF m, f

LEMMA TargetNear ==
    ASSUME NEW policy_ \in Policy, ~ExactBox(policy_), NEW w \in Side, NEW h \in Side,
           TargetDimensions(policy_, w, h) # <<w, h>>,
           TargetDimensions(policy_, w, h)[1] > 0, TargetDimensions(policy_, w, h)[2] > 0
    PROVE  /\ w < 2 * (h * TargetDimensions(policy_, w, h)[1])
           /\ h < 2 * (w * TargetDimensions(policy_, w, h)[2])
<1> DEFINE t == TargetDimensions(policy_, w, h)
<1>1. \/ t = <<w, h>>
      \/ \E cap \in Side : cap < w /\ t = <<cap, SaturatingMul(h, cap) \div w>>
      \/ \E cap \in Side : cap < h /\ t = <<SaturatingMul(w, cap) \div h, cap>>
  BY TargetCases
<1>2. t # <<w, h>> /\ t[1] > 0 /\ t[2] > 0
  OBVIOUS
<1> HIDE DEF t
<1>3. ASSUME NEW cap \in Side, t = <<cap, SaturatingMul(h, cap) \div w>>
      PROVE  w < 2 * (h * t[1]) /\ h < 2 * (w * t[2])
  <2>1. t[1] = cap /\ t[2] = SaturatingMul(h, cap) \div w
    BY <1>3
  <2>2. /\ w < 2 * (h * cap) /\ h < 2 * (w * (SaturatingMul(h, cap) \div w))
    BY <1>2, <2>1, FollowerNear
  <2> QED
    BY <2>1, <2>2
<1>4. ASSUME NEW cap \in Side, t = <<SaturatingMul(w, cap) \div h, cap>>
      PROVE  w < 2 * (h * t[1]) /\ h < 2 * (w * t[2])
  <2>1. t[2] = cap /\ t[1] = SaturatingMul(w, cap) \div h
    BY <1>4
  <2>2. /\ h < 2 * (w * cap) /\ w < 2 * (h * (SaturatingMul(w, cap) \div h))
    BY <1>2, <2>1, FollowerNear
  <2> QED
    BY <2>1, <2>2
<1>5. w < 2 * (h * t[1]) /\ h < 2 * (w * t[2])
  BY <1>1, <1>2, <1>3, <1>4
<1> QED
  BY <1>5 DEF t

\* A box that is no thinner than half a pixel keeps the shape.
LEMMA ResizeIntoKeepsShape ==
    ASSUME NEW box, box[1] \in Nat \ {0}, box[2] \in Nat \ {0},
           NEW w \in Nat \ {0}, NEW h \in Nat \ {0},
           w < 2 * (h * box[1]), h < 2 * (w * box[2]), NEW d \in ResizeInto(box, w, h)
    PROVE  SameShape(<<w, h>>, d)
<1>1. CASE box[1] * h <= box[2] * w
  <2>1. d[1] \in Rounded(w, box[1], w) /\ d[2] \in Rounded(h, box[1], w)
    BY <1>1 DEF ResizeInto
  <2>2. d[1] = box[1]
    BY <2>1, RoundedExact
  <2>3. /\ d[2] \in Nat
        /\ 2 * (w * d[2]) - 2 * (h * box[1]) <= w
        /\ 2 * (h * box[1]) - 2 * (w * d[2]) <= w
    BY <2>1, RoundedNear
  <2>4. d[1] * h = h * box[1] /\ d[2] * w = w * d[2] /\ h * box[1] \in Nat /\ w * d[2] \in Nat
    BY <2>2, <2>3, ProductType
  <2> QED
    BY <2>3, <2>4 DEF SameShape, Distance
<1>2. CASE ~(box[1] * h <= box[2] * w)
  <2>1. d[1] \in Rounded(w, box[2], h) /\ d[2] \in Rounded(h, box[2], h)
    BY <1>2 DEF ResizeInto
  <2>2. d[2] = box[2]
    BY <2>1, RoundedExact
  <2>3. /\ d[1] \in Nat
        /\ 2 * (h * d[1]) - 2 * (w * box[2]) <= h
        /\ 2 * (w * box[2]) - 2 * (h * d[1]) <= h
    BY <2>1, RoundedNear
  <2>4. d[2] * w = w * box[2] /\ d[1] * h = h * d[1] /\ h * d[1] \in Nat /\ w * box[2] \in Nat
    BY <2>2, <2>3, ProductType
  <2> QED
    BY <2>3, <2>4 DEF SameShape, Distance
<1> QED
  BY <1>1, <1>2

LEMMA ResizedKeepsShape ==
    ASSUME NEW policy_ \in Policy, ~ExactBox(policy_), NEW w \in Side, NEW h \in Side,
           TargetDimensions(policy_, w, h)[1] > 0, TargetDimensions(policy_, w, h)[2] > 0,
           NEW d \in Resized(policy_, w, h)
    PROVE  SameShape(<<w, h>>, d)
<1> DEFINE t == TargetDimensions(policy_, w, h)
<1>1. w \in Nat \ {0} /\ h \in Nat \ {0}
  BY U32Assumption DEF Side
<1>2. t[1] \in Nat \ {0} /\ t[2] \in Nat \ {0}
  BY TargetBelow
<1>3. d \in IF t = <<w, h>> THEN {<<w, h>>} ELSE ResizeInto(t, w, h)
  BY DEF Resized
<1>4. t # <<w, h>> => w < 2 * (h * t[1]) /\ h < 2 * (w * t[2])
  BY TargetNear
<1> HIDE DEF t
<1>5. CASE t = <<w, h>>
  <2>1. d = <<w, h>>
    BY <1>3, <1>5
  <2>2. w * h = h * w /\ w * h \in Nat
    BY <1>1, ProductType
  <2> QED
    BY <1>1, <2>1, <2>2 DEF SameShape, Distance
<1>6. CASE t # <<w, h>>
  BY <1>1, <1>2, <1>3, <1>4, <1>6, ResizeIntoKeepsShape
<1> QED
  BY <1>5, <1>6

\* The product for the side that follows does not saturate.
LEMMA TargetExact ==
    ASSUME NEW policy_ \in Policy, ~ExactBox(policy_), NEW w \in Side, NEW h \in Side,
           w * h <= U32_MAX
    PROVE  LET t == TargetDimensions(policy_, w, h)
           IN \/ t = <<w, h>>
              \/ t[2] = (h * t[1]) \div w
              \/ t[1] = (w * t[2]) \div h
<1> DEFINE t == TargetDimensions(policy_, w, h)
<1>1. w \in Nat \ {0} /\ h \in Nat \ {0} /\ Side \subseteq Nat
  BY U32Assumption DEF Side
<1>2. \/ t = <<w, h>>
      \/ \E cap \in Side : cap < w /\ t = <<cap, SaturatingMul(h, cap) \div w>>
      \/ \E cap \in Side : cap < h /\ t = <<SaturatingMul(w, cap) \div h, cap>>
  BY TargetCases
<1>3. ASSUME NEW side \in Nat, NEW other \in Nat, NEW cap \in Nat, cap < side,
             side * other <= U32_MAX
      PROVE  SaturatingMul(other, cap) = other * cap
  <2>1. cap * other <= side * other
    BY <1>3, ProductMonotone
  <2>2. cap * other = other * cap /\ other * cap \in Nat /\ side * other \in Nat
    BY ProductType
  <2>3. ~(other * cap > U32_MAX)
    BY <1>3, <2>1, <2>2, U32Assumption
  <2> QED
    BY <2>3 DEF SaturatingMul
<1>4. w * h = h * w
  BY <1>1
<1> HIDE DEF t
<1>5. ASSUME NEW cap \in Side, cap < w, t = <<cap, SaturatingMul(h, cap) \div w>>
      PROVE  t[2] = (h * t[1]) \div w
  BY <1>1, <1>3, <1>5
<1>6. ASSUME NEW cap \in Side, cap < h, t = <<SaturatingMul(w, cap) \div h, cap>>
      PROVE  t[1] = (w * t[2]) \div h
  BY <1>1, <1>3, <1>4, <1>6
<1>7. \/ t = <<w, h>> \/ t[2] = (h * t[1]) \div w \/ t[1] = (w * t[2]) \div h
  BY <1>2, <1>5, <1>6
<1> QED
  BY <1>7 DEF t

\* The side that follows the capped one, where nothing saturates: the shape of
\* the target is that of the picture up to a factor of two.
LEMMA FollowerHalf ==
    ASSUME NEW side \in Nat \ {0}, NEW other \in Nat \ {0}, NEW cap \in Nat \ {0},
           (other * cap) \div side > 0
    PROVE  /\ side * ((other * cap) \div side) < 2 * (other * cap)
           /\ other * cap < 2 * (side * ((other * cap) \div side))
<1> DEFINE m == other * cap
           f == m \div side
<1>1. m \in Nat \ {0}
  BY ProductPositive
<1> HIDE DEF m
<1>2. f \in Nat /\ m % side \in Nat /\ m = side * f + (m % side) /\ m % side < side
  BY <1>1, DivMod
<1>3. f > 0
  BY DEF m
<1> HIDE DEF f
<1>4. side * f \in Nat /\ 1 * side <= f * side /\ f * side = side * f /\ 1 * side = side
  BY <1>2, <1>3, ProductMonotone, ProductType
<1>5. side * f < 2 * m /\ m < 2 * (side * f)
  BY <1>1, <1>2, <1>4
<1> QED
  BY <1>5 DEF m, f

\* A box whose shape is that of the picture up to a factor of two is filled by
\* half in each direction.
LEMMA ResizeIntoHalf ==
    ASSUME NEW box, box[1] \in Nat \ {0}, box[2] \in Nat \ {0},
           NEW w \in Nat \ {0}, NEW h \in Nat \ {0},
           w < 2 * (h * box[1]), h < 2 * (w * box[2]),
           h * box[1] < 2 * (w * box[2]), w * box[2] < 2 * (h * box[1]),
           NEW d \in ResizeInto(box, w, h)
    PROVE  2 * d[1] >= box[1] /\ 2 * d[2] >= box[2]
<1>1. ASSUME NEW side \in Nat \ {0}, NEW length \in Nat \ {0}, NEW k \in Nat,
             NEW scaled \in Nat,
             side * length < 2 * scaled, 2 * scaled - 2 * (side * k) <= side
      PROVE  2 * k >= length
  <2>1. SUFFICES ASSUME 2 * k + 1 <= length PROVE FALSE
    OBVIOUS
  <2>2. (2 * k + 1) * side <= length * side
    BY <2>1, ProductMonotone
  <2>3. /\ (2 * k + 1) * side = 2 * (side * k) + side /\ length * side = side * length
        /\ side * k \in Nat /\ side * length \in Nat
    BY ProductType
  <2> QED
    BY <1>1, <2>2, <2>3
<1>2. CASE box[1] * h <= box[2] * w
  <2>1. d[1] \in Rounded(w, box[1], w) /\ d[2] \in Rounded(h, box[1], w)
    BY <1>2 DEF ResizeInto
  <2>2. d[1] = box[1]
    BY <2>1, RoundedExact
  <2>3. d[2] \in Nat /\ 2 * (h * box[1]) - 2 * (w * d[2]) <= w /\ h * box[1] \in Nat
    BY <2>1, RoundedNear, ProductType
  <2>4. 2 * d[2] >= box[2]
    BY <1>1, <2>3
  <2> QED
    BY <2>2, <2>4
<1>3. CASE ~(box[1] * h <= box[2] * w)
  <2>1. d[1] \in Rounded(w, box[2], h) /\ d[2] \in Rounded(h, box[2], h)
    BY <1>3 DEF ResizeInto
  <2>2. d[2] = box[2]
    BY <2>1, RoundedExact
  <2>3. d[1] \in Nat /\ 2 * (w * box[2]) - 2 * (h * d[1]) <= h /\ w * box[2] \in Nat
    BY <2>1, RoundedNear, ProductType
  <2>4. 2 * d[1] >= box[1]
    BY <1>1, <2>3
  <2> QED
    BY <2>2, <2>4
<1> QED
  BY <1>2, <1>3

LEMMA ResizedReachesHalf ==
    ASSUME NEW policy_ \in Policy, NEW w \in Side, NEW h \in Side, w * h <= U32_MAX,
           TargetDimensions(policy_, w, h)[1] > 0, TargetDimensions(policy_, w, h)[2] > 0,
           NEW d \in Resized(policy_, w, h)
    PROVE  /\ 2 * d[1] >= TargetDimensions(policy_, w, h)[1]
           /\ 2 * d[2] >= TargetDimensions(policy_, w, h)[2]
<1> DEFINE t == TargetDimensions(policy_, w, h)
<1>1. w \in Nat \ {0} /\ h \in Nat \ {0} /\ Side \subseteq Nat \ {0}
  BY U32Assumption DEF Side
<1>2. CASE ExactBox(policy_)
  <2>1. d = <<policy_.long_edge, policy_.long_edge>> /\ policy_.long_edge \in Nat
    BY <1>1, <1>2, ResizedExactly DEF ExactBox, Policy
  <2>2. t = <<policy_.long_edge, policy_.long_edge>>
    BY <1>2 DEF ExactBox, TargetDimensions
  <2> HIDE DEF t
  <2>3. 2 * d[1] >= t[1] /\ 2 * d[2] >= t[2]
    BY <2>1, <2>2
  <2> QED
    BY <2>3 DEF t
<1>3. CASE ~ExactBox(policy_)
  <2>1. t[1] \in Nat \ {0} /\ t[2] \in Nat \ {0}
    BY <1>3, TargetBelow
  <2>2. d \in IF t = <<w, h>> THEN {<<w, h>>} ELSE ResizeInto(t, w, h)
    BY <1>3 DEF Resized
  <2>3. t # <<w, h>> => w < 2 * (h * t[1]) /\ h < 2 * (w * t[2])
    BY <1>3, TargetNear
  <2>4. t = <<w, h>> \/ t[2] = (h * t[1]) \div w \/ t[1] = (w * t[2]) \div h
    BY <1>3, TargetExact
  <2> HIDE DEF t
  <2>5. CASE t = <<w, h>>
    <3>1. d = t /\ 2 * t[1] >= t[1] /\ 2 * t[2] >= t[2]
      BY <2>1, <2>2, <2>5
    <3> QED
      BY <3>1 DEF t
  <2>6. CASE t # <<w, h>>
    <3>1. h * t[1] < 2 * (w * t[2]) /\ w * t[2] < 2 * (h * t[1])
      <4>1. CASE t[2] = (h * t[1]) \div w
        BY <1>1, <2>1, <4>1, FollowerHalf
      <4>2. CASE t[1] = (w * t[2]) \div h
        BY <1>1, <2>1, <4>2, FollowerHalf
      <4> QED
        BY <2>4, <2>6, <4>1, <4>2
    <3>2. 2 * d[1] >= t[1] /\ 2 * d[2] >= t[2]
      BY <1>1, <2>1, <2>2, <2>3, <2>6, <3>1, ResizeIntoHalf
    <3> QED
      BY <3>2 DEF t
  <2> QED
    BY <2>5, <2>6
<1> QED
  BY <1>2, <1>3

\* A fit into a box with a side of nothing leaves one pixel.
LEMMA EmptyTargetResized ==
    ASSUME NEW policy_ \in Policy, NEW w \in Side, NEW h \in Side,
           \/ TargetDimensions(policy_, w, h)[1] = 0
           \/ TargetDimensions(policy_, w, h)[2] = 0,
           NEW d \in Resized(policy_, w, h)
    PROVE  d = <<1, 1>>
<1> DEFINE t == TargetDimensions(policy_, w, h)
<1>1. w \in Nat \ {0} /\ h \in Nat \ {0} /\ Side \subseteq Nat \ {0}
  BY U32Assumption DEF Side
<1>2. ~ExactBox(policy_)
  <2>1. SUFFICES ASSUME ExactBox(policy_) PROVE FALSE
    OBVIOUS
  <2>2. policy_.long_edge \in Side
    BY <2>1 DEF ExactBox, Policy
  <2>3. t = <<policy_.long_edge, policy_.long_edge>>
    BY <2>1 DEF ExactBox, TargetDimensions
  <2> HIDE DEF t
  <2>4. t[1] # 0 /\ t[2] # 0
    BY <1>1, <2>2, <2>3
  <2> QED
    BY <2>4 DEF t
<1>3. \/ t = <<w, h>>
      \/ \E cap \in Side : cap < w /\ t = <<cap, SaturatingMul(h, cap) \div w>>
      \/ \E cap \in Side : cap < h /\ t = <<SaturatingMul(w, cap) \div h, cap>>
  BY <1>2, TargetCases
<1>4. d \in IF t = <<w, h>> THEN {<<w, h>>} ELSE ResizeInto(t, w, h)
  BY <1>2 DEF Resized
<1>5. t[1] = 0 \/ t[2] = 0
  OBVIOUS
<1> HIDE DEF t
<1>6. ASSUME NEW x \in Nat, NEW den \in Nat \ {0}, NEW k \in Rounded(x, 0, den)
      PROVE  k = 1
  <2>1. x * 0 <= 0 * den
    OBVIOUS
  <2> QED
    BY <2>1, <1>6, RoundedBelow
<1>7. t # <<w, h>>
  BY <1>1, <1>5
<1>8. ASSUME NEW cap \in Side, t = <<cap, 0>> PROVE d = <<1, 1>>
  <2>1. ~(t[1] * h <= t[2] * w)
    <3>1. cap * h \in Nat \ {0} /\ 0 * w = 0
      BY <1>1, ProductPositive
    <3> QED
      BY <1>8, <3>1
  <2>2. d \in Rounded(w, 0, h) \X Rounded(h, 0, h)
    BY <1>4, <1>7, <1>8, <2>1 DEF ResizeInto
  <2> QED
    BY <1>1, <1>6, <2>2
<1>9. ASSUME NEW cap \in Side, t = <<0, cap>> PROVE d = <<1, 1>>
  <2>1. t[1] * h <= t[2] * w
    <3>1. cap * w \in Nat \ {0} /\ 0 * h = 0
      BY <1>1, ProductPositive
    <3> QED
      BY <1>9, <3>1
  <2>2. d \in Rounded(w, 0, w) \X Rounded(h, 0, w)
    BY <1>4, <1>7, <1>9, <2>1 DEF ResizeInto
  <2> QED
    BY <1>1, <1>6, <2>2
<1>10. \E cap \in Side : t = <<cap, 0>> \/ t = <<0, cap>>
  BY <1>1, <1>3, <1>5, <1>7
<1> QED
  BY <1>8, <1>9, <1>10

(***************************************************************************)
(* The text of --resize                                                    *)
(***************************************************************************)

\* Whatever the text, a policy that is read has its numbers in their ranges.
LEMMA ParseResizeType ==
    ASSUME NEW text_, NEW p \in ParseResize(text_)
    PROVE  /\ p \in Policy
           /\ p.shape = "fit" => p.long_edge <= LongEdgeMax
<1>1. CASE text_[1] = "none"
  BY <1>1 DEF ParseResize, NoResize, Policy
<1>2. CASE text_[1] = "cap"
  BY <1>2 DEF ParseResize, MaxWidth, Policy, Number
<1>3. CASE text_[1] = "auto"
  <2>1. p \in ParseAuto(Tail(text_))
    BY <1>3 DEF ParseResize
  <2>2. PICK c : c.portrait \in Side /\ c.landscape \in Side
                 /\ p = PortraitLandscape(c.portrait, c.landscape)
    BY <2>1 DEF ParseAuto
  <2> QED
    BY <2>2 DEF PortraitLandscape, Policy
<1>4. CASE text_[1] = "fit"
  BY <1>4 DEF ParseResize, Fit, Policy, Number
<1>5. CASE text_[1] \notin {"none", "cap", "auto", "fit"}
  BY <1>5 DEF ParseResize
<1> QED
  BY <1>1, <1>2, <1>3, <1>4, <1>5

\* FoldLeft over the pairs of an auto text, taken apart into its rounds: the
\* recursive function behind FoldLeft has a value for every set of positions.
Rounds(base, pairs) ==
    CHOOSE g : g = [s \in SUBSET DOMAIN pairs |->
                       IF s = {} THEN base ELSE TakePair(g[s \ {Max(s)}], pairs[Max(s)])]

AreRounds(g, base, pairs, n) ==
    \A s \in SUBSET (1 .. n) :
        g[s] = IF s = {} THEN base ELSE TakePair(g[s \ {Max(s)}], pairs[Max(s)])

LEMMA FoldIsRounds ==
    ASSUME NEW base, NEW pairs
    PROVE  FoldLeft(TakePair, base, pairs) = Rounds(base, pairs)[DOMAIN pairs]
BY DEF FoldLeft, MapThenFoldSet, Rounds

LEMMA MaxOfPrefix ==
    ASSUME NEW n \in Nat, NEW s \in SUBSET (1 .. n), n \in s
    PROVE  Max(s) = n
<1>1. \A y \in s : n >= y
  OBVIOUS
<1>2. \A x \in s : (\A y \in s : x >= y) => x = n
  OBVIOUS
<1> QED
  BY <1>1, <1>2 DEF Max

LEMMA RoundsExist ==
    ASSUME NEW base, NEW pairs, NEW n \in Nat, DOMAIN pairs = 1 .. n
    PROVE  AreRounds(Rounds(base, pairs), base, pairs, n)
<1> DEFINE Of(g, k) == g = [s \in SUBSET (1 .. k) |->
                              IF s = {} THEN base ELSE TakePair(g[s \ {Max(s)}], pairs[Max(s)])]
           T == {k \in Nat : \E g : Of(g, k)}
<1>1. 0 \in T
  <2>1. Of([s \in SUBSET (1 .. 0) |-> base], 0)
    OBVIOUS
  <2> QED
    BY <2>1
<1>2. ASSUME NEW k \in Nat, k \in T PROVE k + 1 \in T
  <2>1. PICK g : Of(g, k)
    BY <1>2
  <2> DEFINE h == [s \in SUBSET (1 .. k + 1) |->
                     IF k + 1 \in s THEN TakePair(g[s \ {k + 1}], pairs[k + 1]) ELSE g[s]]
             e(s) == IF s = {} THEN base ELSE TakePair(h[s \ {Max(s)}], pairs[Max(s)])
  <2>2. ASSUME NEW s \in SUBSET (1 .. k + 1), k + 1 \in s
        PROVE  h[s] = e(s)
    <3>1. Max(s) = k + 1
      BY <2>2, MaxOfPrefix
    <3>2. s \ {k + 1} \in SUBSET (1 .. k + 1)
      BY <2>2
    <3>3. h[s \ {k + 1}] = g[s \ {k + 1}]
      BY <3>2
    <3> QED
      BY <2>2, <3>1, <3>3
  <2>3. ASSUME NEW s \in SUBSET (1 .. k + 1), k + 1 \notin s
        PROVE  h[s] = e(s)
    <3>1. s \in SUBSET (1 .. k) /\ s \ {Max(s)} \in SUBSET (1 .. k)
      <4>1. \A x \in s : x \in 1 .. k
        BY <2>3
      <4> QED
        BY <4>1
    <3>2. h[s] = g[s]
      BY <2>3
    <3>3. h[s \ {Max(s)}] = g[s \ {Max(s)}]
      BY <2>3
    <3>4. g[s] = IF s = {} THEN base ELSE TakePair(g[s \ {Max(s)}], pairs[Max(s)])
      BY <2>1, <3>1
    <3> QED
      BY <3>2, <3>3, <3>4
  <2>4. \A s \in SUBSET (1 .. k + 1) : h[s] = e(s)
    BY <2>2, <2>3
  <2>5. h = [s \in SUBSET (1 .. k + 1) |-> h[s]]
    OBVIOUS
  <2> HIDE DEF h
  <2>6. Of(h, k + 1)
    BY <2>4, <2>5
  <2> HIDE DEF Of
  <2> QED
    BY <2>6
<1> HIDE DEF Of
<1>3. PICK g : Of(g, n)
  <2> HIDE DEF T
  <2>1. n \in T
    BY <1>1, <1>2, SetInduction
  <2> QED
    BY <2>1 DEF T
<1>4. Of(Rounds(base, pairs), n)
  BY <1>3 DEF Rounds, Of
<1> QED
  BY <1>4 DEF Of, AreRounds

LEMMA TwoRounds ==
    ASSUME NEW base, NEW pairs, NEW n \in Nat, DOMAIN pairs = 1 .. n
    PROVE  n = 2 => FoldLeft(TakePair, base, pairs)
                       = TakePair(TakePair(base, pairs[1]), pairs[2])
<1> DEFINE R == Rounds(base, pairs)
<1>1. AreRounds(R, base, pairs, n)
  BY RoundsExist
<1>2. FoldLeft(TakePair, base, pairs) = R[1 .. n]
  BY FoldIsRounds
<1> HIDE DEF R
<1>3. ASSUME n = 2
      PROVE  R[1 .. n] = TakePair(TakePair(base, pairs[1]), pairs[2])
  <2>1. /\ 1 .. 1 \in SUBSET (1 .. 2) /\ 1 .. 2 \in SUBSET (1 .. 2) /\ {} \in SUBSET (1 .. 2)
        /\ (1 .. 2) \ {2} = 1 .. 1 /\ (1 .. 1) \ {1} = {} /\ 1 .. 2 # {} /\ 1 .. 1 # {}
    OBVIOUS
  <2>2. Max(1 .. 1) = 1 /\ Max(1 .. 2) = 2
    BY MaxOfPrefix
  <2>3. R[1 .. 1] = TakePair(base, pairs[1])
    BY <1>1, <1>3, <2>1, <2>2 DEF AreRounds
  <2> QED
    BY <1>1, <1>3, <2>1, <2>2, <2>3 DEF AreRounds
<1> QED
  BY <1>2, <1>3

\* A round for a pair that is right stores its number.
LEMMA RoundStores ==
    ASSUME NEW c, NEW pair, NEW d, pair[1] \in DOMAIN c, pair[2] \in Side,
           d = [c EXCEPT ![pair[1]] = pair[2]]
    PROVE  TakePair({c}, pair) = {d}
<1>1. Number(pair[2]) = {pair[2]} /\ {x \in {c} : pair[1] \in DOMAIN x} = {c}
  BY DEF Number
<1> QED
  BY <1>1 DEF TakePair

\* With every round, the caps are the last values of their keys so far; only
\* pairs with a known key and a positive number leave any.
LEMMA RoundsReadPairs ==
    ASSUME NEW pairs, NEW n \in Nat, DOMAIN pairs = 1 .. n,
           NEW base, base = {[portrait |-> 0, landscape |-> 0]},
           NEW c \in Rounds(base, pairs)[1 .. n]
    PROVE  /\ \A p \in 1 .. n :
                 pairs[p][1] \in {"portrait", "landscape"} /\ pairs[p][2] \in Side
           /\ \A key \in {"portrait", "landscape"} :
                 \/ c[key] = 0
                 \/ \E p \in 1 .. n :
                       /\ pairs[p][1] = key /\ pairs[p][2] = c[key]
                       /\ \A q \in 1 .. n : pairs[q][1] = key => q <= p
<1> DEFINE Keys == {"portrait", "landscape"}
           none == [portrait |-> 0, landscape |-> 0]
           R    == Rounds(base, pairs)
           Read(d, k) ==
              /\ DOMAIN d = Keys
              /\ \A p \in 1 .. k : pairs[p][1] \in Keys /\ pairs[p][2] \in Side
              /\ \A key \in Keys :
                    \/ d[key] = 0
                    \/ \E p \in 1 .. k :
                          /\ pairs[p][1] = key /\ pairs[p][2] = d[key]
                          /\ \A q \in 1 .. k : pairs[q][1] = key => q <= p
           T == {k \in 0 .. n : \A d \in R[1 .. k] : Read(d, k)}
<1>1. AreRounds(R, base, pairs, n)
  BY RoundsExist
<1> HIDE DEF R
<1>2. 0 \in T
  <2>1. 1 .. 0 = {} /\ {} \in SUBSET (1 .. n)
    OBVIOUS
  <2>2. R[1 .. 0] = {none}
    BY <1>1, <2>1 DEF AreRounds
  <2>3. Read(none, 0)
    OBVIOUS
  <2> QED
    BY <2>2, <2>3
<1>3. ASSUME NEW k \in 0 .. n, k \in T, k < n PROVE k + 1 \in T
  <2>1. k + 1 \in 1 .. n /\ 1 .. k + 1 \in SUBSET (1 .. n) /\ k + 1 \in 1 .. k + 1
    BY <1>3
  <2>2. Max(1 .. k + 1) = k + 1
    BY <2>1, MaxOfPrefix
  <2>3. (1 .. k + 1) \ {k + 1} = 1 .. k
    BY <1>3
  <2>4. R[1 .. k + 1] = TakePair(R[1 .. k], pairs[k + 1])
    BY <1>1, <2>1, <2>2, <2>3 DEF AreRounds
  <2>5. ASSUME NEW d \in R[1 .. k + 1] PROVE Read(d, k + 1)
    <3>1. PICK e \in R[1 .. k], num \in Number(pairs[k + 1][2]) :
             pairs[k + 1][1] \in DOMAIN e /\ d = [e EXCEPT ![pairs[k + 1][1]] = num]
      BY <2>4 DEF TakePair
    <3>2. Read(e, k)
      BY <1>3
    <3>3. /\ pairs[k + 1][1] \in Keys /\ num = pairs[k + 1][2] /\ num \in Side
          /\ DOMAIN d = Keys /\ d[pairs[k + 1][1]] = num
          /\ \A key \in Keys : key # pairs[k + 1][1] => d[key] = e[key]
      <4> HIDE DEF Keys
      <4> QED
        BY <3>1, <3>2 DEF Number
    <3> HIDE DEF Keys
    <3>4. \A p \in 1 .. k + 1 : pairs[p][1] \in Keys /\ pairs[p][2] \in Side
      BY <1>3, <3>2, <3>3
    <3>5. ASSUME NEW key \in Keys
          PROVE  \/ d[key] = 0
                 \/ \E p \in 1 .. k + 1 :
                       /\ pairs[p][1] = key /\ pairs[p][2] = d[key]
                       /\ \A q \in 1 .. k + 1 : pairs[q][1] = key => q <= p
      <4>1. CASE key = pairs[k + 1][1]
        BY <2>1, <3>3, <4>1
      <4>2. CASE key # pairs[k + 1][1] /\ e[key] # 0
        <5>1. PICK p \in 1 .. k :
                 /\ pairs[p][1] = key /\ pairs[p][2] = e[key]
                 /\ \A q \in 1 .. k : pairs[q][1] = key => q <= p
          BY <3>2, <4>2
        <5>2. p \in 1 .. k + 1 /\ \A q \in 1 .. k + 1 : pairs[q][1] = key => q <= p
          BY <1>3, <4>2, <5>1
        <5> QED
          BY <3>3, <4>2, <5>1, <5>2
      <4>3. CASE key # pairs[k + 1][1] /\ e[key] = 0
        BY <3>3, <4>3
      <4> QED
        BY <4>1, <4>2, <4>3
    <3> QED
      BY <3>3, <3>4, <3>5
  <2> HIDE DEF Read
  <2> QED
    BY <2>1, <2>5
<1> HIDE DEF T
<1>4. 0 .. n \subseteq T
  BY <1>2, <1>3, BoundedInduction
<1>5. n \in T
  BY <1>4
<1> QED
  BY <1>5 DEF T, R

\* The last pair of a key is the one whose number is read.
LEMMA LastIsRead ==
    ASSUME NEW key, NEW pairs, NEW n \in Nat, Len(pairs) = n, NEW p \in 1 .. n,
           pairs[p][1] = key, \A q \in 1 .. n : pairs[q][1] = key => q <= p
    PROVE  LastOf(key, pairs) = pairs[p][2]
<1> DEFINE at == {q \in 1 .. n : pairs[q][1] = key}
<1>1. p \in at /\ \A q \in at : q <= p
  OBVIOUS
<1>2. \A r \in at : (\A q \in at : q <= r) => r = p
  <2>1. ASSUME NEW r \in at, \A q \in at : q <= r PROVE r = p
    <3>1. r <= p /\ p <= r
      BY <1>1, <2>1
    <3> QED
      BY <3>1
  <2> QED
    BY <2>1
<1>3. (CHOOSE r \in at : \A q \in at : q <= r) = p
  <2> HIDE DEF at
  <2> QED
    BY <1>1, <1>2
<1> QED
  BY <1>3 DEF LastOf

LEMMA ParseAutoAsks ==
    ASSUME NEW pairs, NEW n \in Nat, DOMAIN pairs = 1 .. n, Len(pairs) = n,
           NEW pol \in ParseAuto(pairs)
    PROVE  /\ pol.shape = "auto"
           /\ \A p \in 1 .. n :
                 pairs[p][1] \in {"portrait", "landscape"} /\ pairs[p][2] \in Side
           /\ LastOf("portrait", pairs) = pol.portrait
           /\ LastOf("landscape", pairs) = pol.landscape
<1> DEFINE base == {[portrait |-> 0, landscape |-> 0]}
<1>1. PICK c \in FoldLeft(TakePair, base, pairs) :
         /\ c.portrait \in Side /\ c.landscape \in Side
         /\ pol = PortraitLandscape(c.portrait, c.landscape)
  BY DEF ParseAuto
<1>2. c \in Rounds(base, pairs)[1 .. n]
  BY <1>1, FoldIsRounds
<1>0. base = {[portrait |-> 0, landscape |-> 0]}
  OBVIOUS
<1> HIDE DEF base
<1>3. /\ \A p \in 1 .. n :
            pairs[p][1] \in {"portrait", "landscape"} /\ pairs[p][2] \in Side
      /\ \A key \in {"portrait", "landscape"} :
            \/ c[key] = 0
            \/ \E p \in 1 .. n :
                  /\ pairs[p][1] = key /\ pairs[p][2] = c[key]
                  /\ \A q \in 1 .. n : pairs[q][1] = key => q <= p
  BY <1>0, <1>2, RoundsReadPairs
<1>4. ASSUME NEW key \in {"portrait", "landscape"}, c[key] \in Side
      PROVE  LastOf(key, pairs) = c[key]
  <2>1. c[key] # 0
    BY <1>4, U32Assumption DEF Side
  <2>2. PICK p \in 1 .. n :
           /\ pairs[p][1] = key /\ pairs[p][2] = c[key]
           /\ \A q \in 1 .. n : pairs[q][1] = key => q <= p
    BY <1>3, <1>4, <2>1
  <2> QED
    BY <2>2, LastIsRead
<1>5. LastOf("portrait", pairs) = c.portrait /\ LastOf("landscape", pairs) = c.landscape
  BY <1>1, <1>4
<1> QED
  BY <1>1, <1>3, <1>5 DEF PortraitLandscape

\* The policy of a text is the one it asks for.
LEMMA ParseResizeAsks ==
    ASSUME NEW text_, IsText(text_), NEW pol \in ParseResize(text_)
    PROVE  AsksFor(text_, pol)
<1> DEFINE S == {text_[p] : p \in DOMAIN text_}
<1>1. text_ \in Seq(S)
  BY DEF IsText
<1> HIDE DEF S
<1>2. Len(text_) \in Nat /\ text_ = [p \in 1 .. Len(text_) |-> text_[p]]
  BY <1>1
<1>3. CASE text_[1] = "none"
  <2>1. Len(text_) = 1 /\ pol = NoResize
    BY <1>3 DEF IsText, ParseResize
  <2>2. text_ = <<"none">>
    BY <1>1, <1>3, <2>1
  <2> QED
    BY <2>1, <2>2 DEF AsksFor, NoResize
<1>4. CASE text_[1] = "cap"
  <2>1. Len(text_) = 2 /\ pol = MaxWidth(text_[2])
    BY <1>4 DEF IsText, ParseResize, Number
  <2>2. text_ = <<"cap", text_[2]>>
    BY <1>1, <1>4, <2>1
  <2> QED
    BY <2>1, <2>2 DEF AsksFor, MaxWidth
<1>5. CASE text_[1] = "fit"
  <2>1. Len(text_) = 3 /\ pol = Fit(text_[2], text_[3])
    BY <1>5 DEF IsText, ParseResize, Number
  <2>2. text_ = <<"fit", text_[2], text_[3]>>
    BY <1>1, <1>5, <2>1
  <2> QED
    BY <2>1, <2>2 DEF AsksFor, Fit
<1>6. CASE text_[1] = "auto"
  <2> DEFINE pairs == Tail(text_)
  <2>1. pol \in ParseAuto(pairs)
    BY <1>6 DEF ParseResize
  <2>2. pairs \in Seq(S)
    BY <1>1 DEF IsText
  <2> HIDE DEF pairs
  <2>3. Len(pairs) \in Nat /\ DOMAIN pairs = 1 .. Len(pairs)
    BY <2>2
  <2>4. /\ pol.shape = "auto"
        /\ \A p \in 1 .. Len(pairs) :
              pairs[p][1] \in {"portrait", "landscape"} /\ pairs[p][2] \in Side
        /\ LastOf("portrait", pairs) = pol.portrait
        /\ LastOf("landscape", pairs) = pol.landscape
    BY <2>1, <2>3, ParseAutoAsks
  <2> QED
    BY <1>6, <2>4 DEF AsksFor, pairs
<1>7. CASE text_[1] \notin {"none", "cap", "auto", "fit"}
  BY <1>7 DEF ParseResize
<1> QED
  BY <1>3, <1>4, <1>5, <1>6, <1>7

\* What resize_policy_to_string writes of a policy is read as that policy.
LEMMA TextReparses ==
    ASSUME NEW pol, Expressible(pol)
    PROVE  ParseResize(ToText(pol)) = {pol}
<1>1. pol \in Policy /\ (pol.shape = "fit" => pol.long_edge <= LongEdgeMax)
  BY DEF Expressible
<1>2. CASE pol \in [shape : {"none"}]
  BY <1>2 DEF ParseResize, ToText, NoResize
<1>3. CASE pol \in [shape : {"cap"}, cap : Side]
  BY <1>3 DEF ParseResize, ToText, MaxWidth, Number
<1>4. CASE pol \in [shape : {"fit"}, mode : {"contain", "cover", "stretch"}, long_edge : Side]
  <2>1. ToText(pol) = <<"fit", pol.mode, pol.long_edge>>
    BY <1>4 DEF ToText
  <2>2. Fit(pol.mode, pol.long_edge) = pol
    BY <1>4 DEF Fit
  <2>3. {m \in Number(pol.long_edge) :
            m <= LongEdgeMax /\ pol.mode \in {"contain", "cover", "stretch"}} = {pol.long_edge}
    BY <1>1, <1>4 DEF Number
  <2>4. ParseResize(ToText(pol)) =
           {Fit(pol.mode, m) : m \in {k \in Number(pol.long_edge) :
              k <= LongEdgeMax /\ pol.mode \in {"contain", "cover", "stretch"}}}
    BY <2>1 DEF ParseResize
  <2> QED
    BY <2>2, <2>3, <2>4
<1>5. CASE pol \in [shape : {"auto"}, portrait : Side, landscape : Side]
  <2> DEFINE none  == [portrait |-> 0, landscape |-> 0]
             one   == [portrait |-> pol.portrait, landscape |-> 0]
             both  == [portrait |-> pol.portrait, landscape |-> pol.landscape]
             pairs == <<<<"portrait", pol.portrait>>, <<"landscape", pol.landscape>>>>
             base  == {none}
  <2>1. DOMAIN pairs = 1 .. 2 /\ pairs[1] = <<"portrait", pol.portrait>>
        /\ pairs[2] = <<"landscape", pol.landscape>>
    OBVIOUS
  <2>2. pol.portrait \in Side /\ pol.landscape \in Side
    BY <1>5
  <2>3. TakePair({none}, pairs[1]) = {one}
    <3>1. pairs[1][1] \in DOMAIN none /\ one = [none EXCEPT ![pairs[1][1]] = pairs[1][2]]
      OBVIOUS
    <3> QED
      BY <2>1, <2>2, <3>1, RoundStores
  <2>4. TakePair({one}, pairs[2]) = {both}
    <3>1. pairs[2][1] \in DOMAIN one /\ both = [one EXCEPT ![pairs[2][1]] = pairs[2][2]]
      OBVIOUS
    <3> QED
      BY <2>1, <2>2, <3>1, RoundStores
  <2>5. Tail(ToText(pol)) = pairs /\ ToText(pol)[1] = "auto"
    BY <1>5 DEF ToText
  <2>6. both.portrait = pol.portrait /\ both.landscape = pol.landscape
    OBVIOUS
  <2>7. base = {none}
    OBVIOUS
  <2> HIDE DEF pairs, none, one, both, base
  <2>8. FoldLeft(TakePair, base, pairs) = {both}
    <3>1. PICK n \in Nat : n = 2
      OBVIOUS
    <3>2. DOMAIN pairs = 1 .. n
      BY <2>1, <3>1
    <3>3. n = 2 => FoldLeft(TakePair, base, pairs)
                      = TakePair(TakePair(base, pairs[1]), pairs[2])
      BY <3>2, TwoRounds
    <3> QED
      BY <2>3, <2>4, <2>7, <3>1, <3>3
  <2>9. ParseResize(ToText(pol)) = ParseAuto(pairs)
    BY <2>5 DEF ParseResize
  <2>10. ParseAuto(pairs) = {PortraitLandscape(c.portrait, c.landscape) :
            c \in {d \in {both} : d.portrait \in Side /\ d.landscape \in Side}}
    BY <2>8 DEF ParseAuto, base, none
  <2>11. ParseAuto(pairs) = {PortraitLandscape(pol.portrait, pol.landscape)}
    BY <2>2, <2>6, <2>10
  <2>12. PortraitLandscape(pol.portrait, pol.landscape) = pol
    BY <1>5 DEF PortraitLandscape
  <2> QED
    BY <2>9, <2>11, <2>12
<1> QED
  BY <1>1, <1>2, <1>3, <1>4, <1>5 DEF Policy

(***************************************************************************)
(* The steps                                                               *)
(***************************************************************************)

\* A picture is known from decode on, its new size from apply_resize on, and
\* it is one of the sizes the policy gives for the picture.
PictureInv ==
    /\ stage \in {"start", "parsed", "sized", "refused"} => input = Unknown
    /\ stage \in {"decoded", "checked", "resized", "encoded", "panicked"} => input # Unknown
    /\ stage \in {"start", "parsed", "sized", "decoded", "checked", "refused"} =>
          output = Unknown
    /\ stage \in {"resized", "encoded", "panicked"} => output # Unknown
    /\ output # Unknown =>
          input # Unknown /\ output \in Resized(policy, input[1], input[2])

\* What the encoder was given, and what the WebP encoder fails on.
EncoderInv ==
    /\ stage = "encoded" => out_alpha = EncodesAlpha(codec)
    /\ stage = "panicked" => output[1] > WebpLimit \/ output[2] > WebpLimit

Inv ==
    /\ TypeOK
    /\ PictureInv
    /\ EncoderInv
    /\ SingleKindTellsStage

LEMMA InputType ==
    ASSUME TypeOK, input # Unknown
    PROVE  input \in Side \X Side /\ input[1] \in Side /\ input[2] \in Side
BY LimitAssumption DEF TypeOK

LEMMA PictureIsKnown ==
    ASSUME NEW d \in Side \X Side
    PROVE  d # Unknown
BY U32Assumption DEF Side, Unknown

LEMMA InvInit == Init => Inv
BY DefaultAssumption
   DEF Init, Inv, TypeOK, PictureInv, EncoderInv, SingleKindTellsStage, Stages,
       IsResized, Expressible

LEMMA TypeNext ==
    ASSUME TypeOK, PictureInv, Next
    PROVE  TypeOK'
<1> USE DEF TypeOK, given, Stages
<1>1. CASE ParseArguments
  <2>1. policy' \in Policy
    BY <1>1, ParseResizeType DEF ParseArguments
  <2>2. stage' \in {"parsed", "refused"}
    BY <1>1 DEF ParseArguments
  <2> QED
    BY <1>1, <2>1, <2>2 DEF ParseArguments
<1>2. CASE CheckSize
  BY <1>2 DEF CheckSize, Reject
<1>3. CASE Decode
  <2>1. CASE Reject("decode") \/ Reject(OpenError(codec))
    BY <2>1 DEF Reject, OpenError
  <2>2. CASE /\ \E w, h \in InputSides : input' = <<w, h>>
             /\ alpha' \in BOOLEAN
             /\ stage' = "decoded"
             /\ UNCHANGED <<given, policy, output, out_alpha, error>>
    BY <2>2
  <2> QED
    BY <1>3, <2>1, <2>2 DEF Decode
<1>4. CASE CheckDimensions
  BY <1>4 DEF CheckDimensions, Reject
<1>5. CASE ApplyResize
  <2>1. input # Unknown
    BY <1>5 DEF ApplyResize, PictureInv
  <2>2. output' \in Side \X Side
    BY <1>5, <2>1, InputType, ResizedType DEF ApplyResize
  <2>3. output' # Unknown
    BY <2>2, PictureIsKnown
  <2> QED
    BY <1>5, <2>2, <2>3 DEF ApplyResize
<1>6. CASE Encode
  <2>1. ASSUME Encoded PROVE TypeOK'
    <3>1. EncodesAlpha(codec) \in BOOLEAN
      BY DEF EncodesAlpha
    <3> QED
      BY <1>6, <2>1, <3>1 DEF Encoded, Encode
  <2>2. ASSUME NEW kind \in {"decode", "encode"}, EncoderErr(kind)
        PROVE  TypeOK'
    BY <2>2 DEF EncoderErr, Reject
  <2>3. CASE EncodeWebp
    BY <2>1, <2>3 DEF EncodeWebp
  <2>4. CASE EncodePng
    BY <2>1, <2>2, <2>4 DEF EncodePng
  <2>5. CASE EncodeJpeg
    BY <2>1, <2>2, <2>5 DEF EncodeJpeg
  <2> QED
    BY <1>6, <2>3, <2>4, <2>5 DEF Encode
<1> QED
  BY <1>1, <1>2, <1>3, <1>4, <1>5, <1>6 DEF Next

LEMMA PictureNext ==
    ASSUME TypeOK, PictureInv, Next
    PROVE  PictureInv'
<1> USE DEF PictureInv, given
<1>1. CASE ParseArguments
  BY <1>1 DEF ParseArguments
<1>2. CASE CheckSize
  BY <1>2 DEF CheckSize, Reject
<1>3. CASE Decode
  <2>1. CASE Reject("decode") \/ Reject(OpenError(codec))
    BY <1>3, <2>1 DEF Reject, Decode
  <2>2. CASE /\ \E w, h \in InputSides : input' = <<w, h>>
             /\ alpha' \in BOOLEAN
             /\ stage' = "decoded"
             /\ UNCHANGED <<given, policy, output, out_alpha, error>>
    <3>1. input' \in Side \X Side
      BY <2>2, LimitAssumption
    <3>2. input' # Unknown
      BY <3>1, PictureIsKnown
    <3> QED
      BY <1>3, <2>2, <3>2 DEF Decode
  <2> QED
    BY <1>3, <2>1, <2>2 DEF Decode
<1>4. CASE CheckDimensions
  BY <1>4 DEF CheckDimensions, Reject
<1>5. CASE ApplyResize
  <2>1. input # Unknown
    BY <1>5 DEF ApplyResize
  <2>2. policy \in Policy
    BY DEF TypeOK
  <2>3. output' \in Side \X Side
    BY <1>5, <2>1, <2>2, InputType, ResizedType DEF ApplyResize
  <2>4. output' # Unknown
    BY <2>3, PictureIsKnown
  <2> QED
    BY <1>5, <2>1, <2>4 DEF ApplyResize
<1>6. CASE Encode
  <2>1. Encoded => PictureInv'
    BY <1>6 DEF Encoded, Encode
  <2>2. ASSUME NEW kind, EncoderErr(kind)
        PROVE  PictureInv'
    BY <1>6, <2>2 DEF EncoderErr, Reject, Encode
  <2>3. CASE EncodeWebp
    BY <1>6, <2>1, <2>3 DEF EncodeWebp, Encode
  <2>4. CASE EncodePng
    BY <2>1, <2>2, <2>4 DEF EncodePng
  <2>5. CASE EncodeJpeg
    BY <2>1, <2>2, <2>5 DEF EncodeJpeg
  <2> QED
    BY <1>6, <2>3, <2>4, <2>5 DEF Encode
<1> QED
  BY <1>1, <1>2, <1>3, <1>4, <1>5, <1>6 DEF Next

LEMMA EncoderNext ==
    ASSUME TypeOK, Next
    PROVE  EncoderInv'
<1> USE DEF EncoderInv, given
<1>1. ASSUME stage' \notin {"encoded", "panicked"}
      PROVE  EncoderInv'
  BY <1>1
<1>2. ASSUME NEW kind, EncoderErr(kind) \/ Reject(kind)
      PROVE  EncoderInv'
  BY <1>1, <1>2 DEF EncoderErr, Reject
<1>3. CASE ~Encode
  <2>1. stage' \notin {"encoded", "panicked"}
    BY <1>3 DEF Next, ParseArguments, CheckSize, Decode, CheckDimensions, ApplyResize, Reject
  <2> QED
    BY <1>1, <2>1
<1>4. CASE EncodeJpeg /\ codec[2] = "jpg"
  <2>1. Encoded => EncoderInv'
    BY <1>4 DEF Encoded
  <2> QED
    BY <1>2, <1>4, <2>1 DEF EncodeJpeg
<1>5. CASE EncodeWebp /\ codec[2] = "webp"
  BY <1>5 DEF EncodeWebp, Encoded
<1>6. CASE stage = "resized" /\ EncodePng /\ codec[2] = "png"
  <2>1. CASE PixelCapacityFails(output)
    BY <1>2, <1>6, <2>1 DEF EncodePng
  <2>2. CASE ~PixelCapacityFails(output) /\ Encoded
    BY <1>6, <2>2 DEF Encoded
  <2>3. CASE EncoderErr("encode")
    BY <1>2, <2>3
  <2> QED
    BY <1>6, <2>1, <2>2, <2>3 DEF EncodePng
<1> QED
  BY <1>3, <1>4, <1>5, <1>6 DEF Encode

LEMMA KindNext ==
    ASSUME TypeOK, PictureInv, SingleKindTellsStage, Next
    PROVE  SingleKindTellsStage'
<1> USE DEF SingleKindTellsStage, IsResized, given, PictureInv
<1>1. CASE ParseArguments \/ ApplyResize
  BY <1>1 DEF ParseArguments, ApplyResize
<1>2. CASE CheckSize
  BY <1>2 DEF CheckSize, Reject
<1>3. CASE Decode
  <2>1. CASE mode = "batch"
    BY <1>3, <2>1 DEF Decode, Reject
  <2>2. CASE mode # "batch"
    BY <1>3, <2>2 DEF Decode, Reject
  <2> QED
    BY <2>1, <2>2
<1>4. CASE CheckDimensions
  BY <1>4 DEF CheckDimensions, Reject
<1>5. CASE Encode
  BY <1>5 DEF Encode, EncodePng, EncodeJpeg, EncodeWebp, Encoded, EncoderErr, Reject
<1> QED
  BY <1>1, <1>2, <1>3, <1>4, <1>5 DEF Next

LEMMA InvStutters ==
    ASSUME Inv, UNCHANGED vars
    PROVE  Inv'
BY DEF Inv, vars, TypeOK, PictureInv, EncoderInv, SingleKindTellsStage,
       IsResized

LEMMA InvNext == Inv /\ [Next]_vars => Inv'
<1> SUFFICES ASSUME Inv, [Next]_vars PROVE Inv'
  OBVIOUS
<1>1. CASE Next
  <2>1. TypeOK /\ PictureInv /\ SingleKindTellsStage
    BY DEF Inv
  <2> QED
    BY <1>1, <2>1, TypeNext, PictureNext, EncoderNext, KindNext DEF Inv
<1>2. CASE UNCHANGED vars
  BY <1>2, InvStutters
<1> QED
  BY <1>1, <1>2

LEMMA InvHolds == Spec => []Inv
BY InvInit, InvNext, PTL DEF Spec

\* What the lemmas about the policies speak of, in a state.
LEMMA OutputOfPolicy ==
    ASSUME Inv, IsResized
    PROVE  /\ policy \in Policy /\ input[1] \in Side /\ input[2] \in Side
           /\ input = <<input[1], input[2]>> /\ output \in Side \X Side
           /\ output \in Resized(policy, input[1], input[2])
BY InputType, PictureIsKnown DEF Inv, TypeOK, PictureInv, IsResized

-----------------------------------------------------------------------------

\* Every policy that can be in force is one of positive numbers, and every
\* picture has at least one pixel, before and after resize.
THEOREM TypeCorrect == Spec => []TypeOK
<1>1. Inv => TypeOK
  BY DEF Inv
<1> QED
  BY <1>1, InvHolds, PTL

\* From the parsed command line on, the policy in force is one that --resize
\* can ask for, and the one it does ask for.
PolicyInv ==
    /\ Expressible(policy)
    /\ stage \notin {"start", "refused"} /\ text # Absent => policy \in ParseResize(text)

LEMMA PolicyHolds == Spec => []PolicyInv
<1>1. Init => PolicyInv
  BY DefaultAssumption DEF Init, PolicyInv
<1>2. ASSUME PolicyInv, [Next]_vars PROVE PolicyInv'
  <2>1. CASE ParseArguments
    BY <1>2, <2>1, ParseResizeType DEF ParseArguments, PolicyInv, Expressible, given
  <2>2. CASE Next /\ ~ParseArguments
    <3>1. UNCHANGED <<policy, text>> /\ stage \notin {"start", "refused"}
      BY <2>2 DEF Next, CheckSize, Decode, CheckDimensions, ApplyResize, Encode, EncodePng,
                  EncodeJpeg, EncodeWebp, Encoded, EncoderErr, Reject, given
    <3> QED
      BY <1>2, <3>1 DEF PolicyInv, Expressible
  <2>3. CASE UNCHANGED vars
    BY <1>2, <2>3 DEF PolicyInv, Expressible, vars
  <2> QED
    BY <1>2, <2>1, <2>2, <2>3
<1> QED
  BY <1>1, <1>2, PTL DEF Spec

\* The policy in force is the one --resize asks for, for every text.
THEOREM PolicyIsAsked == Spec => []PolicyAsAsked
<1>1. ASSUME TypeOK, PolicyInv PROVE PolicyAsAsked
  <2>1. SUFFICES ASSUME stage \notin {"start", "refused"}, text # Absent
                 PROVE  /\ AsksFor(text, policy)
                        /\ policy.shape = "fit" => policy.long_edge <= LongEdgeMax
    BY DEF PolicyAsAsked
  <2>2. IsText(text) /\ policy \in ParseResize(text)
    BY <1>1, <2>1, TextsAssumption DEF TypeOK, PolicyInv
  <2> QED
    BY <2>2, ParseResizeAsks, ParseResizeType
<1> QED
  BY <1>1, PolicyHolds, TypeCorrect, PTL

\* The policy a report shows can be given to --resize to have it again.
THEOREM ReportedPolicyIsRead == Spec => []ReportedPolicyReparses
<1>1. PolicyInv => ReportedPolicyReparses
  BY TextReparses DEF PolicyInv, ReportedPolicyReparses
<1> QED
  BY <1>1, PolicyHolds, PTL

\* A policy other than cover and stretch never enlarges a picture.
THEOREM OnlyBoxesEnlarge == Spec => []NeverEnlarged
<1>1. Inv => NeverEnlarged
  BY OutputOfPolicy, ResizedInside DEF NeverEnlarged
<1> QED
  BY <1>1, InvHolds, PTL

\* A fit policy keeps its box.
THEOREM BoxesAreKept == Spec => []FitsItsBox
<1>1. ASSUME Inv PROVE FitsItsBox
  <2>1. SUFFICES ASSUME IsResized, policy.shape = "fit"
                 PROVE  IF ExactBox(policy)
                          THEN output = <<policy.long_edge, policy.long_edge>>
                          ELSE output[1] <= policy.long_edge /\ output[2] <= policy.long_edge
    BY DEF FitsItsBox
  <2>2. /\ policy \in Policy /\ input[1] \in Side /\ input[2] \in Side
        /\ output \in Resized(policy, input[1], input[2])
    BY <1>1, <2>1, OutputOfPolicy
  <2>3. CASE ExactBox(policy)
    BY <2>2, <2>3, ResizedExactly
  <2>4. CASE ~ExactBox(policy)
    <3>1. policy.mode = "contain"
      BY <2>1, <2>2, <2>4 DEF ExactBox, Policy
    <3> QED
      BY <2>1, <2>2, <2>4, <3>1, ContainInBox
  <2> QED
    BY <2>3, <2>4
<1> QED
  BY <1>1, InvHolds, PTL

\* Half a pixel is all that the aspect ratio of a picture can change by, for
\* every policy but cover and stretch, however the product saturates.
THEOREM ShapeIsKept == Spec => []AspectKept
<1>1. ASSUME Inv PROVE AspectKept
  BY <1>1, OutputOfPolicy, ResizedKeepsShape DEF AspectKept
<1> QED
  BY <1>1, InvHolds, PTL

\* No product saturates for a picture whose pixels can be counted.
THEOREM TargetsAreExact == Spec => []TargetIsExact
<1>1. ASSUME Inv PROVE TargetIsExact
  BY <1>1, OutputOfPolicy, TargetExact DEF TargetIsExact
<1> QED
  BY <1>1, InvHolds, PTL

\* Truncation and rounding together cost a side at most half of its target.
THEOREM HalfIsReached == Spec => []TargetHalfReached
<1>1. ASSUME Inv PROVE TargetHalfReached
  BY <1>1, OutputOfPolicy, ResizedReachesHalf DEF TargetHalfReached
<1> QED
  BY <1>1, InvHolds, PTL

\* A target with an empty side makes a single pixel of the picture.
THEOREM EmptyTargetCollapses == Spec => []EmptyTargetIsOnePixel
<1>1. ASSUME Inv PROVE EmptyTargetIsOnePixel
  BY <1>1, OutputOfPolicy, EmptyTargetResized DEF EmptyTargetIsOnePixel
<1> QED
  BY <1>1, InvHolds, PTL

\* The kinds "decode" and "encode" of single-file mode tell on which side of
\* the resize the failure was.
THEOREM KindTellsStage == Spec => []SingleKindTellsStage
<1>1. Inv => SingleKindTellsStage
  BY DEF Inv
<1> QED
  BY <1>1, InvHolds, PTL

\* A panic of the WebP encoder takes a huge picture, or a huge box.
THEOREM PanicIsRare == Spec => []PanicTakesHugeSide
<1>1. ASSUME Inv PROVE PanicTakesHugeSide
  <2>1. SUFFICES ASSUME stage = "panicked"
                 PROVE  \/ input[1] > WebpLimit \/ input[2] > WebpLimit
                        \/ ExactBox(policy) /\ policy.long_edge > WebpLimit
    BY DEF PanicTakesHugeSide
  <2>2. IsResized /\ (output[1] > WebpLimit \/ output[2] > WebpLimit)
    BY <1>1, <2>1 DEF Inv, PictureInv, EncoderInv, IsResized
  <2>3. /\ policy \in Policy /\ input[1] \in Side /\ input[2] \in Side
        /\ output \in Side \X Side
        /\ output \in Resized(policy, input[1], input[2])
    BY <1>1, <2>2, OutputOfPolicy
  <2>4. CASE ExactBox(policy)
    BY <2>2, <2>3, <2>4, ResizedExactly
  <2>5. CASE ~ExactBox(policy)
    <3>1. output[1] <= input[1] /\ output[2] <= input[2]
      BY <2>3, <2>5, ResizedInside
    <3>2. input[1] \in Int /\ input[2] \in Int /\ output[1] \in Int /\ output[2] \in Int
      BY <2>3, U32Assumption DEF Side
    <3> QED
      BY <2>2, <3>1, <3>2, LimitAssumption
  <2> QED
    BY <2>4, <2>5
<1> QED
  BY <1>1, InvHolds, PTL

\* Alpha of a PNG or WebP picture reaches every output that can hold it.
THEOREM AlphaIsKept == Spec => []AlphaReachesOutput
<1>1. Inv => AlphaReachesOutput
  BY DEF Inv, EncoderInv, TypeOK, AlphaReachesOutput, EncodesAlpha, CodecImpl, Format
<1> QED
  BY <1>1, InvHolds, PTL
=============================================================================
