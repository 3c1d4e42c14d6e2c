------------------------------- MODULE Resize -------------------------------
(***************************************************************************)
(* The resize policies of src/format.rs: `ResizePolicy::target_dimensions` *)
(* in u32 arithmetic, and the size of the picture `apply_resize` returns.  *)
(* Dimensions are pairs <<width, height>> of positive integers.            *)
(***************************************************************************)
EXTENDS Integers

CONSTANT U32_MAX           \* 2^32 - 1 in the program

ASSUME U32Assumption == U32_MAX \in Nat

Side == 1 .. U32_MAX

\* ResizePolicy, as parse_resize and parse_resize_fit build it.
NoResize                == [shape |-> "none"]
MaxWidth(m)             == [shape |-> "cap", cap |-> m]
PortraitLandscape(p, l) == [shape |-> "auto", portrait |-> p, landscape |-> l]
Fit(mode, n)            == [shape |-> "fit", mode |-> mode, long_edge |-> n]

\* What the command line can ask for: every number is a positive u32.
Policy ==
    [shape : {"none"}] \cup [shape : {"cap"}, cap : Side]
      \cup [shape : {"auto"}, portrait : Side, landscape : Side]
      \cup [shape : {"fit"}, mode : {"contain", "cover", "stretch"}, long_edge : Side]

\* Mutant of SaturatingMul: the product is one of signed numbers.
SaturatingMulSigned(x, y) == IF x * y > U32_MAX \div 2 THEN U32_MAX \div 2 ELSE x * y
\* u32::saturating_mul.
SaturatingMul(x, y) == IF x * y > U32_MAX THEN U32_MAX ELSE x * y

\* Mutant of CapSide: the cap is also applied to a smaller picture.
CapSideAlways(side, other, cap) ==
    <<cap, SaturatingMul(other, cap) \div side>>
\* Mutant of CapSide: divides first.
CapSideDividesFirst(side, other, cap) ==
    IF side <= cap THEN <<side, other>>
    ELSE <<cap, (other \div side) * cap>>
\* A side longer than the cap becomes the cap, the other one follows.
CapSide(side, other, cap) ==
    IF side <= cap THEN <<side, other>>
    ELSE <<cap, SaturatingMul(other, cap) \div side>>

Swap(d) == <<d[2], d[1]>>

TargetDimensions(policy, w, h) ==
    CASE policy.shape = "none" -> <<w, h>>
      [] policy.shape = "cap"  -> CapSide(w, h, policy.cap)
      [] policy.shape = "auto" ->
            CapSide(w, h, IF h >= w THEN policy.portrait ELSE policy.landscape)
      [] policy.shape = "fit" /\ policy.mode = "contain" ->
            IF w >= h THEN CapSide(w, h, policy.long_edge)
                      ELSE Swap(CapSide(h, w, policy.long_edge))
      [] policy.shape = "fit" /\ policy.mode \in {"cover", "stretch"} ->
            <<policy.long_edge, policy.long_edge>>

(***************************************************************************)
(* The image crate                                                         *)
(***************************************************************************)

\* Mutant of Rounded: a side may vanish.
RoundedToZero(x, num, den) == {(2 * x * num + den) \div (2 * den)}
\* f64::round of x * num / den, at least 1.  The program computes num / den
\* first; only at a tie can its rounding error show.
Rounded(x, num, den) ==
    LET up  == (2 * x * num + den) \div (2 * den)
        tie == (2 * x * num + den) % (2 * den) = 0
    IN {IF k < 1 THEN 1 ELSE k : k \in IF tie THEN {up - 1, up} ELSE {up}}

\* DynamicImage::resize: the largest picture of the same shape in the box.
ResizeInto(box, w, h) ==
    LET byWidth == box[1] * h <= box[2] * w
        num == IF byWidth THEN box[1] ELSE box[2]
        den == IF byWidth THEN w ELSE h
    IN Rounded(w, num, den) \X Rounded(h, num, den)

(***************************************************************************)
(* apply_resize                                                            *)
(***************************************************************************)

ExactBox(policy) == policy.shape = "fit" /\ policy.mode \in {"cover", "stretch"}

\* Mutant of Resized: every policy resizes to the exact target.
ResizedExact(policy, w, h) ==
    LET target == TargetDimensions(policy, w, h)
    IN {<<IF target[1] < 1 THEN 1 ELSE target[1],
          IF target[2] < 1 THEN 1 ELSE target[2]>>}
\* Mutant of Resized: cover keeps the aspect ratio and is not cropped.
ResizedUncropped(policy, w, h) ==
    LET target == TargetDimensions(policy, w, h)
    IN IF target = <<w, h>> THEN {<<w, h>>} ELSE ResizeInto(target, w, h)
\* The dimensions apply_resize can return: unchanged if they are the target;
\* the exact box for resize_to_fill and resize_exact; else inside the box.
Resized(policy, w, h) ==
    LET target == TargetDimensions(policy, w, h)
    IN IF target = <<w, h>> THEN {<<w, h>>}
       ELSE IF ExactBox(policy) THEN {target}
       ELSE ResizeInto(target, w, h)
=============================================================================
