---------------------------- MODULE RenderProofs ----------------------------
(***************************************************************************)
(* RenderPages for any document, resolutions, size limit and names of the  *)
(* converter's output, over what any number of failed and killed calls     *)
(* left.                                                                   *)
(*                                                                         *)
(* The invariant: a page that is about to be renamed has no image yet, and *)
(* under this call's name for it stands the finished conversion; so when   *)
(* its output is the only one, it is that one.  A page in hand has its     *)
(* image when it is checked, and one that was returned has it within the   *)
(* limit, and keeps it.                                                    *)
(***************************************************************************)
EXTENDS Render, TLAPS

Shape ==
    /\ image \in [Pages -> SUBSET [dpi : Resolutions, whole : BOOLEAN]]
    /\ output \in [Pages \X Suffixes -> SUBSET [dpi : Resolutions, whole : BOOLEAN]]
    /\ range \subseteq Pages /\ \E first, last \in Nat : range = first..last
    /\ returned \subseteq Pages
    /\ dpi \in Resolutions /\ suffix \in Suffixes
    /\ phase \in {"rename", "check"} => range # {}

Finished ==
    phase = "rename" => image[Page] = {} /\ output[<<Page, suffix>>] = {Image(dpi, TRUE)}

Checked == phase = "check" => image[Page] # {}

IInv == Shape /\ Finished /\ Checked /\ ImagesWhole /\ ReturnedPagesFit

(* The loop's page is the first of those left, and leaves an interval.     *)
LEMMA PageIsFirst ==
    ASSUME NEW first \in Nat, NEW last \in Nat, range = first..last, range # {}
    PROVE  Page = first /\ Page \in range /\ range \ {Page} = (first + 1)..last
<1>1. first \in range /\ \A q \in range : first <= q
  OBVIOUS
<1>2. Page \in range /\ \A q \in range : Page <= q
  BY <1>1 DEF Page
<1>3. Page = first
  BY <1>1, <1>2
<1> QED BY <1>1, <1>3

LEMMA PageInRange ==
    ASSUME Shape, range # {}
    PROVE  /\ Page \in range /\ Page \in Pages
           /\ \E first, last \in Nat : range \ {Page} = first..last
  BY PageIsFirst DEF Shape

LEMMA InitIInv == Init => IInv
<1> SUFFICES ASSUME Init PROVE IInv
  OBVIOUS
<1>1. range = 1..0
  BY DEF Init
<1> QED BY <1>1 DEF Init, IInv, Shape, Finished, Checked, ImagesWhole, ReturnedPagesFit

LEMMA StepIInv == IInv /\ [Next]_vars => IInv'
<1> SUFFICES ASSUME IInv, [Next]_vars PROVE IInv'
  OBVIOUS
<1> USE DEF disk, call
<1>1. CASE Call
  <2>1. PICK first, last \in Pages : range' = first..last
    BY <1>1 DEF Call
  <2>2. range' \subseteq Pages /\ first \in Nat /\ last \in Nat
    BY <2>1, RenderAssumption
  <2> QED BY <1>1, <2>1, <2>2
          DEF Call, IInv, Shape, Finished, Checked, ImagesWhole, ReturnedPagesFit
<1>2. CASE Reuse
  BY <1>2 DEF Reuse, IInv, Shape, Finished, Checked, ImagesWhole, ReturnedPagesFit, Page
<1>3. CASE Convert
  <2>1. Page' = Page /\ Page \in Pages /\ range # {}
    BY <1>3, PageInRange DEF Convert, Page, IInv
  <2>2. output'[<<Page, suffix>>] = {Image(dpi, TRUE)}
    BY <1>3, <2>1 DEF Convert, IInv, Shape
  <2>3. Shape'
    BY <1>3, <2>1 DEF Convert, IInv, Shape, Image
  <2> QED BY <1>3, <2>1, <2>2, <2>3
          DEF Convert, IInv, Finished, Checked, ImagesWhole, ReturnedPagesFit
<1>4. CASE ConvertFails
  <2>1. Page \in Pages
    BY <1>4, PageInRange DEF ConvertFails, IInv
  <2>2. output' = output \/ output' = [output EXCEPT ![<<Page, suffix>>] = {Image(dpi, FALSE)}]
    BY <1>4 DEF ConvertFails
  <2>3. Image(dpi, FALSE) \in [dpi : Resolutions, whole : BOOLEAN]
    BY DEF Image, IInv, Shape
  <2>4. output' \in [Pages \X Suffixes -> SUBSET [dpi : Resolutions, whole : BOOLEAN]]
    <3> DEFINE T == [dpi : Resolutions, whole : BOOLEAN]
    <3>1. {Image(dpi, FALSE)} \in SUBSET T
      BY <2>3
    <3>2. output \in [Pages \X Suffixes -> SUBSET T]
      BY DEF IInv, Shape
    <3> QED BY <2>2, <3>1, <3>2
  <2> QED BY <1>4, <2>4 DEF ConvertFails, IInv, Shape, Finished, Checked, ImagesWhole,
                            ReturnedPagesFit
<1>5. CASE Rename
  <2>1. PICK s \in Outputs(Page) :
           /\ Outputs(Page) = {s}
           /\ image' = [image EXCEPT ![Page] = output[<<Page, s>>]]
           /\ output' = [output EXCEPT ![<<Page, s>>] = {}]
    BY <1>5 DEF Rename
  <2>2. phase = "rename" /\ phase' = "check" /\ UNCHANGED <<call, range, returned>>
    BY <1>5 DEF Rename
  <2>3. Page' = Page /\ Page \in Pages /\ range # {}
    BY <2>2, PageInRange DEF Page, IInv, Shape
  <2>4. s = suffix
    BY <2>1, <2>2 DEF Outputs, IInv, Shape, Finished
  <2>5. image' = [image EXCEPT ![Page] = {Image(dpi, TRUE)}] /\ image[Page] = {}
    BY <2>1, <2>2, <2>4 DEF IInv, Finished
  <2>6. Shape'
    <3>1. Image(dpi, TRUE) \in [dpi : Resolutions, whole : BOOLEAN]
      BY DEF Image, IInv, Shape
    <3>2. image' \in [Pages -> SUBSET [dpi : Resolutions, whole : BOOLEAN]]
      BY <2>5, <3>1 DEF IInv, Shape
    <3>3. output' \in [Pages \X Suffixes -> SUBSET [dpi : Resolutions, whole : BOOLEAN]]
      BY <2>1 DEF IInv, Shape
    <3> QED BY <2>2, <2>3, <3>2, <3>3 DEF IInv, Shape
  <2>7. Finished' /\ Checked'
    BY <2>2, <2>3, <2>5 DEF IInv, Shape, Finished, Checked
  <2>8. ImagesWhole'
    BY <2>5 DEF IInv, Shape, ImagesWhole, Image
  <2>9. ReturnedPagesFit'
    BY <2>2, <2>5 DEF IInv, Shape, ReturnedPagesFit
  <2> QED BY <2>6, <2>7, <2>8, <2>9 DEF IInv
<1>6. CASE Accept
  <2>1. Page \in range /\ Page \in Pages
        /\ \E first, last \in Nat : range \ {Page} = first..last
    BY <1>6, PageInRange DEF Accept, IInv, Shape
  <2>2. \E i \in image[Page] : i.whole /\ Fits(Page, i.dpi)
    BY <1>6, <2>1 DEF Accept, TooBig, IInv, Shape, Checked, ImagesWhole
  <2> QED BY <1>6, <2>1, <2>2
          DEF Accept, IInv, Shape, Finished, Checked, ImagesWhole, ReturnedPagesFit
<1>7. CASE Ambiguous \/ Oversize \/ Return \/ Kill \/ UNCHANGED vars
  BY <1>7 DEF Ambiguous, Oversize, Return, Kill, vars, IInv, Shape, Finished, Checked, ImagesWhole,
              ReturnedPagesFit, Page
<1> QED BY <1>1, <1>2, <1>3, <1>4, <1>5, <1>6, <1>7 DEF Next

LEMMA InvariantHolds == Spec => []IInv
<1> QED BY InitIInv, StepIInv, PTL DEF Spec

(* What stands under a page's stable name is a whole image, whatever       *)
(* failed or killed calls of any version of the converter left behind.     *)
THEOREM StableImagesAreWhole == Spec => []ImagesWhole
<1>1. IInv => ImagesWhole
  BY DEF IInv
<1> QED BY <1>1, InvariantHolds, PTL

(* The pages a call returns, the reused ones included, have an image       *)
(* within the limit, and keep it while the call goes on.                   *)
THEOREM PagesReturnedFit == Spec => []ReturnedPagesFit
<1>1. IInv => ReturnedPagesFit
  BY DEF IInv
<1> QED BY <1>1, InvariantHolds, PTL
=============================================================================
