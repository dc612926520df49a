------------------------------- MODULE Render -------------------------------
(***************************************************************************)
(* internal/discovery/render.go: RenderPages, started again and again over *)
(* one cache/pages.  A page is converted under a name of the converter's   *)
(* choosing ("depending on version"), then renamed to its stable name; an  *)
(* image that stands under its stable name is used as it is.  A run may    *)
(* end at any step and leaves what it wrote.                               *)
(***************************************************************************)
EXTENDS Integers, FiniteSets

CONSTANTS
    Pages,       \* first..last of the document
    Resolutions, \* values of -dpi
    Suffixes,    \* the names a version of pdftoppm may give its output
    Fits(_, _),  \* whether a page at a resolution is within maxImageBytes
    MaxRuns      \* bound on how often RenderPages is called

ASSUME RenderAssumption ==
    /\ Pages \subseteq Nat \ {0}
    /\ \A first, last \in Pages : first..last \subseteq Pages
    /\ \A p \in Pages, r \in Resolutions : Fits(p, r) \in BOOLEAN
    /\ MaxRuns \in Nat

VARIABLES
    image,     \* page-NN.jpg: {} or the image it holds
    output,    \* page-NN-<suffix>.jpg: {} or what the converter left there
    runs, phase,
    range,     \* the pages of this call that are still to do
    dpi,       \* the resolution of this call
    suffix,    \* the converter of this call
    returned   \* the pages of this call that are done

vars == <<image, output, runs, phase, range, dpi, suffix, returned>>
disk == <<image, output>>
call == <<runs, dpi, suffix>>

Image(r, whole) == [dpi |-> r, whole |-> whole]
Ended == {"off", "done", "failed", "ambiguous", "oversize", "killed"}
Running == phase \notin Ended

(* The loop's page: the lowest that is left. *)
Page == CHOOSE p \in range : \A q \in range : p <= q

Init ==
    /\ image = [p \in Pages |-> {}]
    /\ output = [f \in Pages \X Suffixes |-> {}]
    /\ runs = 0 /\ phase = "off" /\ range = {} /\ returned = {}
    /\ dpi \in Resolutions /\ suffix \in Suffixes

Call ==
    /\ ~Running
    /\ runs < MaxRuns
    /\ runs' = runs + 1
    /\ dpi' \in Resolutions /\ suffix' \in Suffixes
    /\ \E first, last \in Pages : range' = first..last
    /\ returned' = {}
    /\ phase' = "page"
    /\ UNCHANGED disk

-----------------------------------------------------------------------------
(* Plausible bugs, used only to show that the properties notice them.      *)

(* The exit status of pdftoppm is not looked at. *)
ConvertFailsIgnored ==
    /\ phase = "page" /\ range # {}
    /\ image[Page] = {}
    /\ output' = [output EXCEPT ![<<Page, suffix>>] = {Image(dpi, FALSE)}]
    /\ phase' = "rename"
    /\ UNCHANGED <<image, call, range, returned>>

(* The limit is checked on the page just converted only. *)
ReuseUnchecked ==
    /\ phase = "page" /\ range # {}
    /\ image[Page] # {}
    /\ returned' = returned \cup {Page}
    /\ range' = range \ {Page}
    /\ UNCHANGED <<disk, call, phase>>

-----------------------------------------------------------------------------

(* os.Stat finds the image. *)
Reuse ==
    /\ phase = "page" /\ range # {}
    /\ image[Page] # {}
    /\ phase' = "check"
    /\ UNCHANGED <<disk, call, range, returned>>

Outputs(p) == {s \in Suffixes : output[<<p, s>>] # {}}

(* pdftoppm overwrites its own output of a run before, not another name's. *)
Convert ==
    /\ phase = "page" /\ range # {}
    /\ image[Page] = {}
    /\ output' = [output EXCEPT ![<<Page, suffix>>] = {Image(dpi, TRUE)}]
    /\ phase' = "rename"
    /\ UNCHANGED <<image, call, range, returned>>

(* It fails, or is killed with the program, leaving nothing or a part.      *)
ConvertFails ==
    /\ phase = "page" /\ range # {}
    /\ image[Page] = {}
    /\ output' \in {output, [output EXCEPT ![<<Page, suffix>>] = {Image(dpi, FALSE)}]}
    /\ phase' = "failed"
    /\ UNCHANGED <<image, call, range, returned>>

Rename ==
    /\ phase = "rename"
    /\ \E s \in Outputs(Page) :
          /\ Outputs(Page) = {s}
          /\ image' = [image EXCEPT ![Page] = output[<<Page, s>>]]
          /\ output' = [output EXCEPT ![<<Page, s>>] = {}]
    /\ phase' = "check"
    /\ UNCHANGED <<call, range, returned>>

(* "expected 1 output file" *)
Ambiguous ==
    /\ phase = "rename"
    /\ Cardinality(Outputs(Page)) # 1
    /\ phase' = "ambiguous"
    /\ UNCHANGED <<disk, call, range, returned>>

TooBig(p) == \E i \in image[p] : i.whole /\ ~Fits(p, i.dpi)

Accept ==
    /\ phase = "check"
    /\ ~TooBig(Page)
    /\ returned' = returned \cup {Page}
    /\ range' = range \ {Page}
    /\ phase' = "page"
    /\ UNCHANGED <<disk, call>>

(* "over the API image limit -- lower -dpi"; the image stays. *)
Oversize ==
    /\ phase = "check"
    /\ TooBig(Page)
    /\ phase' = "oversize"
    /\ UNCHANGED <<disk, call, range, returned>>

Return ==
    /\ phase = "page"
    /\ range = {}
    /\ phase' = "done"
    /\ UNCHANGED <<disk, call, range, returned>>

(* The process is killed between two steps, or a Rename or Stat fails. *)
Kill ==
    /\ Running
    /\ phase' = "killed"
    /\ UNCHANGED <<disk, call, range, returned>>

Next ==
    \/ Call \/ Reuse \/ Convert \/ ConvertFails \/ Rename \/ Ambiguous
    \/ Accept \/ Oversize \/ Return \/ Kill

Spec == Init /\ [][Next]_vars
-----------------------------------------------------------------------------

(* What stands under a page's stable name is a whole image, whenever the    *)
(* converter failed or the program was killed, and whatever they left: only *)
(* a finished conversion is renamed.                                        *)
ImagesWhole == \A p \in Pages : \A i \in image[p] : i.whole

(* The pages a call returns are there, whole and within the API's limit,    *)
(* the ones it reused included.                                             *)
ReturnedPagesFit ==
    \A p \in returned : \E i \in image[p] : i.whole /\ Fits(p, i.dpi)

(* "Over the API image limit -- lower -dpi" (render.go:51): a call that      *)
(* fails so would not have failed at the resolution it was asked for.       *)
LowerDpiHelps == phase = "oversize" => ~Fits(Page, dpi)
=============================================================================
