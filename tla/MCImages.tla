------------------------------ MODULE MCImages ------------------------------
(***************************************************************************)
(* The image worker on small instances: its way with requests, and what it *)
(* computes.  The two share no state; `part` says which one is run.        *)
(*                                                                         *)
(* The requests: two workers, one of which can lose its channel while it   *)
(* processes a request that is then delivered to the other.  The images:   *)
(* every image of at most three by two pixels of four colours, resized and *)
(* filtered twice; the wider one has a column without a border.            *)
(***************************************************************************)
EXTENDS ImagePipeline, ImageFilters

MCSizes == {<<1, 1>>, <<2, 2>>, <<3, 2>>}
MCColours == {<<0, 0, 0>>, <<255, 255, 255>>, <<128, 128, 128>>, <<255, 0, 100>>}

VARIABLE part

vars == <<part, pipelineVars, imageVars>>

Init ==
    /\ part \in {"requests", "images"}
    /\ PipelineInit /\ FilterInit

OthersStay ==
    /\ UNCHANGED part
    /\ part # "requests" => UNCHANGED pipelineVars
    /\ part # "images" => UNCHANGED imageVars

RequestStep == part = "requests" /\ PipelineNext /\ OthersStay
ImageStep == part = "images" /\ FilterNext /\ OthersStay

Next == RequestStep \/ ImageStep

Fairness ==
    \/ part = "requests" /\ PipelineFairness
    \/ part = "images"

Spec == Init /\ [][Next]_vars /\ Fairness

TypeOK == PipelineTypeOK /\ FilterTypeOK

\* The part that runs keeps its promise of liveness: see Answered.
RequestsAnswered == part = "requests" => Answered

=============================================================================
