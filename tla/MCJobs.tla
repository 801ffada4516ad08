------------------------------- MODULE MCJobs -------------------------------
(* Instances of the pipeline for TLC. *)
EXTENDS JobProperties

\* Requests in array order; the index fields are legal and out of order.
MCSnapshot == <<1, 0>>
MCOneRequest == <<0>>
MCSlots == AllSlots

=============================================================================
