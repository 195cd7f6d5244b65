------------------------------ MODULE MCOcrQueue ------------------------------
(***************************************************************************)
(* The queue of MCOcrVerification and the reading of photos.  The reading  *)
(* changes no row and the queue looks into no photo, so a behaviour is of  *)
(* one of them and nothing is gained from interleaving both.               *)
(***************************************************************************)
EXTENDS MCOcrVerification, Ec8aPhotos

VARIABLE side

TheBallot == <<"A", "AA", "ADC">>

(* One of them has the initial of another party. *)
TheAgents == [c \in {"A", "AA", "ADC"} |-> IF c = "AA" THEN "A" ELSE "S"]

BothInit ==
    \/ side = "queue" /\ OcrInit /\ photo = EmptyForm /\ extract = Unseen /\ amount = 0
    \/ side = "photos" /\ OcrInit /\ PhotosInit

BothNext ==
    /\ \/ side = "queue" /\ QueueNext /\ UNCHANGED photoVars
       \/ side = "photos" /\ PhotosNext /\ UNCHANGED ocrVars
    /\ UNCHANGED side

BothSpec == BothInit /\ [][BothNext]_<<ocrVars, photoVars, side>> /\ Fairness
=============================================================================
