------------------------------- MODULE Chains -------------------------------
(***************************************************************************)
(* pNext chains, as sequences of structure types                           *)
(* (src/layer/src/main/cpp/core/vk_pnext.h).                               *)
(***************************************************************************)
EXTENDS Naturals, FiniteSets, SequencesExt

\* The first structure of the type goes; one put back goes to the front.
Unlink(chain, s) ==
    IF Contains(chain, s) THEN RemoveAt(chain, SelectInSeq(chain, LAMBDA t : t = s)) ELSE chain
Relink(chain, s) == <<s>> \o chain

Without(chain, S) == SelectSeq(chain, LAMBDA s : s \notin S)
=============================================================================
