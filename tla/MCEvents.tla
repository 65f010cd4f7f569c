------------------------------- MODULE MCEvents -------------------------------
(* The small instances of Events, with the mints of MCPool.                    *)
EXTENDS Events, MCPool

=============================================================================
