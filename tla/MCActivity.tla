----------------------------- MODULE MCActivity -----------------------------
EXTENDS Activity, TLC

\* IDs, handles and contents are interchangeable; liveness is checked without it.
Symmetry == Permutations(Activities) \cup Permutations(Entities)
            \cup Permutations(Handles) \cup Permutations(Blobs)
=============================================================================
