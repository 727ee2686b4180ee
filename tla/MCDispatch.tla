------------------------------ MODULE MCDispatch ------------------------------
EXTENDS Dispatch, TLC

\* Workers differ in nothing but their names.
WorkerSymmetry == Permutations(Workers)
===============================================================================
