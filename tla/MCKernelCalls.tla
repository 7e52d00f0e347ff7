---------------------------- MODULE MCKernelCalls ----------------------------
EXTENDS KernelCalls
MCMaxCalls == [t \in Thread |-> IF t = Host THEN 6 ELSE 3]
=============================================================================
