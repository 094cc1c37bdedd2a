---------------------------- MODULE MCHeapCapture ----------------------------
(* Two components, one at a time: small programs on the heap, and the       *)
(* capture of a program that may exceed its limit.                          *)
EXTENDS MCHeap, GujiCapture

VARIABLE part      \* the component that works

Sayings == "stdout" :> 3 @@ "stderr" :> 1

PartsInit == Init /\ ((part = "heap" /\ Ready("done")) \/ (part = "capture" /\ CaptureInit))

PartsNext ==
  /\ UNCHANGED part
  /\ \/ part = "heap" /\ Next /\ UNCHANGED captureVars
     \/ part = "capture" /\ CaptureNext /\ UNCHANGED vars

PartsSpec == PartsInit /\ [][PartsNext]_<<part, vars, captureVars>> /\ CaptureFairness
=============================================================================
