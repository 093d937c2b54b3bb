-------------------------------- MODULE Capture --------------------------------
(***************************************************************************)
(* Frames on their way from the compositor to the encoder, in the build of *)
(* either platform: the Vulkan layer and the thread of the encoder on      *)
(* Linux, the direct mode component on Windows.  The two share no state:   *)
(* one behaviour is of one platform.                                       *)
(***************************************************************************)
EXTENDS LinuxCapture, DirectMode

VARIABLE platform   \* the platform the driver was built for

vars == <<platform, linuxVars, directVars>>

Init ==
  /\ platform \in {"linux", "win32"}
  /\ LinuxInit
  /\ DirectInit

Linux(A) == platform = "linux" /\ A /\ UNCHANGED <<platform, directVars>>
Win32(A) == platform = "win32" /\ A /\ UNCHANGED <<platform, linuxVars>>

Next == Linux(LinuxNext) \/ Win32(DirectNext)

(* The threads of the compositor and of the page flips go on, and the GPU  *)
(* signals every fence that does not fail; on Windows the encoder goes on  *)
(* too.  When the compositor calls, and everything about the encoder on    *)
(* Linux, is free.                                                         *)
Spec ==
  /\ Init
  /\ [][Next]_vars
  /\ WF_vars(Linux(AppStep /\ UNCHANGED encVars))
  /\ \A c \in Chains : /\ WF_vars(Linux(TakeAndSubmit(c)))
                       /\ WF_vars(Linux(FlipStep(c) /\ UNCHANGED encVars))
  /\ WF_vars(Win32(CompositorStep))
  /\ WF_vars(Win32(EncoderThread))

(* Every variable has its type. *)
TypeOK == SwapTypeOK /\ LinuxTypeOK /\ DirectTypeOK
=============================================================================
