---------------------------- MODULE MCDeviceSync ----------------------------
(***************************************************************************)
(* Instances of DeviceSync for TLC: what the files hold, who wrote them    *)
(* and when the responses were logged.                                     *)
(***************************************************************************)
EXTENDS DeviceSync, TLC

CONSTANTS f1, f2, k1, k2, s1, s2

\* One response copied into the files of two sessions.
CopiesKeyOf == (f1 :> k1) @@ (f2 :> k1)
CopiesSessOf == (f1 :> s1) @@ (f2 :> s2)
CopiesBornAt == (k1 :> 1)

\* One response in one file.
OneKeyOf == (f1 :> k1)
OneSessOf == (f1 :> s1)
OneBornAt == (k1 :> 1)

\* Two responses in files of their own, logged as soon as the device runs.
TwoKeyOf == (f1 :> k1) @@ (f2 :> k2)
TwoSessOf == (f1 :> s1) @@ (f2 :> s2)
EarlyBornAt == (k1 :> 0) @@ (k2 :> 0)

\* No account is special.
AccountSymmetry == Permutations(Accounts)
=============================================================================
