------------------------- MODULE MCVolumeAttributes -------------------------
(* Small instances of VolumeAttributes for TLC.                            *)
EXTENDS VolumeAttributes, TLC

MCStatic == {Empty, "writebackCache" :> "true", "dlm" :> "true" @@ "collection" :> "c"}
MCClasses == {Empty, "writebackCache" :> "true", "dlm" :> "true", "dlm" :> "false",
              "tuning" :> "bad", "collection" :> "d"}
=============================================================================
