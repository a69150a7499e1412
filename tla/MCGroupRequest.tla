---------------------------- MODULE MCGroupRequest ----------------------------
(* The three images and two taps of the button: the second tap may come at   *)
(* any point of the first one's requests.                                    *)
EXTENDS GroupRequest
=============================================================================
