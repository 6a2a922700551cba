--------------------------- MODULE MCProvisioning ---------------------------
(* Bounded instance of Provisioning for TLC.                                *)
EXTENDS Provisioning

\* A password that fills its field, one of a single character of two bytes, which
\* fills it when it is read, and one that does not fit it any more.
MCCredentials ==
    {[ssid |-> <<"a">>, password |-> <<"b", "a", "b", "a">>],
     [ssid |-> <<"b">>, password |-> <<"lead", "tail">>],
     [ssid |-> <<"a">>, password |-> <<"lead", "tail", "b">>]}

\* A character of two bytes, and what its bytes are read as.
MCLatin1 == [b \in {"lead", "tail", "erased"} |-> "two bytes for " \o b]

\* Settings against provisioning; the whole of the tray's menu; its parts against
\* a restart; settings and dialogs against the knob's power.
MCScenarios ==
    {[setting |-> 2, mode |-> 0, dialog |-> 1, exit |-> 0, cut |-> 0, drop |-> 0],
     [setting |-> 1, mode |-> 1, dialog |-> 1, exit |-> 0, cut |-> 0, drop |-> 0],
     [setting |-> 1, mode |-> 0, dialog |-> 1, exit |-> 1, cut |-> 0, drop |-> 0],
     [setting |-> 0, mode |-> 1, dialog |-> 1, exit |-> 1, cut |-> 0, drop |-> 0],
     [setting |-> 1, mode |-> 0, dialog |-> 1, exit |-> 0, cut |-> 1, drop |-> 0],
     [setting |-> 1, mode |-> 0, dialog |-> 1, exit |-> 0, cut |-> 0, drop |-> 1],
     [setting |-> 0, mode |-> 0, dialog |-> 2, exit |-> 0, cut |-> 1, drop |-> 0]}
=============================================================================
