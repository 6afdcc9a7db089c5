-------------------------- MODULE MCClipboardWatch --------------------------
(* Instances of ClipboardWatch for TLC: a machine with X11 tools. *)
EXTENDS ClipboardWatch

X11Tools == {"xsel", "xclip"}
AllStrategies == {"polling", "clipnotify", "changeCount", "noop"}
=============================================================================
