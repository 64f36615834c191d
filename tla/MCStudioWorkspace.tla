-------------------------- MODULE MCStudioWorkspace --------------------------
(* Two translation units and a header; the default project is one of each.  *)
EXTENDS StudioWorkspace

MCNames == {"main.c", "math.c", "nova.h"}
MCSources == {"main.c", "math.c"}
MCDefault == <<"main.c", "nova.h">>
=============================================================================
