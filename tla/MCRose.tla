------------------------------- MODULE MCRose -------------------------------
(* One kind of switch for each of the tables of libpri/rose.c.              *)
EXTENDS RoseLink
MCSwitchtypes == {"PRI_SWITCH_EUROISDN_E1", "PRI_SWITCH_QSIG", "PRI_SWITCH_DMS100",
                  "PRI_SWITCH_NI2"}
=============================================================================
