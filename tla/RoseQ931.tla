----------------------------- MODULE RoseQ931 -------------------------------
(* Information elements of Q.931 carried in an APDU (libpri/rose_q931.c).   *)
EXTENDS Asn1

rose_enc_Q931ie(tag, q931ie) == asn1_enc_string_bin(tag, q931ie.contents)

-----------------------------------------------------------------------------

rose_dec_Q931ie(contents_size) == StrBin("contents", contents_size)
=============================================================================
