------------------------------ MODULE MCRamdisk ------------------------------
(* Blocks of two characters, and texts that fill one, or need a second.    *)
EXTENDS Ramdisk

=============================================================================
