----------------------------- MODULE MC_FatReaddir -----------------------------
(***************************************************************************)
(* The directory and names of MC_FatDir, read through one handle.        *)
(***************************************************************************)
EXTENDS MC_FatDir, FatReaddir
====
