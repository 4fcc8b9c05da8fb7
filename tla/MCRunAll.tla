------------------------------ MODULE MCRunAll ------------------------------
(* The families and backends of run_all.sh.                                 *)
EXTENDS RunAll

AllFamilies == <<"bv", "qft", "qwalk", "vqe_two_local">>
AllBaselines == <<"cuQuantum", "ddsim", "qblaze">>
AllAblations == <<"zxh-nox", "zxh-exp">>
=============================================================================
