---------------------------- MODULE MCDailyImport ----------------------------
(* The daily publication: both CSV copies, then the quality report.        *)
EXTENDS DailyImport

SupportingFiles == <<"cex_csv", "dex_csv", "report">>
=============================================================================
