------------------------- MODULE MCQuotaSettingsSync -------------------------
(* Small instances of QuotaSettingsSync.                                     *)
EXTENDS QuotaSettingsSync

\* The configuration agrees with the store, or the notification does not.
MCConfigurations == [mode : {0}, notify : Values]
=============================================================================
