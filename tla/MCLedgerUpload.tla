-------------------------- MODULE MCLedgerUpload --------------------------
\* A small instance of LedgerUpload: the primary photo and two others.
EXTENDS LedgerUpload

CONSTANTS invoiceKind, pageKind, receiptKind

PageAndReceipt == <<pageKind, receiptKind>>
TwoPages == <<pageKind, pageKind>>
=============================================================================
