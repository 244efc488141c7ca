----------------------------- MODULE HttpRoutes ------------------------------
(***************************************************************************)
(* The HTTP surface (main.py and api/routers): for every route, by its     *)
(* handler's name, the dependency that gates it, the kind of data it       *)
(* serves, whether it writes, the rate limiter it passes and the statuses  *)
(* its handler answers for the errors it catches.  A handler awaits its    *)
(* limiter, runs one operation of a store and turns the store's errors     *)
(* into these statuses; an error it does not catch is answered with 500.   *)
(***************************************************************************)
EXTENDS Naturals, FiniteSets

Rows(gate, area, effect, answers, names) ==
    [name: names, gate: {gate}, area: {area}, effect: {effect},
     limiter: {"none"}, answers: {answers}]

Limited(limiter, rows) == {[r EXCEPT !.limiter = limiter] : r \in rows}

PageRoutes ==
    Rows("public", "pages", "read", {},
          {"index", "login_index", "signup_index", "verify_email_index",
           "forgot_password_index", "reset_password_index", "accept_invitation_index",
           "approval_index"})

HealthRoutes ==
    Rows("public", "health", "read", {}, {"health", "ready"})

LoginRoutes ==
       Limited("login", Rows("public", "accounts", "write", {401}, {"login"}))
    \cup Limited("signup",
          Rows("public", "accounts", "write", {409, 422}, {"signup"}))

RecoveryRoutes ==
       Limited("email_verification_resend",
          Rows("session", "accounts", "write", {422}, {"resend_email_verification"}))
    \cup Limited("email_verification",
          Rows("public", "accounts", "write", {422}, {"verify_email"}))
    \cup Limited("password_reset",
          Rows("public", "accounts", "write", {}, {"password_reset_request"}))
    \cup Limited("password_reset",
          Rows("public", "accounts", "write", {422}, {"password_reset_confirm"}))
    \cup Limited("invitation_acceptance",
          Rows("public", "accounts", "write", {422}, {"accept_shop_invitation"}))

SessionRoutes ==
       Rows("session", "accounts", "write", {}, {"logout", "revoke_other_auth_sessions"})
    \cup Rows("session", "accounts", "read", {},
          {"auth_me", "get_auth_sessions", "get_login_history", "get_account_security"})
    \cup Rows("session", "accounts", "write", {422}, {"password_change"})
    \cup Rows("session", "accounts", "write", {404}, {"revoke_auth_session"})

TeamRoutes ==
       Rows("owner", "team", "write", {409, 422}, {"prepare_shop_invitation"})
    \cup Rows("owner", "team", "read", {}, {"get_shop_invitations", "get_shop_members"})
    \cup Rows("owner", "team", "write", {422},
          {"revoke_shop_invitation", "change_shop_member_status"})

BillingRoutes ==
       Rows("billing", "billing", "read", {422, 503}, {"get_billing_subscription"})
    \cup Rows("billing", "billing", "read", {}, {"list_billing_events"})
    \cup Rows("billing", "billing", "write", {409, 422, 502, 503},
          {"add_billing_payment_method", "subscribe_billing", "change_billing_tier"})

BillingEndRoutes ==
    Rows("billing", "billing", "write", {422, 502, 503},
          {"cancel_billing_subscription", "refresh_billing_subscription"})

ModeRoutes ==
       Rows("owner", "mode", "read", {422, 503},
          {"get_capabilities_record", "preview_operating_mode_change"})
    \cup Rows("owner", "mode", "write", {409, 422, 503}, {"apply_operating_mode_change"})
    \cup Rows("owner_only", "mode", "read", {422, 503},
          {"get_operating_mode_onboarding_status"})
    \cup Rows("owner_only", "mode", "write", {409, 422, 503},
          {"complete_operating_mode_onboarding"})

StorageRoutes ==
    Limited("operations_storage",
            Rows("support", "platform", "read", {}, {"get_storage_observability"}))

SummaryRoutes ==
    Limited("operations_summary",
            Rows("support", "platform", "read", {}, {"get_operations_summary"}))

SupportRoutes ==
       Rows("support", "support", "read", {}, {"list_support_shops"})
    \cup Rows("support", "support", "write", {404}, {"start_shop_impersonation"})
    \cup Rows("session", "support", "write", {}, {"end_shop_impersonation_route"})

TestingRoutes ==
       Rows("testing", "testing", "write", {404, 503},
          {"create_synthetic_owner", "delete_synthetic_account",
           "delete_all_synthetic_accounts"})
    \cup Rows("testing", "testing", "write", {404, 422, 503},
          {"create_synthetic_technician"})
    \cup Rows("testing", "testing", "read", {},
          {"reset_concurrency_probe_record", "get_concurrency_probe_record"})

CustomerRoutes ==
       Rows("owner", "customers", "write", {422, 503}, {"create_customer_record"})
    \cup Rows("owner", "customers", "read", {422, 503}, {"list_customer_records"})
    \cup Rows("owner", "customers", "read", {404, 422, 503}, {"get_customer_record"})
    \cup Rows("owner", "customers", "write", {404, 422, 503},
          {"update_customer_record", "archive_customer_record"})

GarageRoutes ==
       Rows("owner", "vehicles", "write", {404, 422, 503}, {"create_vehicle_record"})
    \cup Rows("owner", "vehicles", "read", {404, 422, 503},
          {"list_customer_vehicle_records", "get_customer_history_record"})

VehicleRoutes ==
       Limited("vin_decode",
          Rows("owner", "vehicles", "read", {}, {"decode_vehicle_vin"}))
    \cup Rows("owner", "vehicles", "read", {404, 422, 503},
          {"list_vehicle_records", "get_vehicle_record"})
    \cup Rows("owner", "vehicles", "write", {404, 422, 503},
          {"update_vehicle_record", "archive_vehicle_record"})

OrderRoutes ==
       Rows("owner", "purchasing", "write", {422, 503}, {"create_purchase_order_record"})
    \cup Rows("owner", "purchasing", "read", {422, 503}, {"list_purchase_order_records"})
    \cup Rows("owner", "purchasing", "read", {404, 503}, {"get_purchase_order_record"})
    \cup Rows("owner", "purchasing", "write", {404, 422, 503},
          {"submit_purchase_order_record", "cancel_purchase_order_record"})

ReceiptRoutes ==
       Rows("owner", "purchasing", "write", {404, 422, 503},
          {"receive_purchase_order_record"})
    \cup Rows("owner", "purchasing", "read", {404, 503},
          {"list_purchase_order_receipt_records"})

AllocationRoutes ==
       Rows("owner_or_technician", "allocations", "write", {422, 503},
          {"create_part_allocation_record"})
    \cup Rows("owner_or_technician", "allocations", "read", {422, 503},
          {"list_part_allocation_records"})
    \cup Rows("owner_or_technician", "allocations", "read", {404, 503},
          {"get_part_allocation_record"})
    \cup Rows("owner_or_technician", "allocations", "write", {404, 422, 503},
          {"allocate_part_record", "use_part_allocation_record",
           "return_part_allocation_record"})

AllocationEventRoutes ==
    Rows("owner", "allocations", "read", {404, 503},
          {"list_part_allocation_event_records"})

GapRoutes ==
       Rows("owner", "gaps", "write", {422, 503}, {"create_workflow_gap_record"})
    \cup Rows("owner", "gaps", "read", {422, 503}, {"list_workflow_gap_records"})
    \cup Rows("owner", "gaps", "read", {404, 503},
          {"get_workflow_gap_record", "list_workflow_gap_event_records"})
    \cup Rows("owner", "gaps", "write", {404, 409, 422, 503},
          {"update_workflow_gap_record"})
    \cup Rows("owner", "gaps", "write", {404, 409, 503},
          {"record_workflow_gap_occurrence_record"})

IntakeRoutes ==
       Rows("owner", "intake", "write", {422, 503}, {"create_intake_request_record"})
    \cup Rows("owner", "intake", "read", {422, 503}, {"list_intake_request_records"})
    \cup Rows("owner", "intake", "read", {404, 422, 503}, {"get_intake_request_record"})
    \cup Rows("owner", "intake", "write", {404, 409, 422, 503},
          {"update_intake_request_record", "convert_intake_request_record"})

FindingRoutes ==
       Rows("owner_or_technician", "diagnostics", "write", {422, 503},
          {"create_diagnostic_finding_record"})
    \cup Rows("owner_or_technician", "diagnostics", "read", {422, 503},
          {"list_diagnostic_finding_records"})
    \cup Rows("owner_or_technician", "diagnostics", "read", {404, 422, 503},
          {"get_diagnostic_finding_record"})
    \cup Rows("owner_or_technician", "diagnostics", "write", {404, 422, 503},
          {"update_diagnostic_finding_record"})
    \cup Rows("owner", "diagnostics", "write", {404, 503},
          {"archive_diagnostic_finding_record"})
    \cup Rows("owner", "diagnostics", "read", {404, 503},
          {"list_diagnostic_finding_event_records"})

CompilationRoutes ==
       Rows("owner", "jobs", "write", {404, 422, 503},
          {"compile_job_from_finding", "release_job_compilation_record"})
    \cup Rows("owner", "jobs", "read", {422, 503}, {"list_job_compilation_records"})
    \cup Rows("owner", "jobs", "read", {404, 503},
          {"get_job_compilation_record", "list_job_compilation_event_records"})

ProposalRoutes ==
       Limited("job_proposal",
          Rows("owner", "jobs", "write", {404, 422, 503}, {"propose_job_inputs_record"}))
    \cup Rows("owner", "jobs", "read", {422, 503}, {"list_job_input_proposal_records"})
    \cup Rows("owner", "jobs", "read", {404, 503}, {"get_job_input_proposal_record"})
    \cup Rows("owner", "jobs", "write", {404, 422, 503},
          {"set_job_input_proposal_disposition_record"})

InspectionRoutes ==
       Rows("owner_or_technician", "diagnostics", "write", {422, 503},
          {"create_inspection_record"})
    \cup Rows("owner_or_technician", "diagnostics", "read", {422, 503},
          {"list_inspection_records"})
    \cup Rows("owner_or_technician", "diagnostics", "read", {404, 422, 503},
          {"get_inspection_record"})
    \cup Rows("owner_or_technician", "diagnostics", "write", {404, 422, 503},
          {"update_inspection_record"})
    \cup Rows("owner", "diagnostics", "write", {404, 503}, {"archive_inspection_record"})
    \cup Rows("owner", "diagnostics", "read", {404, 503},
          {"list_inspection_event_records"})

AssistantRoutes ==
       Rows("verified", "assistant", "read", {}, {"resolve_location"})
    \cup Limited("general",
          Rows("verified", "assistant", "read", {422, 502, 503}, {"chat"}))

EstimateRoutes ==
       Rows("owner", "estimates", "write", {404, 422, 429, 502, 503, 504},
          {"create_estimate_record"})
    \cup Rows("owner", "estimates", "read", {404, 422, 503},
          {"list_estimate_records", "get_estimate_record"})
    \cup Rows("owner", "estimates", "write", {404, 409, 422, 503},
          {"update_estimate_record"})

RevisionRoutes ==
       Rows("owner", "estimates", "write", {404, 422, 429, 502, 503, 504},
          {"create_estimate_revision_record"})
    \cup Rows("owner", "estimates", "write", {404, 422, 503},
          {"send_estimate_record_for_approval",
           "revoke_estimate_approval_request_record"})

ApprovalRoutes ==
       Limited("general",
          Rows("public", "approval", "write", {404, 422, 503}, {"approval_view"}))
    \cup Limited("general", Rows("public", "approval", "write", {404, 409, 422, 503},
          {"approval_approve", "approval_decline"}))

EstimateEndRoutes ==
       Rows("owner", "estimates", "read", {404, 422, 503}, {"estimate_approval_history"})
    \cup Rows("owner", "estimates", "write", {404, 409, 422, 503},
          {"create_work_order_record"})

WorkOrderRoutes ==
       Rows("owner_or_technician", "workorders", "read", {422, 503},
          {"list_work_order_records"})
    \cup Rows("owner_or_technician", "workorders", "read", {404, 422, 503},
          {"get_work_order_record"})
    \cup Rows("owner", "workorders", "write", {404, 422, 503},
          {"update_work_order_record", "assign_work_order_technician_record"})

WorkRoutes ==
       Rows("owner_or_technician", "workorders", "write", {404, 409, 422, 503},
          {"update_work_order_status_record"})
    \cup Rows("owner_or_technician", "workorders", "write", {404, 422, 503},
          {"add_work_order_note_record"})

InvoiceRoutes ==
       Rows("owner", "invoices", "read", {422, 503}, {"list_invoice_records"})
    \cup Rows("owner", "invoices", "read", {404, 422, 503},
          {"get_invoice_record", "get_invoice_html", "get_invoice_pdf"})
    \cup Rows("owner", "invoices", "write", {404, 422, 503}, {"issue_invoice_record"})

PaymentRoutes ==
    Rows("owner", "invoices", "write", {404, 422, 503},
          {"record_invoice_payment", "void_invoice_payment"})

SquareRoutes ==
       Rows("owner", "invoices", "write", {404, 409, 422, 502, 503},
          {"push_invoice_to_square_record"})
    \cup Rows("owner", "invoices", "write", {404, 422, 502, 503},
          {"refresh_square_invoice_record"})

ReportRoutes ==
       Rows("owner", "reports", "read", {422, 503},
          {"get_dashboard_summary_record", "get_payment_activity_report_record",
           "get_technician_time_report_record", "get_parts_usage_report_record"})
    \cup Rows("owner", "reports", "read", {503}, {"get_inventory_valuation_report_record"})

MoreReportRoutes ==
    Rows("owner", "reports", "read", {422, 503},
          {"get_vendor_purchasing_report_record",
           "get_work_order_cycle_time_report_record",
           "get_diagnostic_inspection_report_record"})

AvailabilityRoutes ==
    Rows("owner", "scheduling", "read", {404, 422, 503}, {"get_availability_record"})

AppointmentRoutes ==
       Rows("owner", "scheduling", "write", {404, 409, 422, 503},
          {"create_appointment_record"})
    \cup Rows("owner", "scheduling", "read", {422, 503}, {"list_appointment_records"})
    \cup Rows("owner", "scheduling", "read", {404, 503}, {"get_appointment_record"})

AppointmentChangeRoutes ==
    Rows("owner", "scheduling", "write", {404, 409, 422, 503},
          {"update_appointment_record", "move_appointment_record",
           "cancel_appointment_record"})

BayRoutes ==
       Rows("owner", "bays", "write", {422, 503}, {"create_bay_record"})
    \cup Rows("owner", "bays", "read", {422, 503}, {"list_bay_records"})
    \cup Rows("owner", "bays", "read", {404, 503}, {"get_bay_record"})
    \cup Rows("owner", "bays", "write", {404, 422, 503}, {"update_bay_record"})
    \cup Rows("owner", "bays", "write", {404, 503}, {"archive_bay_record"})

ContextRoutes ==
       Rows("verified", "context", "read", {422, 503}, {"get_context"})
    \cup Rows("verified", "context", "write", {409, 422, 503}, {"put_context"})
    \cup Rows("verified", "context", "write", {404, 409, 422, 503}, {"remove_context"})

NotificationRoutes ==
       Rows("owner", "notifications", "read", {422, 503}, {"list_notification_records"})
    \cup Rows("owner", "notifications", "write", {404, 422, 503},
          {"mark_notification_read_record"})
    \cup Rows("owner", "notifications", "write", {422, 503},
          {"mark_all_notifications_read_record"})

PartRoutes ==
       Rows("owner", "parts", "write", {422, 503}, {"create_part_record"})
    \cup Rows("owner", "parts", "read", {422, 503}, {"list_part_records"})
    \cup Rows("owner", "parts", "read", {404, 422, 503}, {"get_part_record"})
    \cup Rows("owner", "parts", "write", {404, 422, 503},
          {"update_part_record", "archive_part_record"})

BlockRoutes ==
       Rows("owner", "scheduling", "write", {422, 503}, {"create_schedule_block_record"})
    \cup Rows("owner", "scheduling", "read", {422, 503}, {"list_schedule_block_records"})
    \cup Rows("owner", "scheduling", "read", {404, 503}, {"get_schedule_block_record"})
    \cup Rows("owner", "scheduling", "write", {404, 422, 503},
          {"update_schedule_block_record"})
    \cup Rows("owner", "scheduling", "write", {404, 503}, {"delete_schedule_block_record"})

RosterRoutes ==
       Rows("owner", "technicians", "write", {422, 503}, {"create_technician_record"})
    \cup Rows("owner", "technicians", "read", {422, 503}, {"list_technician_records"})
    \cup Rows("owner_or_technician", "technicians", "read", {404, 503},
          {"get_my_technician_record"})

ClockRoutes ==
    Rows("owner_or_technician", "technicians", "write", {404, 409, 503},
          {"clock_in_record", "clock_out_record"})

TechnicianRoutes ==
       Rows("owner", "technicians", "read", {404, 422, 503}, {"get_technician_record"})
    \cup Rows("owner", "technicians", "write", {404, 422, 503},
          {"update_technician_record", "archive_technician_record"})
    \cup Rows("owner", "technicians", "write", {404, 409, 422, 503},
          {"provision_technician_login_record"})

VendorRoutes ==
       Rows("owner", "vendors", "write", {422, 503}, {"create_vendor_record"})
    \cup Rows("owner", "vendors", "read", {422, 503}, {"list_vendor_records"})
    \cup Rows("owner", "vendors", "read", {404, 422, 503}, {"get_vendor_record"})
    \cup Rows("owner", "vendors", "write", {404, 422, 503},
          {"update_vendor_record", "archive_vendor_record"})

HoursRoutes ==
       Rows("owner", "scheduling", "write", {422, 503}, {"create_working_hours_record"})
    \cup Rows("owner", "scheduling", "read", {422, 503}, {"list_working_hours_records"})
    \cup Rows("owner", "scheduling", "write", {404, 422, 503},
          {"update_working_hours_record"})
    \cup Rows("owner", "scheduling", "write", {404, 503}, {"delete_working_hours_record"})

Routes ==
    UNION {PageRoutes, HealthRoutes, LoginRoutes, RecoveryRoutes,
           SessionRoutes, TeamRoutes, BillingRoutes, BillingEndRoutes,
           ModeRoutes, StorageRoutes, SummaryRoutes, SupportRoutes,
           TestingRoutes, CustomerRoutes, GarageRoutes, VehicleRoutes,
           OrderRoutes, ReceiptRoutes, AllocationRoutes,
           AllocationEventRoutes, GapRoutes, IntakeRoutes,
           FindingRoutes, CompilationRoutes, ProposalRoutes,
           InspectionRoutes, AssistantRoutes, EstimateRoutes,
           RevisionRoutes, ApprovalRoutes, EstimateEndRoutes,
           WorkOrderRoutes, WorkRoutes, InvoiceRoutes, PaymentRoutes,
           SquareRoutes, ReportRoutes, MoreReportRoutes,
           AvailabilityRoutes, AppointmentRoutes,
           AppointmentChangeRoutes, BayRoutes, ContextRoutes,
           NotificationRoutes, PartRoutes, BlockRoutes, RosterRoutes,
           ClockRoutes, TechnicianRoutes, VendorRoutes, HoursRoutes}

-----------------------------------------------------------------------------
(* The gates (auth.py, api/deps.py): the dependency a handler declares *)

\* Mutant: a technician passes where only owner and manager may.
GateRolesLax(gate) ==
    CASE gate \in {"owner", "billing", "owner_or_technician"} ->
             {"owner", "manager", "technician"}
      [] gate = "owner_only" -> {"owner"}
      [] gate = "support"    -> {"support"}
      [] OTHER               -> {"owner", "manager", "technician", "support"}

\* require_role of each gate; the others admit every account.
GateRoles(gate) ==
    CASE gate \in {"owner", "billing"} -> {"owner", "manager"}
      [] gate = "owner_only"           -> {"owner"}
      [] gate = "owner_or_technician"  -> {"owner", "manager", "technician"}
      [] gate = "support"              -> {"support"}
      [] OTHER                         -> {"owner", "manager", "technician", "support"}

\* require_verified_email_if_present.
NeedsEmail(gate) ==
    gate \in {"verified", "owner", "owner_only", "owner_or_technician", "billing"}

\* Mutant: a billing gate behind the standing it is there to restore.
NeedsStandingForBilling(gate) ==
    gate \in {"owner", "owner_only", "owner_or_technician", "billing"}

\* require_shop_access_active.
NeedsStanding(gate) == gate \in {"owner", "owner_only", "owner_or_technician"}

NeedsSession(gate) == gate \notin {"public", "testing"}
=============================================================================
